------------------------ MODULE SharedContractsProofs ------------------------
(***************************************************************************)
(* What the contracts of libs/shared keep to for every value of their      *)
(* constants: tokens, signed requests, the catalogue of tenants, locks and *)
(* counters of the cache, budgets behind the gateway, stores, routing.     *)
(* Every component has its own specification; the proofs do not meet.      *)
(***************************************************************************)
EXTENDS AuthTokens, SignedRequests, TenantMarketplace, TenantCache, APIGateway, TenantStorage,
        EventTopics, FiniteSetTheorems, WellFoundedInduction, TLAPS

\* A set in which any two elements are equal has at most one.
LEMMA AtMostOne ==
    ASSUME NEW S, \A x, y \in S : x = y
    PROVE  Cardinality(S) <= 1
<1>1. CASE S = {}
  BY <1>1, FS_EmptySet
<1>2. CASE S # {}
  <2>1. PICK x \in S : TRUE
    BY <1>2
  <2>2. S = {x}
    BY <2>1
  <2> QED
    BY <2>2, FS_Singleton
<1> QED
  BY <1>1, <1>2

\* Every set of numbers that is not empty has a least one: what stands for induction here.
LEMMA LeastNat ==
    ASSUME NEW S, S \subseteq Nat, S # {}
    PROVE  \E n \in S : \A m \in S : n <= m
<1>1. PICK n \in S : \A m \in S : ~(<<m, n>> \in OpToRel(<, Nat))
  BY NatLessThanWellFounded, WFMin
<1>2. \A m \in S : m < n => <<m, n>> \in OpToRel(<, Nat)
  BY DEF OpToRel
<1>3. \A m \in S : ~(m < n)
  BY <1>1, <1>2, Zenon
<1> QED
  BY <1>3

\* The numbers up to a bound, counted up from zero.
LEMMA CountedUp ==
    ASSUME NEW n \in Nat, NEW S, 0 \in S,
           \A i \in 0 .. n : i \in S /\ i < n => i + 1 \in S
    PROVE  0 .. n \subseteq S
<1> SUFFICES ASSUME (0 .. n) \ S # {}
             PROVE  FALSE
  OBVIOUS
<1> DEFINE T == (0 .. n) \ S
<1>0. T \subseteq Nat /\ T # {}
  OBVIOUS
<1> HIDE DEF T
<1>1. PICK i \in T : \A j \in T : i <= j
  BY <1>0, LeastNat
<1> USE DEF T
<1>2. i # 0 /\ i \in 0 .. n
  BY <1>1
<1> DEFINE j == i - 1
<1>3. j \in 0 .. n /\ j < n /\ ~(i <= j) /\ j + 1 = i
  BY <1>2
<1> HIDE DEF j
<1>4. j \in S
  BY <1>1, <1>3
<1>5. i \in S
  BY <1>3, <1>4
<1> QED
  BY <1>1, <1>5

\* The entries of a sequence.
LEMMA Entries ==
    ASSUME NEW R, NEW s \in Seq(R)
    PROVE  /\ Len(s) \in Nat
           /\ DOMAIN s = 1 .. Len(s)
           /\ \A j \in DOMAIN s : s[j] \in R
  OBVIOUS

\* An entry is appended, or the first one taken away.
LEMMA Lengthened ==
    ASSUME NEW R, NEW s \in Seq(R), NEW e \in R
    PROVE  Append(s, e) \in Seq(R)
  OBVIOUS

LEMMA Shortened ==
    ASSUME NEW R, NEW s \in Seq(R), s # <<>>
    PROVE  Tail(s) \in Seq(R)
  OBVIOUS

\* An entry is replaced.
LEMMA Replaced ==
    ASSUME NEW R, NEW s \in Seq(R), NEW i \in DOMAIN s, NEW e \in R
    PROVE  /\ [s EXCEPT ![i] = e] \in Seq(R)
           /\ Len([s EXCEPT ![i] = e]) = Len(s)
           /\ DOMAIN [s EXCEPT ![i] = e] = DOMAIN s
           /\ \A j \in DOMAIN s : [s EXCEPT ![i] = e][j] = IF j = i THEN e ELSE s[j]
  OBVIOUS

----------------------------------------------------------------------------
\* Tokens.

\* Two live refresh tokens of one login are one token. No access token outlives the
\* present by more than its own life, and none that of the login's live refresh
\* token, counted from its issue, by more.
OneLiveToken ==
    \A i, j \in Tokens :
        /\ records[i].login = records[j].login
        /\ records[i].state = "live"
        /\ records[j].state = "live"
        => i = j

AccessRunsOut ==
    /\ \A a \in accesses : a.expires_at <= time + AccessTTL
    /\ \A i \in Tokens : \A a \in accesses :
           records[i].state = "live" /\ a.login = records[i].login =>
               a.expires_at <= records[i].expires_at - RefreshTTL + AccessTTL

\* Only sessions that began have tokens or access; one whose tokens are all revoked is
\* closed, for good, and its access ends within the life of an access token.
Began(l) == \E i \in Tokens : records[i].login = l
NoneLive(l) == \A i \in Tokens : records[i].login = l => records[i].state # "live"

SessionsEnd ==
    /\ \A a \in accesses : Began(a.login)
    /\ \A l \in Logins : Began(l) /\ NoneLive(l) => closed[l] # Open
    /\ \A l \in Logins : closed[l] # Open =>
           /\ Began(l) /\ NoneLive(l)
           /\ \A a \in accesses : a.login = l => a.expires_at <= closed[l] + AccessTTL

TokensInv == TokensTypeOK /\ OneLiveToken /\ AccessRunsOut /\ SessionsEnd

\* What the store looks like when token i is revoked.
LEMMA RevokedRecords ==
    ASSUME TokensInv, NEW i \in Tokens, NEW n \in 0 .. MaxTokens
    PROVE  /\ Revoked(i, n) \in Seq(RefreshTokenRecords)
           /\ DOMAIN Revoked(i, n) = Tokens
           /\ Len(Revoked(i, n)) = Len(records)
           /\ \A j \in Tokens : /\ Revoked(i, n)[j].login = records[j].login
                                /\ Revoked(i, n)[j].expires_at = records[j].expires_at
                                /\ Revoked(i, n)[j].state =
                                       IF j = i THEN "revoked" ELSE records[j].state
<1> DEFINE gone == [records[i] EXCEPT !.state = "revoked", !.replaced_by = n]
<1>1. records \in Seq(RefreshTokenRecords)
  BY DEF TokensInv, TokensTypeOK
<1>2. \A j \in Tokens : records[j] \in RefreshTokenRecords
  BY <1>1, Entries DEF Tokens
<1>3. /\ gone \in RefreshTokenRecords
      /\ gone.login = records[i].login /\ gone.expires_at = records[i].expires_at
      /\ gone.state = "revoked"
  BY <1>2 DEF RefreshTokenRecords
<1>4. Revoked(i, n) = [records EXCEPT ![i] = gone]
  BY DEF Revoked
<1> HIDE DEF gone
<1> QED
  BY <1>1, <1>3, <1>4, Replaced DEF Tokens

\* A record that is appended comes last, and the ones before it stay.
LEMMA AppendedRecord ==
    ASSUME TokensInv, NEW kept \in Seq(RefreshTokenRecords), Len(kept) = Len(records), NEW l \in Logins
    PROVE  /\ Append(kept, NewRecord(l)) \in Seq(RefreshTokenRecords)
           /\ DOMAIN Append(kept, NewRecord(l)) = 1 .. Len(records) + 1
           /\ Append(kept, NewRecord(l))[Len(records) + 1] = NewRecord(l)
           /\ \A j \in 1 .. Len(records) : Append(kept, NewRecord(l))[j] = kept[j]
<1>1. NewRecord(l) \in RefreshTokenRecords
  BY TokenTTLAssumption DEF NewRecord, RefreshTokenRecords, TokensInv, TokensTypeOK
<1> QED
  BY <1>1

LEMMA TokensInitially == TokensInit => TokensInv
  BY TokenTTLAssumption
  DEF TokensInit, TokensInv, TokensTypeOK, OneLiveToken, AccessRunsOut, SessionsEnd, Began, Tokens

LEMMA TokensStep == TokensInv /\ [TokensNext]_tokenVars => TokensInv'
<1> SUFFICES ASSUME TokensInv, [TokensNext]_tokenVars
             PROVE  TokensInv'
  OBVIOUS
<1> USE TokenTTLAssumption
<1>0. /\ time \in Nat
      /\ records \in Seq(RefreshTokenRecords)
      /\ Tokens = 1 .. Len(records)
      /\ Len(records) \in Nat
      /\ \A i \in Tokens : records[i] \in RefreshTokenRecords
      /\ accesses \subseteq [login : Logins, expires_at : Nat]
      /\ RefreshTTL \in Nat /\ AccessTTL \in Nat
      /\ closed \in [Logins -> Nat \cup {Open}]
  BY TokenTTLAssumption, Entries DEF TokensInv, TokensTypeOK, Tokens
<1>00. \A i \in Tokens : records[i].login \in Logins
  BY <1>0 DEF RefreshTokenRecords
<1>1. ASSUME NEW l \in Logins, IssueTokenPair(l)
      PROVE  TokensInv'
  <2>1. /\ records' \in Seq(RefreshTokenRecords)
        /\ DOMAIN records' = 1 .. Len(records) + 1
        /\ records'[Len(records) + 1] = NewRecord(l)
        /\ \A j \in 1 .. Len(records) : records'[j] = records[j]
    BY <1>0, <1>1, AppendedRecord DEF IssueTokenPair
  <2>2. NewAccess(l) \in [login : Logins, expires_at : Nat]
    BY <1>0 DEF NewAccess
  <2>3. TokensTypeOK'
    BY <1>0, <1>1, <2>1, <2>2 DEF TokensTypeOK, IssueTokenPair, RefreshTokenRecords
  <2>4. OneLiveToken'
    BY <1>0, <1>1, <2>1 DEF OneLiveToken, IssueTokenPair, NewRecord, TokensInv, Tokens
  <2>5. AccessRunsOut'
    BY <1>0, <1>1, <2>1 DEF AccessRunsOut, IssueTokenPair, NewRecord, NewAccess, TokensInv, Tokens,
                            RefreshTokenRecords
  <2>6. /\ accesses' = accesses \cup {NewAccess(l)} /\ NewAccess(l).login = l
        /\ records'[Len(records) + 1].login = l /\ records'[Len(records) + 1].state = "live"
        /\ closed' = closed /\ ~Began(l)
    BY <1>0, <1>1, <2>1 DEF IssueTokenPair, NewRecord, NewAccess, Began
  <2>7. /\ \A k \in Logins : Began(k)' <=> Began(k) \/ k = l
        /\ \A k \in Logins \ {l} : NoneLive(k)' <=> NoneLive(k)
        /\ ~NoneLive(l)'
    BY <1>0, <2>1, <2>6 DEF Began, NoneLive, Tokens
  <2>8. SessionsEnd'
    BY <1>0, <2>6, <2>7 DEF SessionsEnd, TokensInv
  <2> QED
    BY <2>3, <2>4, <2>5, <2>8 DEF TokensInv
<1>2. ASSUME NEW i \in Tokens, RefreshTokenPair(i)
      PROVE  TokensInv'
  <2> DEFINE kept == Revoked(i, Len(records) + 1)
  <2>l. PICK l \in Logins : l = records[i].login
    BY <1>00
  <2>0. l \in Logins /\ Len(records) + 1 \in 0 .. MaxTokens
    BY <1>0, <1>2 DEF RefreshTokenPair
  <2>1. /\ kept \in Seq(RefreshTokenRecords)
        /\ Len(kept) = Len(records)
        /\ \A j \in Tokens : /\ kept[j].login = records[j].login
                             /\ kept[j].expires_at = records[j].expires_at
                             /\ kept[j].state = IF j = i THEN "revoked" ELSE records[j].state
    BY <1>0, <2>0, RevokedRecords
  <2>2. records' = Append(kept, NewRecord(l)) /\ accesses' = accesses \cup {NewAccess(l)}
        /\ time' = time /\ records[i].state = "live" /\ closed' = closed
    BY <1>2, <2>l DEF RefreshTokenPair
  <2> HIDE DEF kept
  <2>3. /\ records' \in Seq(RefreshTokenRecords)
        /\ DOMAIN records' = 1 .. Len(records) + 1
        /\ records'[Len(records) + 1] = NewRecord(l)
        /\ \A j \in 1 .. Len(records) : records'[j] = kept[j]
    BY <1>0, <2>0, <2>1, <2>2, AppendedRecord
  <2>4. NewAccess(l) \in [login : Logins, expires_at : Nat]
    BY <1>0, <2>0 DEF NewAccess
  <2>5. TokensTypeOK'
    BY <1>0, <2>2, <2>3, <2>4 DEF TokensTypeOK, RefreshTokenRecords
  <2>6. \A j \in Tokens : kept[j].state = "live" =>
            records[j].state = "live" /\ records[j].login # l
    BY <2>1, <2>2, <2>l DEF OneLiveToken, TokensInv
  <2>7. Tokens' = Tokens \cup {Len(records) + 1} /\ Len(records) + 1 \notin Tokens
    BY <1>0, <2>3 DEF Tokens
  <2>8. NewRecord(l).login = l /\ NewRecord(l).expires_at = time + RefreshTTL
        /\ NewRecord(l).state = "live"
        /\ NewAccess(l).login = l /\ NewAccess(l).expires_at = time + AccessTTL
    BY DEF NewRecord, NewAccess
  <2>9. OneLiveToken'
    <3>1. \A j \in Tokens : /\ records'[j].login = records[j].login
                            /\ records'[j].state = "live" =>
                                   records[j].state = "live" /\ records[j].login # l
      BY <1>0, <2>1, <2>3, <2>6
    <3>2. records'[Len(records) + 1].login = l
      BY <2>3, <2>8
    <3> QED
      BY <2>7, <3>1, <3>2 DEF OneLiveToken, TokensInv
  <2>10. \A a \in accesses' : a.expires_at <= time + AccessTTL
    BY <1>0, <2>2, <2>4, <2>8 DEF AccessRunsOut, TokensInv
  <2>11. ASSUME NEW j \in Tokens', NEW a \in accesses', records'[j].state = "live",
                a.login = records'[j].login
         PROVE  a.expires_at <= records'[j].expires_at - RefreshTTL + AccessTTL
    <3>1. CASE j = Len(records) + 1
      <4>1. records'[j].expires_at = time + RefreshTTL /\ a.expires_at \in Nat
        BY <1>0, <2>2, <2>3, <2>4, <2>8, <3>1
      <4> QED
        BY <1>0, <2>10, <4>1
    <3>2. CASE j \in Tokens
      <4>1. /\ records'[j].login = records[j].login
            /\ records'[j].expires_at = records[j].expires_at
            /\ records[j].state = "live" /\ records[j].login # l
        BY <1>0, <2>1, <2>3, <2>6, <2>11, <3>2
      <4>2. a \in accesses
        BY <2>2, <2>8, <2>11, <4>1
      <4> QED
        BY <2>11, <3>2, <4>1, <4>2 DEF AccessRunsOut, TokensInv
    <3> QED
      BY <2>7, <3>1, <3>2
  <2>12. AccessRunsOut'
    BY <2>2, <2>10, <2>11 DEF AccessRunsOut
  <2>13. Began(l) /\ ~NoneLive(l)
    BY <1>2, <2>2, <2>l DEF Began, NoneLive
  <2>14. /\ \A k \in Logins : Began(k)' <=> Began(k)
         /\ \A k \in Logins \ {l} : NoneLive(k)' <=> NoneLive(k)
         /\ ~NoneLive(l)'
    <3>1. \A k \in Tokens : records'[k].login = records[k].login
      BY <1>0, <2>1, <2>3
    <3>2. \A k \in Tokens : records[k].login # l => records'[k].state = records[k].state
      BY <1>0, <2>1, <2>3, <2>l
    <3>3. records'[Len(records) + 1].login = l /\ records'[Len(records) + 1].state = "live"
      BY <2>3, <2>8
    <3>4. \A k \in Logins : Began(k)' <=> Began(k)
      <4>1. \A k \in Logins : Began(k) => Began(k)'
        BY <2>7, <3>1 DEF Began
      <4>2. \A k \in Logins : Began(k)' => Began(k) \/ k = l
        BY <2>7, <3>1, <3>3 DEF Began
      <4> QED
        BY <2>13, <4>1, <4>2
    <3>5. \A k \in Logins \ {l} : NoneLive(k)' <=> NoneLive(k)
      BY <2>7, <3>1, <3>2, <3>3 DEF NoneLive
    <3>6. ~NoneLive(l)'
      BY <2>7, <3>3 DEF NoneLive
    <3> QED
      BY <3>4, <3>5, <3>6
  <2>15. SessionsEnd'
    <3>1. closed[l] = Open /\ l \in Logins
      BY <2>0, <2>13 DEF SessionsEnd, TokensInv
    <3>2. \A a \in accesses' : a \in accesses \/ a.login = l
      BY <2>2, <2>8
    <3>3. \A a \in accesses : a.login \in Logins
      BY <1>0
    <3>4. \A a \in accesses' : Began(a.login)'
      BY <2>13, <2>14, <3>1, <3>2, <3>3 DEF SessionsEnd, TokensInv
    <3>5. \A k \in Logins : Began(k)' /\ NoneLive(k)' => closed'[k] # Open
      BY <2>2, <2>14 DEF SessionsEnd, TokensInv
    <3>6. \A k \in Logins : closed'[k] # Open =>
              /\ Began(k)' /\ NoneLive(k)'
              /\ \A a \in accesses' : a.login = k => a.expires_at <= closed'[k] + AccessTTL
      BY <2>2, <2>14, <3>1, <3>2 DEF SessionsEnd, TokensInv
    <3> QED
      BY <3>4, <3>5, <3>6 DEF SessionsEnd
  <2> QED
    BY <2>5, <2>9, <2>12, <2>15 DEF TokensInv
<1>3. ASSUME NEW i \in Tokens, RefreshExpired(i) \/ RevokeRefreshToken(i)
      PROVE  TokensInv'
  <2>1. records' = Revoked(i, 0) /\ time' = time /\ accesses' = accesses
    BY <1>3 DEF RefreshExpired, RevokeRefreshToken, RevokeOnly
  <2>2. /\ records' \in Seq(RefreshTokenRecords)
        /\ DOMAIN records' = Tokens
        /\ \A j \in Tokens : /\ records'[j].login = records[j].login
                             /\ records'[j].expires_at = records[j].expires_at
                             /\ records'[j].state = IF j = i THEN "revoked" ELSE records[j].state
    BY <2>1, RevokedRecords
  <2>3. TokensTypeOK'
    <3>1. closed' \in [Logins -> Nat \cup {Open}]
      BY <1>0, <1>3 DEF RefreshExpired, RevokeRefreshToken, RevokeOnly
    <3> QED
      BY <1>0, <2>1, <2>2, <3>1 DEF TokensTypeOK
  <2>4. Tokens' = Tokens
    BY <2>2 DEF Tokens
  <2>5. OneLiveToken'
    BY <2>2, <2>4 DEF OneLiveToken, TokensInv
  <2>6. AccessRunsOut'
    BY <2>1, <2>2, <2>4 DEF AccessRunsOut, TokensInv
  <2>l. PICK l \in Logins : l = records[i].login
    BY <1>00
  <2>7. closed' = IF LiveTokens(l) = {i} THEN [closed EXCEPT ![l] = time] ELSE closed
    BY <1>3, <2>l DEF RefreshExpired, RevokeRefreshToken, RevokeOnly
  <2>8. l \in Logins /\ Began(l)
    BY <2>l DEF Began
  <2>9. \A k \in Logins : Began(k)' <=> Began(k)
    BY <2>2, <2>4 DEF Began
  <2>10. \A k \in Logins \ {l} : NoneLive(k)' <=> NoneLive(k)
    BY <2>2, <2>4, <2>l DEF NoneLive
  <2>11. CASE records[i].state = "live"
    <3>1. LiveTokens(l) = {i} /\ NoneLive(l)'
      BY <2>2, <2>4, <2>11, <2>l DEF LiveTokens, OneLiveToken, TokensInv, NoneLive
    <3>2. closed' = [closed EXCEPT ![l] = time]
      BY <2>7, <3>1
    <3>3. closed'[l] = time /\ time # Open /\ \A k \in Logins \ {l} : closed'[k] = closed[k]
      BY <1>0, <2>8, <3>2 DEF Open
    <3>4. \A a \in accesses : a.login = l => a.expires_at <= time + AccessTTL
      BY DEF TokensInv, AccessRunsOut
    <3>5. \A a \in accesses' : Began(a.login)'
      BY <1>0, <2>1, <2>9 DEF SessionsEnd, TokensInv
    <3>8. \A k \in Logins : Began(k)' /\ NoneLive(k)' => closed'[k] # Open
      BY <2>9, <2>10, <3>3 DEF SessionsEnd, TokensInv
    <3>6. ASSUME NEW k \in Logins, closed'[k] # Open
          PROVE  /\ Began(k)' /\ NoneLive(k)'
                 /\ \A a \in accesses' : a.login = k => a.expires_at <= closed'[k] + AccessTTL
      <4>1. CASE k = l
        BY <2>1, <2>8, <2>9, <3>1, <3>3, <3>4, <4>1
      <4>2. CASE k # l
        BY <2>1, <2>9, <2>10, <3>3, <3>6, <4>2 DEF SessionsEnd, TokensInv
      <4> QED
        BY <4>1, <4>2
    <3>7. \A k \in Logins : closed'[k] # Open =>
              /\ Began(k)' /\ NoneLive(k)'
              /\ \A a \in accesses' : a.login = k => a.expires_at <= closed'[k] + AccessTTL
      BY <3>6
    <3> QED
      BY <2>3, <2>5, <2>6, <3>5, <3>7, <3>8 DEF SessionsEnd, TokensInv
  <2>12. CASE records[i].state # "live"
    <3>1. i \notin LiveTokens(l) /\ \A k \in Logins : NoneLive(k)' <=> NoneLive(k)
      BY <2>2, <2>4, <2>12, <2>l DEF LiveTokens, NoneLive
    <3>2. closed' = closed
      BY <2>7, <3>1
    <3>3. \A a \in accesses : a.login \in Logins
      BY <1>0
    <3>4. \A a \in accesses' : Began(a.login)'
      BY <2>1, <2>9, <3>3 DEF SessionsEnd, TokensInv
    <3>5. \A k \in Logins : Began(k)' /\ NoneLive(k)' => closed'[k] # Open
      BY <2>9, <3>1, <3>2 DEF SessionsEnd, TokensInv
    <3>6. \A k \in Logins : closed'[k] # Open =>
              /\ Began(k)' /\ NoneLive(k)'
              /\ \A a \in accesses' : a.login = k => a.expires_at <= closed'[k] + AccessTTL
      BY <2>1, <2>9, <3>1, <3>2 DEF SessionsEnd, TokensInv
    <3> QED
      BY <2>3, <2>5, <2>6, <3>4, <3>5, <3>6 DEF SessionsEnd, TokensInv
  <2> QED
    BY <2>11, <2>12
<1>4. CASE TimePasses
  <2>1. time' = time + 1 /\ records' = records /\ accesses' = accesses /\ closed' = closed
    BY <1>4 DEF TimePasses
  <2>2. AccessRunsOut'
    BY <1>0, <2>1 DEF AccessRunsOut, TokensInv, Tokens
  <2> QED
    BY <1>0, <2>1, <2>2
    DEF TokensInv, TokensTypeOK, OneLiveToken, Tokens, SessionsEnd, Began, NoneLive
<1>5. CASE UNCHANGED tokenVars
  BY <1>5
  DEF tokenVars, TokensInv, TokensTypeOK, OneLiveToken, AccessRunsOut, Tokens, SessionsEnd, Began, NoneLive
<1> QED
  BY <1>1, <1>2, <1>3, <1>4, <1>5 DEF TokensNext

\* A session has one refresh token at a time, its access runs out with it, and it ends
\* for good with its last one: however often clients send old tokens again
\* (refresh_token_pair, revoke_refresh_token).
THEOREM SessionKeepsOneToken == TokensSpec => []SessionHasOneToken
<1>1. TokensInv => SessionHasOneToken
  <2> SUFFICES ASSUME TokensInv, NEW l \in Logins
               PROVE  /\ TokensTypeOK
                      /\ Cardinality(LiveTokens(l)) <= 1
                      /\ \A i \in LiveTokens(l) : \A a \in accesses :
                             a.login = l => a.expires_at <= records[i].expires_at - RefreshTTL + AccessTTL
                      /\ closed[l] # Open => LiveTokens(l) = {}
                      /\ LiveTokens(l) = {} => \A a \in accesses :
                             a.login = l => closed[l] # Open /\ a.expires_at <= closed[l] + AccessTTL
    BY DEF SessionHasOneToken, TokensInv
  <2>1. \A x, y \in LiveTokens(l) : x = y
    BY DEF TokensInv, OneLiveToken, LiveTokens
  <2>2. Cardinality(LiveTokens(l)) <= 1
    BY <2>1, AtMostOne
  <2>3. LiveTokens(l) = {} <=> NoneLive(l)
    BY DEF LiveTokens, NoneLive
  <2>4. \A i \in LiveTokens(l) : \A a \in accesses :
            a.login = l => a.expires_at <= records[i].expires_at - RefreshTTL + AccessTTL
    BY DEF TokensInv, AccessRunsOut, LiveTokens
  <2>5. \A a \in accesses : a.login = l /\ NoneLive(l) => closed[l] # Open
    BY DEF TokensInv, SessionsEnd
  <2> QED
    BY <2>2, <2>3, <2>4, <2>5 DEF TokensInv, SessionsEnd
<1> QED
  BY <1>1, TokensInitially, TokensStep, PTL DEF TokensSpec

----------------------------------------------------------------------------
\* Signed requests.

\* A call that was let in is still in the cache, or its time stamp has left the window;
\* what is verified was signed, and its verifier read the clock inside the window; and
\* a repetition is past the cache only when the window has closed.
LetInIsRemembered == \A c \in Calls : LetIn(c) => c \in seen \/ second - stamp[c] > ReplayWindow

WhatCameWasSigned == \A x \in Calls \X Copies : copies[x].at # "sent" => stamp[x[1]] # Unsigned

ClocksWereRead ==
    \A x \in Calls \X Copies :
        /\ copies[x].at = "timed" =>
              copies[x].now <= second /\ copies[x].now - stamp[x[1]] <= ReplayWindow
        /\ copies[x].at \in {"timed", "unknown"} /\ copies[x].repeated => LetIn(x[1])

RepetitionsAreLate ==
    \A x \in Calls \X Copies :
        copies[x].at = "unknown" /\ copies[x].repeated => second - stamp[x[1]] > ReplayWindow

SignedInv ==
    SignedTypeOK /\ LetInIsRemembered /\ WhatCameWasSigned /\ ClocksWereRead /\ RepetitionsAreLate

\* Every name the configuration knows names a method, or none.
LEMMA MethodsAreKnown == \A name \in DOMAIN NamedMethod : NamedMethod[name] \in AuthMethods \cup {Unset}
  BY DEF NamedMethod, AuthMethods, ClusterNames, KeyNames, SecretNames

LEMMA SignedInitially == SignedInit => SignedInv
<1> SUFFICES ASSUME SignedInit
             PROVE  SignedInv
  OBVIOUS
<1>1. \A env \in HostEnvs : ConfigFromEnv(env).method \in AuthMethods \cup {Unset}
  BY SigningAssumption, MethodsAreKnown DEF ConfigFromEnv
<1>2. \A config \in {signer, verifier} : config.method \in AuthMethods \cup {Unset}
  BY <1>1 DEF SignedInit
<1>3. /\ copies = [x \in Calls \X Copies |-> At("sent")]
      /\ At("sent") \in [at : CopyStages, now : Nat, repeated : BOOLEAN]
      /\ At("sent").at = "sent"
  BY DEF SignedInit, At, Copy, CopyStages
<1>4. /\ second \in Nat
      /\ stamp \in [Calls -> Nat \cup {Unsigned}]
      /\ copies \in [Calls \X Copies -> [at : CopyStages, now : Nat, repeated : BOOLEAN]]
      /\ seen \subseteq Calls
  BY <1>3 DEF SignedInit
<1>5. \A x \in Calls \X Copies : copies[x].at = "sent"
  BY <1>3
<1>6. \A c \in Calls, k \in Copies : copies[<<c, k>>].at # "in"
  BY <1>5
<1>7. \A c \in Calls : ~LetIn(c)
  BY <1>6 DEF LetIn
<1> QED
  BY <1>2, <1>4, <1>5, <1>7
  DEF SignedInv, SignedTypeOK, LetInIsRemembered, WhatCameWasSigned, ClocksWereRead, RepetitionsAreLate

LEMMA SignedTypes ==
    ASSUME SignedInv
    PROVE  /\ second \in Nat /\ ReplayWindow \in Nat
           /\ stamp \in [Calls -> Int]
           /\ copies \in [Calls \X Copies -> [at : CopyStages, now : Nat, repeated : BOOLEAN]]
           /\ seen \subseteq Calls
<1>1. Nat \cup {Unsigned} \subseteq Int
  BY DEF Unsigned
<1> QED
  BY <1>1, SigningAssumption DEF SignedInv, SignedTypeOK

\* A copy moves on, to anything but the door: what was let in is as before, and the other
\* copies stand as they did.
LEMMA CopyMoves ==
    ASSUME SignedInv, NEW x \in Calls \X Copies,
           NEW copy \in [at : CopyStages, now : Nat, repeated : BOOLEAN],
           copies[x].at # "in", copy.at # "in", Becomes(x, copy)
    PROVE  /\ UNCHANGED <<signer, verifier, second, stamp>>
           /\ copies' \in [Calls \X Copies -> [at : CopyStages, now : Nat, repeated : BOOLEAN]]
           /\ copies'[x] = copy
           /\ \A y \in Calls \X Copies : y # x => copies'[y] = copies[y]
           /\ \A c \in Calls : LetIn(c)' <=> LetIn(c)
<1>1. /\ copies' = [copies EXCEPT ![x] = copy]
      /\ UNCHANGED <<signer, verifier, second, stamp>>
  BY DEF Becomes
<1>2. /\ copies' \in [Calls \X Copies -> [at : CopyStages, now : Nat, repeated : BOOLEAN]]
      /\ copies'[x] = copy
      /\ \A y \in Calls \X Copies : y # x => copies'[y] = copies[y]
  BY <1>1, SignedTypes
<1>3. \A y \in Calls \X Copies : copies'[y].at = "in" <=> copies[y].at = "in"
  BY <1>2
<1>4. \A c \in Calls : LetIn(c)' <=> LetIn(c)
  BY <1>3 DEF LetIn
<1> QED
  BY <1>1, <1>2, <1>4

\* What a verifier drops by the clock it read has left the window by now.
LEMMA DroppedIsLate ==
    ASSUME SignedInv, NEW x \in Calls \X Copies, copies[x].at = "timed",
           DropExpiredNonces(copies[x].now) \subseteq seen', seen' \subseteq seen
    PROVE  /\ seen' \subseteq Calls
           /\ \A c \in Calls : LetIn(c) => c \in seen' \/ second - stamp[c] > ReplayWindow
<1>1. copies[x].now \in Nat /\ copies[x].now <= second
  BY SignedTypes DEF SignedInv, ClocksWereRead
<1> QED
  BY <1>1, SignedTypes DEF SignedInv, LetInIsRemembered, DropExpiredNonces

LEMMA ReadClockStep ==
    ASSUME SignedInv, NEW x \in Calls \X Copies, ReadClock(x), copies[x].at # "in",
           stamp[x[1]] # Unsigned
    PROVE  SignedInv'
<1> DEFINE copy == Copy("timed", second, LetIn(x[1]))
<1>1. /\ copy \in [at : CopyStages, now : Nat, repeated : BOOLEAN]
      /\ copy = [at |-> "timed", now |-> second, repeated |-> LetIn(x[1])]
  BY SignedTypes DEF Copy, CopyStages, LetIn
<1>2. Becomes(x, copy) /\ seen' = seen /\ second - stamp[x[1]] <= ReplayWindow
  BY SignedTypes DEF ReadClock, InWindow, Distance
<1>3. copy.at # "in" /\ x[1] \in Calls
  BY <1>1
<1> HIDE DEF copy
<1>4. /\ UNCHANGED <<signer, verifier, second, stamp>>
      /\ copies' \in [Calls \X Copies -> [at : CopyStages, now : Nat, repeated : BOOLEAN]]
      /\ copies'[x] = copy
      /\ \A y \in Calls \X Copies : y # x => copies'[y] = copies[y]
      /\ \A c \in Calls : LetIn(c)' <=> LetIn(c)
  BY <1>1, <1>2, <1>3, CopyMoves
<1>5. SignedTypeOK'
  BY <1>2, <1>4 DEF SignedInv, SignedTypeOK
<1>6. LetInIsRemembered'
  BY <1>2, <1>4 DEF SignedInv, LetInIsRemembered
<1>7. WhatCameWasSigned'
  BY <1>4 DEF SignedInv, WhatCameWasSigned
<1>8. ClocksWereRead'
  BY <1>1, <1>2, <1>3, <1>4, SignedTypes DEF SignedInv, ClocksWereRead
<1>9. RepetitionsAreLate'
  BY <1>1, <1>4 DEF SignedInv, RepetitionsAreLate
<1> QED
  BY <1>5, <1>6, <1>7, <1>8, <1>9 DEF SignedInv

\* A verification ends with the copy refused.
LEMMA RefusalStep ==
    ASSUME SignedInv, NEW x \in Calls \X Copies, copies[x].at \in {"review", "timed"},
           Becomes(x, At("refused")),
           seen' \subseteq Calls,
           \A c \in Calls : LetIn(c) => c \in seen' \/ second - stamp[c] > ReplayWindow
    PROVE  SignedInv'
<1>1. /\ At("refused") \in [at : CopyStages, now : Nat, repeated : BOOLEAN]
      /\ At("refused").at = "refused"
  BY DEF At, Copy, CopyStages
<1>2. /\ UNCHANGED <<signer, verifier, second, stamp>>
      /\ copies' \in [Calls \X Copies -> [at : CopyStages, now : Nat, repeated : BOOLEAN]]
      /\ copies'[x] = At("refused")
      /\ \A y \in Calls \X Copies : y # x => copies'[y] = copies[y]
      /\ \A c \in Calls : LetIn(c)' <=> LetIn(c)
  BY <1>1, CopyMoves
<1>3. SignedTypeOK'
  BY <1>2 DEF SignedInv, SignedTypeOK
<1>4. LetInIsRemembered'
  BY <1>2 DEF LetInIsRemembered
<1>5. WhatCameWasSigned'
  BY <1>2 DEF SignedInv, WhatCameWasSigned
<1>6. ClocksWereRead'
  BY <1>1, <1>2 DEF SignedInv, ClocksWereRead
<1>7. RepetitionsAreLate'
  BY <1>1, <1>2 DEF SignedInv, RepetitionsAreLate
<1> QED
  BY <1>3, <1>4, <1>5, <1>6, <1>7 DEF SignedInv

\* The look-up: a repetition that is not found has a call whose window closed.
LEMMA LookUpNonceStep ==
    ASSUME SignedInv, NEW x \in Calls \X Copies, LookUpNonce(x)
    PROVE  SignedInv'
<1>1. /\ copies[x].at = "timed" /\ seen' = DropExpiredNonces(copies[x].now)
      /\ Becomes(x, IF x[1] \in seen' THEN At("refused") ELSE Copy("unknown", 0, copies[x].repeated))
  BY DEF LookUpNonce
<1>2. seen' \subseteq seen
  BY <1>1 DEF DropExpiredNonces
<1>3. /\ seen' \subseteq Calls
      /\ \A c \in Calls : LetIn(c) => c \in seen' \/ second - stamp[c] > ReplayWindow
  BY <1>1, <1>2, DroppedIsLate
<1>4. CASE x[1] \in seen'
  <2>1. Becomes(x, At("refused"))
    BY <1>1, <1>4
  <2> QED
    BY <1>1, <1>3, <2>1, RefusalStep
<1>5. CASE x[1] \notin seen'
  <2> DEFINE copy == Copy("unknown", 0, copies[x].repeated)
  <2>1. copies[x] \in [at : CopyStages, now : Nat, repeated : BOOLEAN] /\ x[1] \in Calls
    BY SignedTypes
  <2>2. /\ copy \in [at : CopyStages, now : Nat, repeated : BOOLEAN]
        /\ copy.at = "unknown" /\ copy.repeated = copies[x].repeated
    BY <2>1 DEF Copy, CopyStages
  <2>3. Becomes(x, copy)
    BY <1>1, <1>5
  <2> HIDE DEF copy
  <2>4. /\ UNCHANGED <<signer, verifier, second, stamp>>
        /\ copies' \in [Calls \X Copies -> [at : CopyStages, now : Nat, repeated : BOOLEAN]]
        /\ copies'[x] = copy
        /\ \A y \in Calls \X Copies : y # x => copies'[y] = copies[y]
        /\ \A c \in Calls : LetIn(c)' <=> LetIn(c)
    BY <1>1, <2>2, <2>3, CopyMoves
  <2>5. copies[x].repeated => second - stamp[x[1]] > ReplayWindow
    BY <1>1, <1>3, <1>5, <2>1 DEF SignedInv, ClocksWereRead
  <2>6. SignedTypeOK'
    BY <1>3, <2>4 DEF SignedInv, SignedTypeOK
  <2>7. LetInIsRemembered'
    BY <1>3, <2>4 DEF LetInIsRemembered
  <2>8. WhatCameWasSigned'
    BY <1>1, <2>4 DEF SignedInv, WhatCameWasSigned
  <2>9. ClocksWereRead'
    BY <1>1, <2>1, <2>2, <2>4 DEF SignedInv, ClocksWereRead
  <2>10. RepetitionsAreLate'
    BY <2>2, <2>4, <2>5 DEF SignedInv, RepetitionsAreLate
  <2> QED
    BY <2>6, <2>7, <2>8, <2>9, <2>10 DEF SignedInv
<1> QED
  BY <1>4, <1>5

LEMMA StoreNonceStep ==
    ASSUME SignedInv, NEW x \in Calls \X Copies, StoreNonce(x)
    PROVE  SignedInv'
<1>1. /\ copies[x].at = "unknown" /\ seen' = seen \cup {x[1]} /\ x[1] \in Calls
      /\ copies' = [copies EXCEPT ![x] = At("in")]
      /\ UNCHANGED <<signer, verifier, second, stamp>>
  BY DEF StoreNonce, Becomes
<1>2. /\ At("in") \in [at : CopyStages, now : Nat, repeated : BOOLEAN]
      /\ At("in").at = "in"
  BY DEF At, Copy, CopyStages
<1>3. /\ copies' \in [Calls \X Copies -> [at : CopyStages, now : Nat, repeated : BOOLEAN]]
      /\ copies'[x] = At("in")
      /\ \A y \in Calls \X Copies : y # x => copies'[y] = copies[y]
  BY <1>1, <1>2, SignedTypes
<1>4. \A c \in Calls : LetIn(c) => LetIn(c)'
  BY <1>1, <1>3 DEF LetIn
<1>5. \A c \in Calls : c # x[1] => (LetIn(c)' => LetIn(c))
  <2> SUFFICES ASSUME NEW c \in Calls, c # x[1], LetIn(c)'
               PROVE  LetIn(c)
    OBVIOUS
  <2>1. PICK k \in Copies : copies'[<<c, k>>].at = "in"
    BY DEF LetIn
  <2>2. <<c, k>> \in Calls \X Copies /\ <<c, k>> # x
    OBVIOUS
  <2> QED
    BY <1>3, <2>1, <2>2 DEF LetIn
<1>6. SignedTypeOK'
  BY <1>1, <1>3 DEF SignedInv, SignedTypeOK
<1>7. LetInIsRemembered'
  BY <1>1, <1>5 DEF SignedInv, LetInIsRemembered
<1>8. WhatCameWasSigned'
  BY <1>1, <1>3 DEF SignedInv, WhatCameWasSigned
<1>9. ClocksWereRead'
  BY <1>1, <1>2, <1>3, <1>4 DEF SignedInv, ClocksWereRead
<1>10. RepetitionsAreLate'
  BY <1>1, <1>2, <1>3 DEF SignedInv, RepetitionsAreLate
<1> QED
  BY <1>6, <1>7, <1>8, <1>9, <1>10 DEF SignedInv

LEMMA SignedStep == SignedInv /\ [SignedNext]_signedVars => SignedInv'
<1> SUFFICES ASSUME SignedInv, [SignedNext]_signedVars
             PROVE  SignedInv'
  OBVIOUS
<1>1. ASSUME NEW c \in Calls, NEW skew \in -MaxSkew .. MaxSkew, SignRequest(c, skew)
      PROVE  SignedInv'
  <2>1. /\ stamp' = [stamp EXCEPT ![c] = second + skew]
        /\ stamp[c] = Unsigned /\ second + skew \in Nat
        /\ UNCHANGED <<signer, verifier, second, copies, seen>>
    BY <1>1, SignedTypes DEF SignRequest
  <2>2. \A k \in Copies : copies[<<c, k>>].at = "sent"
    BY <2>1 DEF SignedInv, WhatCameWasSigned
  <2>3. \A x \in Calls \X Copies : x[1] = c => copies[x].at = "sent"
    BY <2>2
  <2>4. /\ \A d \in Calls : d # c => stamp'[d] = stamp[d]
        /\ \A d \in Calls : LetIn(d)' <=> LetIn(d)
        /\ ~LetIn(c)
    BY <2>1, <2>2, SignedTypes DEF LetIn
  <2>5. SignedTypeOK'
    BY <2>1 DEF SignedInv, SignedTypeOK
  <2>6. LetInIsRemembered'
    BY <2>1, <2>4 DEF SignedInv, LetInIsRemembered
  <2>7. WhatCameWasSigned'
    BY <2>1, <2>3, <2>4 DEF SignedInv, WhatCameWasSigned
  <2>8. ClocksWereRead'
    BY <2>1, <2>3, <2>4 DEF SignedInv, ClocksWereRead
  <2>9. RepetitionsAreLate'
    BY <2>1, <2>3, <2>4 DEF SignedInv, RepetitionsAreLate
  <2> QED
    BY <2>5, <2>6, <2>7, <2>8, <2>9 DEF SignedInv
<1>2. ASSUME NEW x \in Calls \X Copies, VerifySigned(x) \/ VerifyToken(x) \/ VerifyDecoded(x) \/ Authenticated(x)
      PROVE  SignedInv'
  <2>1. ReadClock(x) /\ copies[x].at # "in"
    BY <1>2 DEF VerifySigned, VerifyToken, VerifyDecoded, Authenticated, Presented
  <2>2. stamp[x[1]] # Unsigned
    BY <1>2 DEF VerifySigned, VerifyToken, VerifyDecoded, Authenticated, Presented, SignedInv, WhatCameWasSigned
  <2> QED
    BY <2>1, <2>2, ReadClockStep
<1>3. ASSUME NEW x \in Calls \X Copies, RequestReview(x)
      PROVE  SignedInv'
  <2>1. /\ Becomes(x, At("review")) /\ seen' = seen
        /\ copies[x].at = "sent" /\ stamp[x[1]] # Unsigned
    BY <1>3 DEF RequestReview, Presented
  <2>2. /\ At("review") \in [at : CopyStages, now : Nat, repeated : BOOLEAN]
        /\ At("review").at = "review"
    BY DEF At, Copy, CopyStages
  <2>3. /\ UNCHANGED <<signer, verifier, second, stamp>>
        /\ copies' \in [Calls \X Copies -> [at : CopyStages, now : Nat, repeated : BOOLEAN]]
        /\ copies'[x] = At("review")
        /\ \A y \in Calls \X Copies : y # x => copies'[y] = copies[y]
        /\ \A c \in Calls : LetIn(c)' <=> LetIn(c)
    BY <2>1, <2>2, CopyMoves
  <2>4. SignedTypeOK'
    BY <2>1, <2>3 DEF SignedInv, SignedTypeOK
  <2>5. LetInIsRemembered'
    BY <2>1, <2>3 DEF SignedInv, LetInIsRemembered
  <2>6. WhatCameWasSigned'
    BY <2>1, <2>3 DEF SignedInv, WhatCameWasSigned
  <2>7. ClocksWereRead' /\ RepetitionsAreLate'
    BY <2>2, <2>3 DEF SignedInv, ClocksWereRead, RepetitionsAreLate
  <2> QED
    BY <2>4, <2>5, <2>6, <2>7 DEF SignedInv
<1>4. ASSUME NEW x \in Calls \X Copies, ReviewFails(x)
      PROVE  SignedInv'
  <2>1. copies[x].at = "review" /\ Becomes(x, At("refused")) /\ seen' = seen
    BY <1>4 DEF ReviewFails
  <2> QED
    BY <2>1, RefusalStep, SignedTypes DEF SignedInv, LetInIsRemembered
<1>5. ASSUME NEW x \in Calls \X Copies, DropRaises(x)
      PROVE  SignedInv'
  <2>1. /\ copies[x].at = "timed" /\ Becomes(x, At("refused"))
        /\ DropExpiredNonces(copies[x].now) \subseteq seen' /\ seen' \subseteq seen
    BY <1>5 DEF DropRaises, DropExpiredNonces
  <2> QED
    BY <2>1, DroppedIsLate, RefusalStep
<1>6. CASE NextSecond
  <2>1. second' = second + 1 /\ UNCHANGED <<signer, verifier, stamp, copies, seen>>
    BY <1>6 DEF NextSecond
  <2>2. \A c \in Calls : LetIn(c)' <=> LetIn(c)
    BY <2>1 DEF LetIn
  <2>3. LetInIsRemembered' /\ RepetitionsAreLate'
    BY <2>1, <2>2, SignedTypes DEF SignedInv, LetInIsRemembered, RepetitionsAreLate
  <2>4. ClocksWereRead'
    BY <2>1, <2>2, SignedTypes DEF SignedInv, ClocksWereRead
  <2> QED
    BY <2>1, <2>3, <2>4 DEF SignedInv, SignedTypeOK, WhatCameWasSigned
<1>7. CASE UNCHANGED signedVars
  BY <1>7 DEF signedVars, SignedInv, SignedTypeOK, LetInIsRemembered, WhatCameWasSigned,
              ClocksWereRead, RepetitionsAreLate, LetIn
<1> QED
  BY <1>1, <1>2, <1>3, <1>4, <1>5, <1>6, <1>7, LookUpNonceStep, StoreNonceStep DEF SignedNext

\* A copy whose verifier read the clock after the call was let in is refused while the
\* window admits the call, whatever the clocks, the time a review takes and the order in
\* which the threads look up, drop and store nonces (remember, _remember_verified_nonce).
THEOREM ReplaysRefused == SignedSpec => []ReplaysAreRefused
<1>1. SignedInv => ReplaysAreRefused
  BY DEF SignedInv, ReplaysAreRefused, RepetitionsAreLate
<1> QED
  BY <1>1, SignedInitially, SignedStep, PTL DEF SignedSpec

----------------------------------------------------------------------------
\* The catalogue of tenants.

\* A slug of a profile leads to its tenant.
SlugsLead == \A t \in Tenants : profiles[t] # NoProfile => tenantOfSlug[profiles[t].slug] = t

\* A tenant made from an application has a profile, so it is not made again, and has the
\* plan of its application.
MadeOnce ==
    \A a \in Applications :
        applications[a] # NoApplication /\ applications[a].tenant # Nobody =>
            /\ profiles[applications[a].tenant] # NoProfile
            /\ configured[applications[a].tenant] = applications[a].plan

MarketInv == MarketTypeOK /\ SlugsLead /\ MadeOnce

LEMMA MarketRecords ==
    /\ NoProfile \notin Profiles
    /\ NoApplication \notin Submissions
    /\ \A t \in Tenants : t # Nobody
<1>1. \A p \in Profiles : p.status # "none"
  BY MarketAssumption DEF Profiles
<1>2. \A p \in Submissions : p.status # "none"
  BY DEF Submissions, ApplicationStatuses
<1> QED
  BY <1>1, <1>2, MarketAssumption DEF NoProfile, NoApplication

\* The record of an application that is decided on.
LEMMA Decided ==
    ASSUME MarketInv, NEW a \in Applications, applications[a] # NoApplication,
           NEW status \in ApplicationStatuses
    PROVE  /\ applications[a] \in Submissions
           /\ Decide(a, status) \in Submissions
           /\ Decide(a, status).tenant = applications[a].tenant
           /\ Decide(a, status).plan = applications[a].plan
           /\ Decide(a, status).slug = applications[a].slug
           /\ \A t \in Tenants : /\ [Decide(a, status) EXCEPT !.tenant = t] \in Submissions
                                 /\ [Decide(a, status) EXCEPT !.tenant = t].tenant = t
                                 /\ [Decide(a, status) EXCEPT !.tenant = t].plan = applications[a].plan
<1>1. applications[a] \in Submissions
  BY DEF MarketInv, MarketTypeOK
<1>2. applications[a].history \in Seq(ApplicationStatuses)
  BY <1>1 DEF Submissions
<1>3. Append(applications[a].history, status) \in Seq(ApplicationStatuses)
  BY <1>2
<1> DEFINE longer == Append(applications[a].history, status)
<1>4. Decide(a, status) = [applications[a] EXCEPT !.status = status, !.history = longer]
  BY DEF Decide
<1> HIDE DEF longer
<1>5. /\ Decide(a, status) \in Submissions
      /\ Decide(a, status).tenant = applications[a].tenant
      /\ Decide(a, status).plan = applications[a].plan
      /\ Decide(a, status).slug = applications[a].slug
  BY <1>1, <1>3, <1>4 DEF Submissions, longer
<1> HIDE DEF MarketInv
<1>6. ASSUME NEW t \in Tenants
      PROVE  /\ [Decide(a, status) EXCEPT !.tenant = t] \in Submissions
             /\ [Decide(a, status) EXCEPT !.tenant = t].tenant = t
             /\ [Decide(a, status) EXCEPT !.tenant = t].plan = applications[a].plan
  BY <1>5 DEF Submissions
<1> QED
  BY <1>1, <1>5, <1>6

LEMMA MarketInitially == MarketInit => MarketInv
  BY DEF MarketInit, MarketInv, MarketTypeOK, SlugsLead, MadeOnce

\* A profile is written for a tenant whose slug nobody else bears: the other slugs go on
\* leading to their tenants.
LEMMA ProfileStep ==
    ASSUME MarketInv, NEW t \in Tenants, NEW s \in Slugs, SlugFreeForProfile(s, t),
           NEW status \in ProfileStatuses \cup {"published"},
           profiles' = [profiles EXCEPT ![t] = [slug |-> s, status |-> status]],
           tenantOfSlug' = [tenantOfSlug EXCEPT ![s] = t]
    PROVE  /\ profiles' \in [Tenants -> {NoProfile} \cup Profiles]
           /\ tenantOfSlug' \in [Slugs -> Tenants \cup {Nobody}]
           /\ SlugsLead'
           /\ profiles'[t] # NoProfile
           /\ \A u \in Tenants : profiles[u] # NoProfile => profiles'[u] # NoProfile
<1> DEFINE written == [slug |-> s, status |-> status]
<1>1. written \in Profiles /\ written.slug = s
  BY DEF Profiles
<1>2. profiles' = [profiles EXCEPT ![t] = written]
  OBVIOUS
<1> HIDE DEF written
<1>3. profiles \in [Tenants -> {NoProfile} \cup Profiles] /\ tenantOfSlug \in [Slugs -> Tenants \cup {Nobody}]
  BY DEF MarketInv, MarketTypeOK
<1>4. /\ profiles'[t] = written /\ tenantOfSlug'[s] = t
      /\ \A u \in Tenants \ {t} : profiles'[u] = profiles[u]
  BY <1>2, <1>3
<1>5. ASSUME NEW u \in Tenants \ {t}, profiles[u] # NoProfile
      PROVE  tenantOfSlug'[profiles[u].slug] = u
  <2>1. tenantOfSlug[profiles[u].slug] = u /\ profiles[u].slug \in Slugs
    BY <1>3, <1>5 DEF MarketInv, SlugsLead, Profiles
  <2>2. profiles[u].slug # s
    BY <2>1, MarketRecords DEF SlugFreeForProfile
  <2> QED
    BY <1>3, <2>1, <2>2
<1>6. SlugsLead'
  BY <1>1, <1>4, <1>5 DEF SlugsLead
<1> QED
  BY <1>1, <1>2, <1>3, <1>4, <1>6, MarketRecords

LEMMA MarketStep == MarketInv /\ [MarketNext]_marketVars => MarketInv'
<1> SUFFICES ASSUME MarketInv, [MarketNext]_marketVars
             PROVE  MarketInv'
  OBVIOUS
<1>0. /\ profiles \in [Tenants -> {NoProfile} \cup Profiles]
      /\ tenantOfSlug \in [Slugs -> Tenants \cup {Nobody}]
      /\ applications \in [Applications -> {NoApplication} \cup Submissions]
      /\ openedAs \in [Slugs -> Applications \cup {Nobody}]
      /\ configured \in [Tenants -> ResourcePlans \cup {"default"}]
  BY DEF MarketInv, MarketTypeOK
<1>1. ASSUME NEW t \in Tenants, NEW s \in Slugs, NEW status \in ProfileStatuses,
             PublishProfile(t, s, status)
      PROVE  MarketInv'
  <2>1. /\ SlugFreeForProfile(s, t)
        /\ profiles' = [profiles EXCEPT ![t] = [slug |-> s, status |-> status]]
        /\ tenantOfSlug' = [tenantOfSlug EXCEPT ![s] = t]
        /\ UNCHANGED <<applications, openedAs, configured>>
    BY <1>1 DEF PublishProfile
  <2>2. /\ profiles' \in [Tenants -> {NoProfile} \cup Profiles]
        /\ tenantOfSlug' \in [Slugs -> Tenants \cup {Nobody}]
        /\ SlugsLead'
        /\ \A u \in Tenants : profiles[u] # NoProfile => profiles'[u] # NoProfile
    BY <2>1, ProfileStep
  <2>3. MadeOnce'
    BY <1>0, <2>1, <2>2 DEF MarketInv, MadeOnce, Submissions
  <2> QED
    BY <1>0, <2>1, <2>2, <2>3 DEF MarketInv, MarketTypeOK
<1>2. ASSUME NEW a \in Applications, NEW s \in Slugs, NEW plan \in ResourcePlans,
             NEW ready \in BOOLEAN, Submit(a, s, plan, ready)
      PROVE  MarketInv'
  <2> DEFINE new == [slug |-> s, status |-> "submitted", plan |-> plan, ready |-> ready,
                     history |-> <<>>, tenant |-> Nobody]
  <2>1. /\ applications' = [applications EXCEPT ![a] = new]
        /\ openedAs' = [openedAs EXCEPT ![s] = a]
        /\ UNCHANGED <<profiles, tenantOfSlug, configured>>
    BY <1>2 DEF Submit
  <2>2. new \in Submissions /\ new.tenant = Nobody
    BY DEF Submissions, ApplicationStatuses
  <2> HIDE DEF new
  <2>3. MadeOnce'
    BY <1>0, <2>1, <2>2 DEF MarketInv, MadeOnce
  <2> QED
    BY <1>0, <2>1, <2>2, <2>3 DEF MarketInv, MarketTypeOK, SlugsLead
<1>3. ASSUME NEW a \in Applications, NEW t \in Tenants, Approve(a, t)
      PROVE  MarketInv'
  <2> DEFINE made == [Decide(a, "provisioned") EXCEPT !.tenant = t]
  <2>1. /\ applications[a] # NoApplication
        /\ SlugFreeForProfile(applications[a].slug, t)
        /\ profiles[t] = NoProfile
        /\ applications' = [applications EXCEPT ![a] = made]
        /\ profiles' = [profiles EXCEPT ![t] = [slug |-> applications[a].slug, status |-> "published"]]
        /\ tenantOfSlug' = [tenantOfSlug EXCEPT ![applications[a].slug] = t]
        /\ configured' = [configured EXCEPT ![t] = applications[a].plan]
        /\ openedAs' = openedAs
    BY <1>3 DEF Approve, MayDecide
  <2>2. "provisioned" \in ApplicationStatuses
    BY DEF ApplicationStatuses
  <2>3. /\ applications[a] \in Submissions
        /\ made \in Submissions /\ made.tenant = t /\ made.plan = applications[a].plan
    BY <2>1, <2>2, Decided
  <2> HIDE DEF made
  <2>4. applications[a].slug \in Slugs /\ applications[a].plan \in ResourcePlans
    BY <2>3 DEF Submissions
  <2>5. /\ profiles' \in [Tenants -> {NoProfile} \cup Profiles]
        /\ tenantOfSlug' \in [Slugs -> Tenants \cup {Nobody}]
        /\ SlugsLead'
        /\ profiles'[t] # NoProfile
        /\ \A u \in Tenants : profiles[u] # NoProfile => profiles'[u] # NoProfile
    BY <2>1, <2>4, ProfileStep
  <2>6. ASSUME NEW b \in Applications, applications'[b] # NoApplication, applications'[b].tenant # Nobody
        PROVE  /\ profiles'[applications'[b].tenant] # NoProfile
               /\ configured'[applications'[b].tenant] = applications'[b].plan
    <3>1. CASE b = a
      BY <1>0, <2>1, <2>3, <2>5, <3>1
    <3>2. CASE b # a
      <4>1. /\ applications'[b] = applications[b] /\ applications[b] \in Submissions
            /\ profiles[applications[b].tenant] # NoProfile
            /\ configured[applications[b].tenant] = applications[b].plan
        BY <1>0, <2>1, <2>6, <3>2 DEF MarketInv, MadeOnce
      <4>2. applications[b].tenant \in Tenants /\ applications[b].tenant # t
        BY <2>1, <2>6, <4>1 DEF Submissions
      <4> QED
        BY <1>0, <2>1, <2>5, <4>1, <4>2
    <3> QED
      BY <3>1, <3>2
  <2>7. MadeOnce'
    BY <2>6 DEF MadeOnce
  <2> QED
    BY <1>0, <2>1, <2>3, <2>4, <2>5, <2>7 DEF MarketInv, MarketTypeOK
<1>4. ASSUME NEW a \in Applications, RequestChanges(a) \/ Reject(a)
      PROVE  MarketInv'
  <2>1. PICK status \in ApplicationStatuses :
            /\ applications[a] # NoApplication
            /\ applications' = [applications EXCEPT ![a] = Decide(a, status)]
            /\ openedAs' = openedAs \/ openedAs' = [openedAs EXCEPT ![applications[a].slug] = Nobody]
            /\ UNCHANGED <<profiles, tenantOfSlug, configured>>
    BY <1>4 DEF RequestChanges, Reject, MayDecide, ApplicationStatuses
  <2>2. /\ Decide(a, status) \in Submissions
        /\ Decide(a, status).tenant = applications[a].tenant
        /\ Decide(a, status).plan = applications[a].plan
    BY <2>1, Decided
  <2>3. MadeOnce'
    BY <1>0, <2>1, <2>2 DEF MarketInv, MadeOnce
  <2>4. SlugsLead'
    BY <2>1 DEF MarketInv, SlugsLead
  <2> QED
    BY <1>0, <2>1, <2>2, <2>3, <2>4 DEF MarketInv, MarketTypeOK
<1>5. CASE UNCHANGED marketVars
  BY <1>5 DEF marketVars, MarketInv, MarketTypeOK, SlugsLead, MadeOnce
<1> QED
  BY <1>1, <1>2, <1>3, <1>4, <1>5 DEF MarketNext

\* A slug leads to the tenant whose profile bears it, whatever operators publish and
\* moderators decide, in any order and again (publish_profile, _approve_application).
THEOREM SlugsLeadToTheirTenants == MarketSpec => []SlugLeadsToItsTenant
<1>1. MarketInv => SlugLeadsToItsTenant
  BY DEF MarketInv, SlugsLead, MadeOnce, SlugLeadsToItsTenant
<1> QED
  BY <1>1, MarketInitially, MarketStep, PTL DEF MarketSpec

----------------------------------------------------------------------------
\* The cache: a lock, and a counter.

\* An owner whose time is not over holds the lock, until its time is over.
HeldToTheEnd ==
    \A o \in Owners : InTime(o) => lock.owner = o /\ lock.expires_at = working[o] + LockTTL

LockInv == LockTypeOK /\ HeldToTheEnd

LEMMA LockTypes ==
    ASSUME LockInv
    PROVE  /\ seconds \in Nat /\ LockTTL \in Nat \ {0}
           /\ lock.expires_at \in Int
           /\ lock \in {NoLock} \cup [owner : Owners, expires_at : Nat]
           /\ working \in [Owners -> Int]
           /\ \A o \in Owners : working[o] \in Nat \cup {Never}
  BY LockTTLAssumption DEF LockInv, LockTypeOK, NoLock, Never

LEMMA LockInitially == LockInit => LockInv
  BY LockTTLAssumption DEF LockInit, LockInv, LockTypeOK, HeldToTheEnd, InTime

LEMMA LockStep == LockInv /\ [LockNext]_lockVars => LockInv'
<1> SUFFICES ASSUME LockInv, [LockNext]_lockVars
             PROVE  LockInv'
  OBVIOUS
<1>1. ASSUME NEW o \in Owners, AcquireLock(o)
      PROVE  LockInv'
  <2> DEFINE mine == [owner |-> o, expires_at |-> seconds + LockTTL]
  <2>1. /\ LockNow = NoLock /\ seconds' = seconds
        /\ lock' = mine /\ working' = [working EXCEPT ![o] = seconds]
    BY <1>1 DEF AcquireLock
  <2>2. mine \in [owner : Owners, expires_at : Nat] /\ mine.owner = o
        /\ mine.expires_at = seconds + LockTTL
    BY LockTypes
  <2> HIDE DEF mine
  <2>3. lock.expires_at <= seconds
    BY <2>1, LockTypes DEF LockNow, NoLock, Never
  <2>4. \A p \in Owners : ~InTime(p)
    BY <2>3, LockTypes DEF InTime, LockInv, HeldToTheEnd
  <2>5. LockTypeOK'
    BY <2>1, <2>2, LockTypes DEF LockInv, LockTypeOK
  <2>6. \A p \in Owners \ {o} : ~InTime(p)'
    BY <2>1, <2>4, LockTypes DEF InTime
  <2>7. working'[o] = seconds
    BY <2>1, LockTypes
  <2>8. HeldToTheEnd'
    BY <2>1, <2>2, <2>6, <2>7 DEF HeldToTheEnd
  <2> QED
    BY <2>5, <2>8 DEF LockInv
<1>2. ASSUME NEW o \in Owners, ReleaseLock(o) \/ OwnerDies(o)
      PROVE  LockInv'
  <2>1. /\ seconds' = seconds /\ working' = [working EXCEPT ![o] = Never]
        /\ lock' \in {lock, NoLock}
        /\ lock' = lock \/ lock.expires_at <= seconds \/ lock.owner = o
    BY <1>2 DEF ReleaseLock, OwnerDies, LockNow
  <2>2. LockTypeOK'
    BY <2>1, LockTypes DEF LockInv, LockTypeOK
  <2>3. ASSUME NEW p \in Owners, InTime(p)'
        PROVE  p # o /\ InTime(p) /\ working'[p] = working[p] /\ lock' = lock
    <3>1. p # o
      BY <2>1, <2>3, LockTypes DEF InTime
    <3>2. InTime(p) /\ working'[p] = working[p]
      BY <2>1, <2>3, <3>1, LockTypes DEF InTime
    <3>3. lock.owner = p /\ lock.expires_at > seconds
      BY <3>2, LockTypes DEF InTime, LockInv, HeldToTheEnd
    <3> QED
      BY <2>1, <3>1, <3>2, <3>3, LockTypes
  <2>4. HeldToTheEnd'
    BY <2>3 DEF LockInv, HeldToTheEnd
  <2> QED
    BY <2>2, <2>4 DEF LockInv
<1>3. CASE SecondPasses
  <2>1. seconds' = seconds + 1 /\ lock' = lock /\ working' = working
    BY <1>3 DEF SecondPasses
  <2>2. \A o \in Owners : InTime(o)' => InTime(o)
    BY <2>1, LockTypes DEF InTime
  <2> QED
    BY <2>1, <2>2, LockTypes DEF LockInv, LockTypeOK, HeldToTheEnd
<1>4. CASE UNCHANGED lockVars
  BY <1>4 DEF lockVars, LockInv, LockTypeOK, HeldToTheEnd, InTime
<1> QED
  BY <1>1, <1>2, <1>3, <1>4 DEF LockNext

\* An entry that is gone has left no end and no increments behind, and in memory no
\* operation is cut in two.
EntryOrNothing ==
    /\ value = NoEntry => expiresAt = NoExpiry /\ ended = 0
    /\ cacheBackend = "memory" => \A w \in Workers : between[w] = "idle"

CacheTypeOK ==
    /\ cacheTime \in Nat
    /\ cacheBackend \in {"memory", "redis"}
    /\ value \in Nat \cup {NoEntry}
    /\ expiresAt \in Nat \cup {NoExpiry}
    /\ between \in [Workers -> {"idle", "incremented", "scanned", "stopped"}]
    /\ ended \in Nat

CacheInv == CacheTypeOK /\ EntryOrNothing /\ CounterRunsOut

LEMMA CacheInitially == CacheInit => CacheInv
  BY DEF CacheInit, CacheInv, CacheTypeOK, EntryOrNothing, CounterRunsOut

LEMMA CacheStep == CacheInv /\ [CacheNext]_cacheVars => CacheInv'
<1> SUFFICES ASSUME CacheInv, [CacheNext]_cacheVars
             PROVE  CacheInv'
  OBVIOUS
<1> USE EntryTTLAssumption DEF NoEntry, NoExpiry, PositiveTTL
<1>0. /\ cacheTime \in Nat /\ EntryTTL \in Nat \ {0} /\ ended \in Nat
      /\ value \in Nat \cup {NoEntry} /\ expiresAt \in Nat \cup {NoExpiry}
      /\ between \in [Workers -> {"idle", "incremented", "scanned", "stopped"}]
      /\ cacheBackend \in {"memory", "redis"}
  BY DEF CacheInv, CacheTypeOK
<1>1. NextValue \in Nat
  BY <1>0 DEF NextValue
\* The entry is written with an end, or goes.
<1>2. ASSUME \/ value' \in Nat /\ expiresAt' = cacheTime + EntryTTL /\ ended' \in Nat
             \/ Gone,
             cacheTime' = cacheTime, cacheBackend' = cacheBackend,
             between' \in [Workers -> {"idle", "incremented", "scanned", "stopped"}],
             cacheBackend = "memory" => between' = between
      PROVE  CacheInv'
  <2>1. CASE Gone
    BY <1>0, <1>2, <2>1 DEF Gone, CacheInv, CacheTypeOK, EntryOrNothing, CounterRunsOut
  <2>2. CASE value' \in Nat /\ expiresAt' = cacheTime + EntryTTL /\ ended' \in Nat
    BY <1>0, <1>2, <2>2 DEF CacheInv, CacheTypeOK, EntryOrNothing, CounterRunsOut
  <2> QED
    BY <1>2, <2>1, <2>2
<1>3. ASSUME NEW w \in Workers, IncrementMemory(w)
      PROVE  CacheInv'
  BY <1>0, <1>1, <1>2, <1>3 DEF IncrementMemory
<1>4. ASSUME NEW w \in Workers, IncrBy(w)
      PROVE  CacheInv'
  <2>1. /\ cacheBackend = "redis" /\ value' = NextValue
        /\ between' = [between EXCEPT ![w] = "incremented"]
        /\ UNCHANGED <<cacheTime, cacheBackend, expiresAt, ended>>
    BY <1>4 DEF IncrBy, Moves
  <2>2. between'[w] = "incremented" /\ between' \in [Workers -> {"idle", "incremented", "scanned", "stopped"}]
    BY <1>0, <2>1
  <2>3. CounterRunsOut'
    BY <1>0, <1>1, <2>1, <2>2 DEF CacheInv, CounterRunsOut, EntryOrNothing
  <2> QED
    BY <1>0, <1>1, <2>1, <2>2, <2>3 DEF CacheInv, CacheTypeOK, EntryOrNothing
<1>5. ASSUME NEW w \in Workers, Expire(w)
      PROVE  CacheInv'
  <2>1. cacheBackend # "memory"
    BY <1>5 DEF Expire, CacheInv, EntryOrNothing
  <2>2. between' \in [Workers -> {"idle", "incremented", "scanned", "stopped"}]
    BY <1>0, <1>5 DEF Expire, Moves
  <2>3. CASE value = NoEntry
    BY <1>2, <1>5, <2>1, <2>2, <2>3 DEF Expire, Gone
  <2>4. CASE value # NoEntry
    BY <1>0, <1>2, <1>5, <2>1, <2>2, <2>4 DEF Expire
  <2> QED
    BY <2>3, <2>4
<1>6. ASSUME NEW w \in Workers, DeleteEntry(w)
      PROVE  CacheInv'
  BY <1>0, <1>2, <1>6 DEF DeleteEntry
<1>7. ASSUME NEW w \in Workers, NEW v \in 0 .. MaxCount, SetJson(w, v)
      PROVE  CacheInv'
  BY <1>0, <1>2, <1>7 DEF SetJson
<1>8. ASSUME NEW w \in Workers, DeleteScanned(w)
      PROVE  CacheInv'
  <2>1. cacheBackend # "memory"
    BY <1>8 DEF DeleteScanned, CacheInv, EntryOrNothing
  <2> QED
    BY <1>0, <1>2, <1>8, <2>1 DEF DeleteScanned, Moves
\* A worker moves on, and the entry stays.
<1>9. ASSUME NEW w \in Workers, ScanNamespace(w) \/ WorkerStops(w)
      PROVE  CacheInv'
  <2>1. /\ cacheBackend # "memory"
        /\ UNCHANGED <<cacheTime, cacheBackend, value, expiresAt, ended>>
        /\ between' \in [Workers -> {"idle", "incremented", "scanned", "stopped"}]
        /\ between[w] = "incremented" => between'[w] = "stopped"
        /\ between[w] # "stopped"
        /\ \A v \in Workers \ {w} : between'[v] = between[v]
    BY <1>0, <1>9 DEF ScanNamespace, WorkerStops, Idle, Moves, CacheInv, EntryOrNothing
  <2>2. (\E v \in Workers : between[v] \in {"incremented", "stopped"}) =>
            \E v \in Workers : between'[v] \in {"incremented", "stopped"}
    BY <2>1
  <2>3. CounterRunsOut'
    BY <2>1, <2>2 DEF CacheInv, CounterRunsOut
  <2> QED
    BY <1>0, <2>1, <2>3 DEF CacheInv, CacheTypeOK, EntryOrNothing
<1>10. CASE CacheTimePasses
  <2>1. cacheTime' = cacheTime + 1 /\ cacheBackend' = cacheBackend /\ between' = between
    BY <1>10 DEF CacheTimePasses
  <2>2. CASE Gone
    BY <1>0, <2>1, <2>2 DEF Gone, CacheInv, CacheTypeOK, EntryOrNothing, CounterRunsOut
  <2>3. CASE /\ UNCHANGED <<value, expiresAt, ended>>
             /\ expiresAt = NoExpiry \/ expiresAt > cacheTime'
    BY <1>0, <2>1, <2>3 DEF CacheInv, CacheTypeOK, EntryOrNothing, CounterRunsOut
  <2> QED
    BY <1>0, <1>10, <2>1, <2>2, <2>3 DEF CacheTimePasses
<1>11. CASE UNCHANGED cacheVars
  BY <1>11 DEF cacheVars, CacheInv, CacheTypeOK, EntryOrNothing, CounterRunsOut
<1> QED
  BY <1>3, <1>4, <1>5, <1>6, <1>7, <1>8, <1>9, <1>10, <1>11 DEF CacheNext

\* A lock is its owner's for its time to live, and a counter that was incremented to the
\* end has an end, whoever stopped between two commands (acquire_lock, release_lock,
\* increment).
THEOREM CacheIsInTime == LockSpec /\ CacheSpec => []CacheKeepsTime
<1>1. LockInv => LockHeldInTime
  BY DEF LockInv, HeldToTheEnd, LockHeldInTime
<1>2. CacheInv => CounterRunsOut
  BY DEF CacheInv
<1>3. LockSpec => []LockHeldInTime
  BY <1>1, LockInitially, LockStep, PTL DEF LockSpec
<1>4. CacheSpec => []CounterRunsOut
  BY <1>2, CacheInitially, CacheStep, PTL DEF CacheSpec
<1> QED
  BY <1>3, <1>4, PTL DEF CacheKeepsTime

----------------------------------------------------------------------------
\* Sums over sequences, and windows.

\* The function that SumOf unfolds: the sums of the first entries.
SumsTo(f, s, n) ==
    /\ f \in [0 .. n -> Nat]
    /\ f[0] = 0
    /\ \A i \in 1 .. n : f[i] = f[i - 1] + s[i]

SumsExist(s, n) == \E f : SumsTo(f, s, n)

\* The sums agree as long as the entries do.
LEMMA SumsAgree ==
    ASSUME NEW s, NEW t, NEW n \in Nat, NEW m \in 0 .. n, NEW f, NEW g,
           SumsTo(f, t, n), SumsTo(g, s, m), \A i \in 1 .. m : t[i] = s[i]
    PROVE  \A i \in 0 .. m : f[i] = g[i]
<1> DEFINE S == {i \in 0 .. m : f[i] = g[i]}
<1>1. 0 \in S
  BY DEF SumsTo
<1>2. ASSUME NEW i \in 0 .. m, i \in S, i < m
      PROVE  i + 1 \in S
  <2>1. i + 1 \in 1 .. m /\ i + 1 \in 1 .. n /\ i + 1 - 1 = i
    BY <1>2
  <2>2. f[i + 1] = f[i] + t[i + 1] /\ g[i + 1] = g[i] + s[i + 1]
    BY <2>1 DEF SumsTo
  <2> QED
    BY <1>2, <2>1, <2>2
<1> HIDE DEF S
<1>3. 0 .. m \subseteq S
  BY <1>1, <1>2, CountedUp
<1> QED
  BY <1>3 DEF S

LEMMA SumsExistForAll ==
    ASSUME NEW s \in Seq(Nat)
    PROVE  SumsExist(s, Len(s))
<1> DEFINE S == {n \in 0 .. Len(s) : SumsExist(s, n)}
<1>0. Len(s) \in Nat /\ \A i \in 1 .. Len(s) : s[i] \in Nat
  OBVIOUS
<1>1. 0 \in S
  <2> DEFINE f == [i \in 0 .. 0 |-> 0]
  <2>1. SumsTo(f, s, 0)
    BY DEF SumsTo
  <2> QED
    BY <1>0, <2>1 DEF SumsExist
<1>2. ASSUME NEW n \in 0 .. Len(s), n \in S, n < Len(s)
      PROVE  n + 1 \in S
  <2>1. PICK g : SumsTo(g, s, n)
    BY <1>2 DEF SumsExist
  <2> DEFINE f == [i \in 0 .. n + 1 |-> IF i = n + 1 THEN g[n] + s[n + 1] ELSE g[i]]
  <2>2. f \in [0 .. n + 1 -> Nat] /\ f[0] = 0
    BY <1>0, <1>2, <2>1 DEF SumsTo
  <2>3. ASSUME NEW i \in 1 .. n + 1
        PROVE  f[i] = f[i - 1] + s[i]
    <3>1. CASE i = n + 1
      BY <1>2, <3>1
    <3>2. CASE i # n + 1
      <4>1. i \in 1 .. n /\ i \in 0 .. n + 1 /\ i - 1 \in 0 .. n + 1 /\ i - 1 # n + 1
        BY <1>2, <3>2
      <4>2. g[i] = g[i - 1] + s[i]
        BY <2>1, <4>1 DEF SumsTo
      <4> QED
        BY <3>2, <4>1, <4>2
    <3> QED
      BY <3>1, <3>2
  <2> HIDE DEF f
  <2>4. SumsTo(f, s, n + 1)
    BY <2>2, <2>3 DEF SumsTo
  <2> QED
    BY <1>0, <1>2, <2>4 DEF SumsExist
<1> HIDE DEF S
<1>3. 0 .. Len(s) \subseteq S
  BY <1>0, <1>1, <1>2, CountedUp
<1> QED
  BY <1>0, <1>3 DEF S

\* What SumOf returns is the last of those sums.
LEMMA SumIsLast ==
    ASSUME NEW s \in Seq(Nat)
    PROVE  \E f : SumsTo(f, s, Len(s)) /\ SumOf(s) = f[Len(s)]
<1> DEFINE Unfolds(f) == f = [i \in 0 .. Len(s) |-> IF i = 0 THEN 0 ELSE f[i - 1] + s[i]]
           sum == CHOOSE f : Unfolds(f)
<1>0. Len(s) \in Nat /\ \A i \in 1 .. Len(s) : s[i] \in Nat
  OBVIOUS
<1>1. SumOf(s) = sum[Len(s)]
  BY DEF SumOf
<1>2. PICK g : SumsTo(g, s, Len(s))
  BY SumsExistForAll DEF SumsExist
<1>3. g = [i \in 0 .. Len(s) |-> g[i]]
  BY <1>2 DEF SumsTo
<1>4. \A i \in 0 .. Len(s) : g[i] = IF i = 0 THEN 0 ELSE g[i - 1] + s[i]
  BY <1>0, <1>2 DEF SumsTo
<1>5. Unfolds(g)
  BY <1>3, <1>4
<1>6. Unfolds(sum)
  BY <1>5
<1> HIDE DEF sum
<1> DEFINE S == {i \in 0 .. Len(s) : sum[i] = g[i]}
<1>7. 0 \in S
  BY <1>0, <1>2, <1>6 DEF SumsTo
<1>8. ASSUME NEW i \in 0 .. Len(s), i \in S, i < Len(s)
      PROVE  i + 1 \in S
  <2>1. i + 1 \in 1 .. Len(s) /\ i + 1 \in 0 .. Len(s) /\ i + 1 - 1 = i /\ i + 1 # 0
    BY <1>0, <1>8
  <2>2. sum[i + 1] = sum[i + 1 - 1] + s[i + 1]
    BY <1>6, <2>1
  <2>3. g[i + 1] = g[i + 1 - 1] + s[i + 1]
    BY <1>2, <2>1 DEF SumsTo
  <2> QED
    BY <1>8, <2>1, <2>2, <2>3
<1> HIDE DEF S
<1>9. 0 .. Len(s) \subseteq S
  BY <1>0, <1>7, <1>8, CountedUp
<1>10. sum[Len(s)] = g[Len(s)]
  BY <1>0, <1>9 DEF S
<1> QED
  BY <1>1, <1>2, <1>10

LEMMA SumOfAppend ==
    ASSUME NEW s, s \in Seq(Nat), NEW e \in Nat
    PROVE  SumOf(s) \in Nat /\ SumOf(Append(s, e)) = SumOf(s) + e
<1> SUFFICES ASSUME NEW t, t = Append(s, e), NEW n, n = Len(s), NEW k, k = n + 1
             PROVE  SumOf(s) \in Nat /\ SumOf(t) = SumOf(s) + e
  OBVIOUS
<1>1. /\ n \in Nat /\ k \in Nat /\ n \in 0 .. k /\ n \in 0 .. n /\ k \in 1 .. k /\ k - 1 = n
      /\ t \in Seq(Nat) /\ Len(t) = k /\ t[k] = e
      /\ \A i \in 1 .. n : t[i] = s[i]
  OBVIOUS
<1>2. PICK f : SumsTo(f, t, k) /\ SumOf(t) = f[k]
  BY <1>1, SumIsLast
<1>3. PICK g : SumsTo(g, s, n) /\ SumOf(s) = g[n]
  BY SumIsLast
<1>4. \A i \in 0 .. n : f[i] = g[i]
  <2>1. /\ k \in Nat /\ n \in 0 .. k /\ SumsTo(f, t, k) /\ SumsTo(g, s, n)
        /\ \A i \in 1 .. n : t[i] = s[i]
    BY <1>1, <1>2, <1>3
  <2> QED
    BY ONLY <2>1, SumsAgree
<1>5. f[k] = f[n] + e /\ g[n] \in Nat
  BY <1>1, <1>2, <1>3 DEF SumsTo
<1> QED
  BY <1>1, <1>2, <1>3, <1>4, <1>5

LEMMA SumOfTail ==
    ASSUME NEW s \in Seq(Nat), s # <<>>
    PROVE  SumOf(Tail(s)) \in Nat /\ SumOf(s) = Head(s) + SumOf(Tail(s))
<1> DEFINE n == Len(Tail(s))
           t == Tail(s)
<1>0. /\ n \in Nat /\ t \in Seq(Nat) /\ Len(t) = n /\ Len(s) = n + 1 /\ Head(s) = s[1]
      /\ s[1] \in Nat
      /\ \A i \in 1 .. n : t[i] = s[i + 1]
  OBVIOUS
<1> HIDE DEF n, t
<1>1. PICK f : SumsTo(f, s, n + 1) /\ SumOf(s) = f[n + 1]
  BY <1>0, SumIsLast
<1>2. PICK g : SumsTo(g, t, n) /\ SumOf(t) = g[n]
  BY <1>0, SumIsLast
<1> DEFINE S == {i \in 0 .. n : f[i + 1] = s[1] + g[i]}
<1>3. 0 \in S
  <2>1. f[1] = f[1 - 1] + s[1] /\ f[1 - 1] = 0 /\ g[0] = 0
    BY <1>0, <1>1, <1>2 DEF SumsTo
  <2> QED
    BY <1>0, <2>1
<1>4. ASSUME NEW i \in 0 .. n, i \in S, i < n
      PROVE  i + 1 \in S
  <2> DEFINE j == i + 1
             k == j + 1
  <2>1. j \in 1 .. n /\ j \in 0 .. n /\ j \in 0 .. n + 1 /\ k \in 1 .. n + 1 /\ j - 1 = i /\ k - 1 = j
    BY <1>0, <1>4
  <2>2. t[j] = s[k]
    BY <1>0, <2>1
  <2>3. t[j] \in Nat
    BY <1>0, <2>1
  <2>4. f[j] = s[1] + g[i]
    BY <1>4
  <2> HIDE DEF j, k
  <2>5. f[k] = f[j] + s[k] /\ g[j] = g[i] + t[j]
    BY <1>1, <1>2, <2>1 DEF SumsTo
  <2>6. g[i] \in Nat
    BY <1>2, <1>4 DEF SumsTo
  <2>7. f[k] = s[1] + g[j]
    BY <1>0, <2>2, <2>3, <2>4, <2>5, <2>6
  <2> QED
    BY <2>1, <2>7 DEF j, k
<1> HIDE DEF S
<1>5. 0 .. n \subseteq S
  BY <1>0, <1>3, <1>4, CountedUp
<1>6. f[n + 1] = s[1] + g[n]
  BY <1>0, <1>5 DEF S
<1>7. g[n] \in Nat
  BY <1>0, <1>2 DEF SumsTo
<1> QED
  BY <1>0, <1>1, <1>2, <1>6, <1>7 DEF t

\* A window begins at a multiple of its length, and holds the present.
LEMMA WindowOf ==
    ASSUME NEW w \in Nat \ {0}, NEW c \in Nat
    PROVE  \E n \in Nat : c - (c % w) = n * w /\ n * w <= c /\ c < n * w + w
<1> DEFINE q == c \div w
<1>1. c = w * q + (c % w) /\ 0 <= c % w /\ c % w < w
  OBVIOUS
<1>2. q \in Nat
  OBVIOUS
<1>3. c - (c % w) = q * w /\ q * w <= c /\ c < q * w + w
  BY <1>1, <1>2
<1> HIDE DEF q
<1> QED
  BY <1>2, <1>3

\* Two of them are a length apart.
LEMMA WindowsApart ==
    ASSUME NEW w \in Nat \ {0}, NEW m \in Nat, NEW n \in Nat, m * w < n * w
    PROVE  m * w + w <= n * w
<1>1. m < n
  <2> SUFFICES ASSUME n <= m
               PROVE  FALSE
    OBVIOUS
  <2> QED
    OBVIOUS
<1>2. (m + 1) * w <= n * w
  BY <1>1
<1>3. (m + 1) * w = m * w + w
  OBVIOUS
<1> QED
  BY <1>2, <1>3

----------------------------------------------------------------------------
\* The gateway and the resources of a tenant.

Since(t) == {i \in DOMAIN admitted : admitted[i] >= t}

\* The requests admitted in the window of the counters are those it counts, or fewer,
\* and their window is over when another begins.
WindowCounted ==
    IF usage.window_started_at = NoWindow THEN admitted = <<>>
    ELSE /\ \E n \in Nat : usage.window_started_at = n * tenantPlan.window_seconds
         /\ usage.window_started_at <= clock
         /\ \A i \in DOMAIN admitted :
                admitted[i] < usage.window_started_at + tenantPlan.window_seconds
         /\ Cardinality(Since(usage.window_started_at)) <= usage.requests_used

\* What is counted is within the plan, or was counted before the plan changed.
RequestsWithin ==
    \/ usage.requests_used <= tenantPlan.request_limit
    \/ /\ usage.requests_used <= inherited.requests_used
       /\ usage.window_started_at = inherited.window_started_at

AdmittedBefore == \A i \in DOMAIN admitted : admitted[i] <= clock

PlanWindowKept == WindowCounted /\ RequestsWithin /\ AdmittedBefore

LimiterKept == \A s \in Subjects : windows[s].request_count <= RateLimit.limit

GatewayInv ==
    GatewayTypeOK /\ UsageIsAccounted /\ UsageIsWithinPlan /\ LimiterKept /\ PlanWindowKept

LEMMA GatewayTypes ==
    ASSUME GatewayInv
    PROVE  /\ tenantPlan \in Plans /\ usage \in Usages /\ clock \in Nat
           /\ tenantPlan.window_seconds \in Nat \ {0}
           /\ {tenantPlan.request_limit, tenantPlan.concurrent_operations,
               tenantPlan.queue_depth, tenantPlan.storage_bytes} \subseteq Nat
           /\ inherited \in Usages
           /\ windows \in [Subjects -> LimiterWindows]
           /\ phase \in [Requests -> Phases]
           /\ held \in Seq(QueueAmounts) /\ stored \in Seq(QueueAmounts) /\ admitted \in Seq(Nat)
           /\ RateLimit.limit \in Nat \ {0} /\ RateLimit.window_seconds \in Nat \ {0}
           /\ QueueAmounts \subseteq Nat
  BY PlansAssumption, RateLimitAssumption, RequestsAssumption
     DEF GatewayInv, GatewayTypeOK, ResourcesTypeOK

\* Finitely many requests were admitted.
LEMMA SinceIsFinite ==
    ASSUME admitted \in Seq(Nat), NEW t
    PROVE  IsFiniteSet(Since(t)) /\ Cardinality(Since(t)) \in Nat
<1>1. DOMAIN admitted = 1 .. Len(admitted) /\ Len(admitted) \in Nat
  OBVIOUS
<1>2. IsFiniteSet(DOMAIN admitted)
  BY <1>1, FS_Interval
<1>3. Since(t) \subseteq DOMAIN admitted
  BY DEF Since
<1>4. IsFiniteSet(Since(t))
  BY <1>2, <1>3, FS_Subset
<1> QED
  BY <1>4, FS_CardinalityType

\* The counters once the window has been rolled: they are those of the window that holds
\* the present, and what was admitted in it is still counted.
LEMMA RolledCounters ==
    ASSUME GatewayInv
    PROVE  LET u == StateForContext
               start == WindowStartedAt(tenantPlan)
           IN  /\ u \in Usages
               /\ u.window_started_at = start
               /\ u.concurrent_operations = usage.concurrent_operations
               /\ u.queue_items = usage.queue_items
               /\ u.storage_bytes_used = usage.storage_bytes_used
               /\ start \in Nat /\ start <= clock /\ clock < start + tenantPlan.window_seconds
               /\ \E n \in Nat : start = n * tenantPlan.window_seconds
               /\ \A i \in DOMAIN admitted : admitted[i] < start + tenantPlan.window_seconds
               /\ Cardinality(Since(start)) <= u.requests_used
               /\ \/ u.requests_used <= tenantPlan.request_limit
                  \/ /\ u.requests_used <= inherited.requests_used
                     /\ start = inherited.window_started_at
<1> DEFINE start == WindowStartedAt(tenantPlan)
           w == tenantPlan.window_seconds
           old == usage.window_started_at
           u == StateForContext
<1>0. w \in Nat \ {0} /\ clock \in Nat /\ usage \in Usages /\ old \in Nat \cup {NoWindow}
      /\ tenantPlan.request_limit \in Nat /\ admitted \in Seq(Nat)
  BY GatewayTypes DEF Usages
<1>1. PICK n \in Nat : start = n * w /\ n * w <= clock /\ clock < n * w + w
  BY <1>0, WindowOf DEF WindowStartedAt
<1>2. start \in Nat /\ start <= clock /\ clock < start + w
  BY <1>0, <1>1
<1>3. /\ u \in Usages
      /\ u.window_started_at = start
      /\ u.concurrent_operations = usage.concurrent_operations
      /\ u.queue_items = usage.queue_items
      /\ u.storage_bytes_used = usage.storage_bytes_used
      /\ u.requests_used = IF old = start THEN usage.requests_used ELSE 0
  BY <1>0, <1>2 DEF StateForContext, RollWindow, Usages
<1> HIDE DEF start, u
<1>4. CASE old = start
  <2>1. old # NoWindow
    BY <1>2, <1>4 DEF NoWindow
  <2>2. /\ \A i \in DOMAIN admitted : admitted[i] < start + w
        /\ Cardinality(Since(start)) <= usage.requests_used
    BY <1>4, <2>1 DEF GatewayInv, PlanWindowKept, WindowCounted
  <2>3. \/ u.requests_used <= tenantPlan.request_limit
        \/ u.requests_used <= inherited.requests_used /\ start = inherited.window_started_at
    BY <1>3, <1>4 DEF GatewayInv, PlanWindowKept, RequestsWithin
  <2>4. Cardinality(Since(start)) <= u.requests_used
    BY <1>3, <1>4, <2>2
  <2> QED
    BY <1>1, <1>2, <1>3, <2>2, <2>3, <2>4 DEF start, u
<1>5. CASE old # start
  <2>1. \A i \in DOMAIN admitted : admitted[i] \in Nat /\ admitted[i] < start
    <3>1. CASE old = NoWindow
      BY <3>1 DEF GatewayInv, PlanWindowKept, WindowCounted
    <3>2. CASE old # NoWindow
      <4>1. PICK m \in Nat : old = m * w
        BY <3>2 DEF GatewayInv, PlanWindowKept, WindowCounted
      <4>2. old <= clock /\ \A i \in DOMAIN admitted : admitted[i] < old + w
        BY <3>2 DEF GatewayInv, PlanWindowKept, WindowCounted
      <4>3. m * w < n * w
        <5>1. CASE m * w > n * w
          <6>1. n * w + w <= m * w
            BY <1>0, <5>1, WindowsApart
          <6>2. n * w \in Nat /\ m * w \in Nat
            BY <1>0
          <6> QED
            BY <1>0, <1>1, <4>1, <4>2, <6>1, <6>2
        <5>2. n * w \in Nat /\ m * w \in Nat
          BY <1>0
        <5> QED
          BY <1>1, <1>5, <4>1, <5>1, <5>2
      <4>4. m * w + w <= n * w
        BY <1>0, <4>3, WindowsApart
      <4>5. old + w <= start
        BY <1>1, <4>1, <4>4
      <4>6. \A i \in DOMAIN admitted : admitted[i] \in Nat
        BY <1>0
      <4>7. old \in Nat
        BY <1>0, <3>2
      <4> QED
        BY <1>0, <1>2, <4>2, <4>5, <4>6, <4>7
    <3> QED
      BY <3>1, <3>2
  <2>2. Since(start) = {}
    BY <1>2, <2>1 DEF Since
  <2>3. Cardinality(Since(start)) = 0
    BY <2>2, FS_EmptySet
  <2>4. u.requests_used = 0
    BY <1>3, <1>5
  <2>5. \A i \in DOMAIN admitted : admitted[i] < start + w
    BY <1>0, <1>2, <2>1
  <2> QED
    BY <1>0, <1>1, <1>2, <1>3, <2>3, <2>4, <2>5 DEF start, u
<1> QED
  BY <1>4, <1>5

\* The window after a step: counters that were rolled, with nothing admitted since.
LEMMA WindowRolls ==
    ASSUME GatewayInv, tenantPlan' = tenantPlan, clock' = clock, admitted' = admitted,
           inherited' = inherited,
           usage'.window_started_at = StateForContext.window_started_at,
           usage'.requests_used = StateForContext.requests_used
    PROVE  PlanWindowKept'
<1> DEFINE start == WindowStartedAt(tenantPlan)
<1>1. /\ usage'.window_started_at = start /\ start \in Nat /\ start <= clock
      /\ \E n \in Nat : start = n * tenantPlan.window_seconds
      /\ \A i \in DOMAIN admitted : admitted[i] < start + tenantPlan.window_seconds
      /\ Cardinality(Since(start)) <= usage'.requests_used
      /\ \/ usage'.requests_used <= tenantPlan.request_limit
         \/ usage'.requests_used <= inherited.requests_used /\ start = inherited.window_started_at
  BY RolledCounters
<1> HIDE DEF start
<1>2. \A t : Since(t)' = Since(t)
  BY DEF Since
<1>3. WindowCounted'
  BY <1>1, <1>2 DEF WindowCounted, NoWindow, Since
<1>4. RequestsWithin'
  BY <1>1 DEF RequestsWithin
<1>5. AdmittedBefore'
  BY DEF GatewayInv, PlanWindowKept, AdmittedBefore
<1> QED
  BY <1>3, <1>4, <1>5 DEF PlanWindowKept

\* One more request is admitted now, which the plan allows.
LEMMA WindowAdmits ==
    ASSUME GatewayInv, tenantPlan' = tenantPlan, clock' = clock, admitted' = Append(admitted, clock),
           inherited' = inherited, RequestAllowed(StateForContext),
           usage'.window_started_at = StateForContext.window_started_at,
           usage'.requests_used = StateForContext.requests_used + 1
    PROVE  PlanWindowKept'
<1> DEFINE start == WindowStartedAt(tenantPlan)
           n == Len(admitted)
<1>0. /\ admitted \in Seq(Nat) /\ clock \in Nat /\ tenantPlan.request_limit \in Nat
      /\ tenantPlan.window_seconds \in Nat \ {0}
  BY GatewayTypes
<1>1. /\ usage'.window_started_at = start /\ start \in Nat /\ start <= clock
      /\ clock < start + tenantPlan.window_seconds
      /\ \E m \in Nat : start = m * tenantPlan.window_seconds
      /\ \A i \in DOMAIN admitted : admitted[i] < start + tenantPlan.window_seconds
      /\ Cardinality(Since(start)) <= StateForContext.requests_used
      /\ StateForContext.requests_used \in Nat
  BY RolledCounters DEF Usages
<1> HIDE DEF start
<1>2. /\ admitted' \in Seq(Nat) /\ n \in Nat /\ DOMAIN admitted = 1 .. n
      /\ DOMAIN admitted' = 1 .. n + 1 /\ admitted'[n + 1] = clock
      /\ \A i \in 1 .. n : admitted'[i] = admitted[i]
  BY <1>0
<1> HIDE DEF n
<1>3. \A i \in DOMAIN admitted' : admitted'[i] < start + tenantPlan.window_seconds
  BY <1>1, <1>2
<1>4. {i \in DOMAIN admitted' : admitted'[i] >= start} = Since(start) \cup {n + 1}
  BY <1>1, <1>2 DEF Since
<1>5. n + 1 \notin Since(start)
  BY <1>2 DEF Since
<1>6. /\ IsFiniteSet(Since(start)) /\ Cardinality(Since(start)) \in Nat
  BY <1>0, SinceIsFinite
<1>7. Cardinality({i \in DOMAIN admitted' : admitted'[i] >= start}) = Cardinality(Since(start)) + 1
  BY <1>4, <1>5, <1>6, FS_AddElement
<1>8. StateForContext.requests_used < tenantPlan.request_limit
  BY DEF RequestAllowed
<1> DEFINE before == Cardinality(Since(start))
           used == StateForContext.requests_used
<1>9. /\ Cardinality({i \in DOMAIN admitted' : admitted'[i] >= start}) <= usage'.requests_used
      /\ usage'.requests_used <= tenantPlan.request_limit
  <2>1. before \in Nat /\ used \in Nat /\ before <= used /\ used < tenantPlan.request_limit
        /\ usage'.requests_used = used + 1
    BY <1>1, <1>6, <1>8
  <2> HIDE DEF before, used
  <2>2. before + 1 <= usage'.requests_used /\ usage'.requests_used <= tenantPlan.request_limit
    BY <1>0, <2>1
  <2> QED
    BY <1>7, <2>2 DEF before
<1>10. usage'.window_started_at # NoWindow
  BY <1>1 DEF NoWindow
<1>11. WindowCounted'
  BY <1>1, <1>3, <1>9, <1>10 DEF WindowCounted, Since
<1>12. RequestsWithin'
  BY <1>9 DEF RequestsWithin
<1>13. AdmittedBefore'
  BY <1>0, <1>2 DEF GatewayInv, PlanWindowKept, AdmittedBefore
<1> QED
  BY <1>11, <1>12, <1>13 DEF PlanWindowKept

\* A step that keeps the plan takes nothing more than the plan leaves.
LEMMA RoomIsKept ==
    ASSUME GatewayInv, tenantPlan' = tenantPlan, inherited' = inherited, usage' \in Usages,
           \/ usage'.concurrent_operations <= usage.concurrent_operations
           \/ usage'.concurrent_operations <= tenantPlan.concurrent_operations,
           usage'.queue_items <= usage.queue_items \/ usage'.queue_items <= tenantPlan.queue_depth,
           \/ usage'.storage_bytes_used <= usage.storage_bytes_used
           \/ usage'.storage_bytes_used <= tenantPlan.storage_bytes
    PROVE  UsageIsWithinPlan'
<1>1. usage \in Usages /\ inherited \in Usages
  BY GatewayTypes
<1>2. UsageIsWithinPlan
  BY DEF GatewayInv
<1>3. /\ {usage.concurrent_operations, usage'.concurrent_operations,
          inherited.concurrent_operations, tenantPlan.concurrent_operations} \subseteq Nat
      /\ {usage.queue_items, usage'.queue_items,
          inherited.queue_items, tenantPlan.queue_depth} \subseteq Nat
      /\ {usage.storage_bytes_used, usage'.storage_bytes_used,
          inherited.storage_bytes_used, tenantPlan.storage_bytes} \subseteq Nat
  BY <1>1, GatewayTypes DEF Usages
<1> QED
  BY <1>1, <1>2, <1>3 DEF UsageIsWithinPlan, Within

\* How many requests are in each phase when one request moves.
LEMMA PhaseMoved ==
    ASSUME phase \in [Requests -> Phases], NEW r \in Requests, NEW q \in Phases \ {phase[r]},
           phase' = [phase EXCEPT ![r] = q], NEW p \in Phases
    PROVE  /\ phase' \in [Requests -> Phases]
           /\ Cardinality(In(p)) \in Nat /\ Cardinality(In(p)') \in Nat
           /\ Cardinality(In(p)') = IF p = q THEN Cardinality(In(p)) + 1
                                    ELSE IF p = phase[r] THEN Cardinality(In(p)) - 1
                                    ELSE Cardinality(In(p))
<1>1. IsFiniteSet(In(p)) /\ IsFiniteSet(In(p)')
  BY RequestsAssumption, FS_Subset DEF In
<1>2. Cardinality(In(p)) \in Nat /\ Cardinality(In(p)') \in Nat
  BY <1>1, FS_CardinalityType
<1>3. CASE p = q
  <2>1. In(p)' = In(p) \cup {r} /\ r \notin In(p)
    BY <1>3 DEF In
  <2> QED
    BY <1>1, <1>2, <1>3, <2>1, FS_AddElement
<1>4. CASE p = phase[r]
  <2>1. In(p)' = In(p) \ {r} /\ r \in In(p)
    BY <1>4 DEF In
  <2> QED
    BY <1>1, <1>2, <1>4, <2>1, FS_RemoveElement
<1>5. CASE p # q /\ p # phase[r]
  <2>1. In(p)' = In(p)
    BY <1>5 DEF In
  <2> QED
    BY <1>2, <1>5, <2>1
<1> QED
  BY <1>2, <1>3, <1>4, <1>5

\* The limiter counts one more, within its limit.
LEMMA LimiterCounts ==
    ASSUME GatewayInv, NEW s \in Subjects, LimiterAllows(s), windows' = Counted(s)
    PROVE  windows' \in [Subjects -> LimiterWindows] /\ LimiterKept'
<1>0. /\ windows \in [Subjects -> LimiterWindows] /\ clock \in Nat
      /\ RateLimit.limit \in Nat \ {0} /\ RateLimit.window_seconds \in Nat \ {0}
  BY GatewayTypes
<1>1. LimiterStart \in Nat
  <2>1. PICK n \in Nat : LimiterStart = n * RateLimit.window_seconds
    BY <1>0, WindowOf DEF LimiterStart
  <2> QED
    BY <1>0, <2>1
<1>2. LimiterWindow(s) \in LimiterWindows
  BY <1>0, <1>1 DEF LimiterWindow, LimiterWindows
<1> DEFINE counted == [LimiterWindow(s) EXCEPT !.request_count = @ + 1]
<1>3. /\ counted \in LimiterWindows
      /\ counted.request_count <= RateLimit.limit
  BY <1>0, <1>2 DEF LimiterWindows, LimiterAllows
<1>4. windows' = [windows EXCEPT ![s] = counted]
  BY DEF Counted
<1> HIDE DEF counted
<1> QED
  BY <1>0, <1>3, <1>4 DEF GatewayInv, LimiterKept

LEMMA GatewayInitially == GatewayInit => GatewayInv
<1> SUFFICES ASSUME GatewayInit
             PROVE  GatewayInv
  OBVIOUS
<1>1. ResourcesTypeOK /\ usage.window_started_at = NoWindow
  BY PlansAssumption DEF GatewayInit, ResourcesInit, ResourcesTypeOK, Usages, NoWindow
<1>2. GatewayTypeOK
  BY <1>1 DEF GatewayInit, ResourcesTypeOK, GatewayTypeOK, LimiterWindows, Phases, NoWindow
<1>3. SumOf(<<>>) = 0
  <2>1. <<>> \in Seq(Nat) /\ Len(<<>>) = 0
    OBVIOUS
  <2>2. PICK f : SumsTo(f, <<>>, 0) /\ SumOf(<<>>) = f[0]
    BY <2>1, SumIsLast
  <2> QED
    BY <2>2 DEF SumsTo
<1>4. In("running") = {} /\ In("lost") = {}
  BY DEF GatewayInit, In
<1>5. Cardinality(In("running")) = 0 /\ Cardinality(In("lost")) = 0
  BY <1>4, FS_EmptySet
<1>6. UsageIsAccounted
  BY <1>3, <1>5 DEF GatewayInit, ResourcesInit, UsageIsAccounted
<1>7. LimiterKept
  BY RateLimitAssumption DEF GatewayInit, LimiterKept
<1>8. UsageIsWithinPlan
  BY <1>1 DEF GatewayInit, ResourcesTypeOK, Usages, UsageIsWithinPlan, Within
<1>9. PlanWindowKept
  BY <1>1 DEF GatewayInit, ResourcesInit, ResourcesTypeOK, Usages, PlanWindowKept, WindowCounted,
              RequestsWithin, AdmittedBefore
<1> QED
  BY <1>2, <1>6, <1>7, <1>8, <1>9 DEF GatewayInv

\* The plan changes. Where the window still begins at the same second, what was admitted
\* in it counts under the new plan.
LEMMA ReconfigureStep ==
    ASSUME GatewayInv, NEW plan \in Plans, Reconfigure(plan)
    PROVE  GatewayInv'
<1> DEFINE start == WindowStartedAt(plan)
           old == usage.window_started_at
<1>0. /\ clock \in Nat /\ usage \in Usages /\ admitted \in Seq(Nat) /\ old \in Nat \cup {NoWindow}
      /\ windows \in [Subjects -> LimiterWindows] /\ phase \in [Requests -> Phases]
      /\ held \in Seq(QueueAmounts) /\ stored \in Seq(QueueAmounts)
      /\ plan.window_seconds \in Nat \ {0} /\ plan.request_limit \in Nat
  BY GatewayTypes, PlansAssumption DEF Usages
<1>1. /\ tenantPlan' = plan /\ inherited' = usage'
      /\ admitted' = IF start = WindowStartedAt(tenantPlan) THEN admitted ELSE <<>>
      /\ usage' = IF old = NoWindow THEN usage ELSE RollWindow(usage, plan)
      /\ UNCHANGED <<clock, windows, phase, held, stored>>
  BY DEF Reconfigure, ConfigureTenant
<1>2. PICK n \in Nat : /\ start = n * plan.window_seconds
                       /\ n * plan.window_seconds <= clock
                       /\ clock < n * plan.window_seconds + plan.window_seconds
  BY <1>0, WindowOf DEF WindowStartedAt
<1>3. start \in Nat /\ start <= clock /\ clock < start + plan.window_seconds
  BY <1>0, <1>2
<1>4. /\ usage' \in Usages
      /\ usage'.concurrent_operations = usage.concurrent_operations
      /\ usage'.queue_items = usage.queue_items
      /\ usage'.storage_bytes_used = usage.storage_bytes_used
      /\ usage'.window_started_at = IF old = NoWindow THEN old ELSE start
      /\ usage'.requests_used = IF old \in {NoWindow, start} THEN usage.requests_used ELSE 0
  BY <1>0, <1>1, <1>3 DEF RollWindow, Usages
<1>5. UsageIsAccounted'
  BY <1>1, <1>4 DEF GatewayInv, UsageIsAccounted, In
<1>6. UsageIsWithinPlan' /\ RequestsWithin'
  BY <1>1, <1>4 DEF UsageIsWithinPlan, Within, RequestsWithin, Usages
<1>7. AdmittedBefore'
  BY <1>0, <1>1 DEF GatewayInv, PlanWindowKept, AdmittedBefore
<1>8. admitted' \in Seq(Nat)
  BY <1>0, <1>1
<1>9. WindowCounted'
  <2>1. CASE old = NoWindow
    <3>1. admitted = <<>>
      BY <2>1 DEF GatewayInv, PlanWindowKept, WindowCounted
    <3> QED
      BY <1>1, <1>4, <2>1, <3>1 DEF WindowCounted
  <2>2. CASE old # NoWindow
    <3>1. usage'.window_started_at = start /\ start # NoWindow
      BY <1>3, <1>4, <2>2 DEF NoWindow
    <3>2. \A i \in DOMAIN admitted' : admitted'[i] < start + plan.window_seconds
      BY <1>1, <1>3, <1>7, <1>8, <1>0 DEF AdmittedBefore
    <3>3. Cardinality({i \in DOMAIN admitted' : admitted'[i] >= start}) <= usage'.requests_used
      <4>1. CASE start = WindowStartedAt(tenantPlan)
        <5>1. /\ Cardinality(Since(start)) <= StateForContext.requests_used
              /\ StateForContext.requests_used = IF old = start THEN usage.requests_used ELSE 0
          BY <1>0, <4>1, RolledCounters DEF StateForContext, RollWindow, Usages
        <5>2. usage'.requests_used = StateForContext.requests_used
          BY <1>4, <2>2, <5>1
        <5>3. {i \in DOMAIN admitted' : admitted'[i] >= start} = Since(start)
          BY <1>1, <4>1 DEF Since
        <5> QED
          BY <5>1, <5>2, <5>3
      <4>2. CASE start # WindowStartedAt(tenantPlan)
        <5>1. DOMAIN admitted' = {}
          BY <1>1, <4>2
        <5>2. {i \in DOMAIN admitted' : admitted'[i] >= start} = {}
          BY <5>1
        <5>3. Cardinality({i \in DOMAIN admitted' : admitted'[i] >= start}) = 0
          BY <5>2, FS_EmptySet
        <5> QED
          BY <1>4, <5>3 DEF Usages
      <4> QED
        BY <4>1, <4>2
    <3> QED
      BY <1>1, <1>2, <1>3, <3>1, <3>2, <3>3 DEF WindowCounted, Since
  <2> QED
    BY <2>1, <2>2
<1>10. GatewayTypeOK' /\ LimiterKept'
  BY <1>0, <1>1, <1>4, <1>8 DEF GatewayInv, GatewayTypeOK, ResourcesTypeOK, LimiterKept
<1> QED
  BY <1>5, <1>6, <1>7, <1>9, <1>10 DEF GatewayInv, PlanWindowKept

LEMMA GatewayStep == GatewayInv /\ [GatewayNext]_gatewayVars => GatewayInv'
<1> SUFFICES ASSUME GatewayInv, [GatewayNext]_gatewayVars
             PROVE  GatewayInv'
  OBVIOUS
<1> DEFINE u == StateForContext
           slots == Cardinality(In("running")) + Cardinality(In("lost"))
<1>0. /\ tenantPlan \in Plans /\ clock \in Nat
      /\ windows \in [Subjects -> LimiterWindows] /\ phase \in [Requests -> Phases]
      /\ held \in Seq(QueueAmounts) /\ stored \in Seq(QueueAmounts) /\ admitted \in Seq(Nat)
      /\ held \in Seq(Nat) /\ stored \in Seq(Nat) /\ QueueAmounts \subseteq Nat
      /\ inherited \in Usages
  BY GatewayTypes
<1>1. /\ u \in Usages
      /\ u.concurrent_operations = slots
      /\ u.queue_items = SumOf(held) /\ u.storage_bytes_used = SumOf(stored)
  BY RolledCounters DEF GatewayInv, UsageIsAccounted
<1>2. /\ LimiterKept
      /\ u.concurrent_operations = usage.concurrent_operations
      /\ u.queue_items = usage.queue_items /\ u.storage_bytes_used = usage.storage_bytes_used
      /\ u.concurrent_operations \in Nat /\ u.queue_items \in Nat /\ u.storage_bytes_used \in Nat
  BY RolledCounters DEF GatewayInv, Usages
<1> HIDE DEF u
\* A request is refused, whether the limiter has counted it or not.
<1>3. ASSUME NEW r \in Requests, RouteNotFound(r) \/ \E s \in Subjects : RateLimited(r, s)
      PROVE  GatewayInv'
  <2>1. /\ phase[r] = "new" /\ phase' = [phase EXCEPT ![r] = "refused"]
        /\ UNCHANGED <<tenantPlan, usage, clock, windows, held, stored, admitted, inherited>>
    BY <1>3 DEF RouteNotFound, RateLimited, resourceVars
  <2>2. phase' \in [Requests -> Phases] /\ Cardinality(In("running"))' = Cardinality(In("running"))
        /\ Cardinality(In("lost"))' = Cardinality(In("lost"))
    BY <1>0, <2>1, PhaseMoved DEF Phases
  <2>3. UsageIsAccounted'
    BY <2>1, <2>2 DEF GatewayInv, UsageIsAccounted
  <2>4. GatewayTypeOK' /\ LimiterKept' /\ UsageIsWithinPlan'
    BY <2>1, <2>2 DEF GatewayInv, GatewayTypeOK, ResourcesTypeOK, LimiterKept, UsageIsWithinPlan
  <2>5. PlanWindowKept'
    BY <2>1 DEF GatewayInv, PlanWindowKept, WindowCounted, RequestsWithin, AdmittedBefore, Since
  <2> QED
    BY <2>3, <2>4, <2>5 DEF GatewayInv
<1>4. ASSUME NEW r \in Requests, NEW s \in Subjects, RequestRefused(r, s)
      PROVE  GatewayInv'
  <2>1. /\ phase[r] = "new" /\ phase' = [phase EXCEPT ![r] = "refused"]
        /\ LimiterAllows(s) /\ windows' = Counted(s) /\ usage' = u
        /\ UNCHANGED <<tenantPlan, clock, held, stored, admitted, inherited>>
    BY <1>4 DEF RequestRefused, u
  <2>2. phase' \in [Requests -> Phases] /\ Cardinality(In("running"))' = Cardinality(In("running"))
        /\ Cardinality(In("lost"))' = Cardinality(In("lost"))
    BY <1>0, <2>1, PhaseMoved DEF Phases
  <2>3. windows' \in [Subjects -> LimiterWindows] /\ LimiterKept'
    BY <2>1, LimiterCounts
  <2>4. UsageIsAccounted'
    BY <1>1, <2>1, <2>2 DEF UsageIsAccounted
  <2>5. PlanWindowKept'
    BY <2>1, WindowRolls DEF u
  <2>6. UsageIsWithinPlan'
    BY <1>1, <1>2, <2>1, RoomIsKept
  <2> QED
    BY <1>0, <1>1, <2>1, <2>2, <2>3, <2>4, <2>5, <2>6 DEF GatewayInv, GatewayTypeOK, ResourcesTypeOK
\* The plan admits a request, which then finds a slot or does not.
<1>5. ASSUME NEW r \in Requests, NEW s \in Subjects, SlotRefused(r, s)
      PROVE  GatewayInv'
  <2>1. /\ phase[r] = "new" /\ phase' = [phase EXCEPT ![r] = "refused"]
        /\ LimiterAllows(s) /\ windows' = Counted(s)
        /\ RequestAllowed(u) /\ usage' = AdmitRequest(u) /\ admitted' = Append(admitted, clock)
        /\ UNCHANGED <<tenantPlan, clock, held, stored, inherited>>
    BY <1>5 DEF SlotRefused, u
  <2>2. phase' \in [Requests -> Phases] /\ Cardinality(In("running"))' = Cardinality(In("running"))
        /\ Cardinality(In("lost"))' = Cardinality(In("lost"))
    BY <1>0, <2>1, PhaseMoved DEF Phases
  <2>3. windows' \in [Subjects -> LimiterWindows] /\ LimiterKept'
    BY <2>1, LimiterCounts
  <2> DEFINE v == AdmitRequest(u)
  <2>4. /\ usage' \in Usages /\ usage'.requests_used = u.requests_used + 1
        /\ usage'.window_started_at = u.window_started_at
        /\ usage'.concurrent_operations = u.concurrent_operations
        /\ usage'.queue_items = u.queue_items /\ usage'.storage_bytes_used = u.storage_bytes_used
    <3>1. /\ v \in Usages /\ v.requests_used = u.requests_used + 1
          /\ v.window_started_at = u.window_started_at
          /\ v.concurrent_operations = u.concurrent_operations
          /\ v.queue_items = u.queue_items /\ v.storage_bytes_used = u.storage_bytes_used
      BY <1>1 DEF AdmitRequest, Usages
    <3>2. usage' = v
      BY <2>1
    <3> HIDE DEF v
    <3> QED
      BY <3>1, <3>2
  <2>5. UsageIsAccounted'
    BY <1>1, <2>1, <2>2, <2>4 DEF UsageIsAccounted
  <2>6. PlanWindowKept'
    BY <2>1, <2>4, WindowAdmits DEF u
  <2>7. admitted' \in Seq(Nat)
    BY <1>0, <2>1
  <2>8. UsageIsWithinPlan'
    BY <1>1, <1>2, <2>1, <2>4, RoomIsKept
  <2> QED
    BY <1>0, <2>1, <2>2, <2>3, <2>4, <2>5, <2>6, <2>7, <2>8 DEF GatewayInv, GatewayTypeOK, ResourcesTypeOK
<1>6. ASSUME NEW r \in Requests, NEW s \in Subjects, NEW next \in {"running", "lost"},
             Reserved(r, s, next)
      PROVE  GatewayInv'
  <2>1. /\ phase[r] = "new" /\ phase' = [phase EXCEPT ![r] = next]
        /\ LimiterAllows(s) /\ windows' = Counted(s)
        /\ RequestAllowed(u) /\ SlotAllowed(u) /\ usage' = AcquireOperationSlot(AdmitRequest(u))
        /\ admitted' = Append(admitted, clock)
        /\ UNCHANGED <<tenantPlan, clock, held, stored, inherited>>
    BY <1>6 DEF Reserved, u
  <2>2. /\ phase' \in [Requests -> Phases]
        /\ \A p \in {"running", "lost"} :
               /\ Cardinality(In(p)) \in Nat
               /\ Cardinality(In(p))' = IF p = next THEN Cardinality(In(p)) + 1 ELSE Cardinality(In(p))
    BY <1>0, <2>1, PhaseMoved DEF Phases
  <2>3. windows' \in [Subjects -> LimiterWindows] /\ LimiterKept'
    BY <2>1, LimiterCounts
  <2> DEFINE v == AdmitRequest(u)
  <2>4. /\ v \in Usages /\ v.requests_used = u.requests_used + 1
        /\ v.window_started_at = u.window_started_at
        /\ v.concurrent_operations = u.concurrent_operations
        /\ v.queue_items = u.queue_items /\ v.storage_bytes_used = u.storage_bytes_used
    BY <1>1 DEF AdmitRequest, Usages
  <2>5. usage' = AcquireOperationSlot(v)
    BY <2>1
  <2> HIDE DEF v
  <2>6. /\ usage' \in Usages /\ usage'.requests_used = v.requests_used
        /\ usage'.window_started_at = v.window_started_at
        /\ usage'.concurrent_operations = v.concurrent_operations + 1
        /\ usage'.queue_items = v.queue_items /\ usage'.storage_bytes_used = v.storage_bytes_used
    BY <2>4, <2>5 DEF AcquireOperationSlot, Usages
  <2>7. slots' = slots + 1
    BY <2>2
  <2>8. UsageIsAccounted'
    BY <1>1, <2>1, <2>4, <2>6, <2>7 DEF UsageIsAccounted
  <2>9. PlanWindowKept'
    BY <2>1, <2>4, <2>6, WindowAdmits DEF u
  <2>10. admitted' \in Seq(Nat)
    BY <1>0, <2>1
  <2>11. usage'.concurrent_operations <= tenantPlan.concurrent_operations
    <3>1. /\ usage'.concurrent_operations = u.concurrent_operations + 1
          /\ u.concurrent_operations \in Nat /\ tenantPlan.concurrent_operations \in Nat
      BY <1>2, <2>4, <2>6, GatewayTypes
    <3>2. u.concurrent_operations < tenantPlan.concurrent_operations
      BY <2>1 DEF SlotAllowed
    <3> QED
      BY <3>1, <3>2
  <2>12. UsageIsWithinPlan'
    BY <1>1, <1>2, <2>1, <2>4, <2>6, <2>11, RoomIsKept
  <2> QED
    BY <1>0, <2>1, <2>2, <2>3, <2>6, <2>8, <2>9, <2>10, <2>12 DEF GatewayInv, GatewayTypeOK, ResourcesTypeOK
\* A slot is given back: the request that held it was counted, so the clamp at zero
\* takes nothing from another.
<1>7. ASSUME NEW r \in Requests, Finish(r)
      PROVE  GatewayInv'
  <2>1. /\ phase[r] = "running" /\ phase' = [phase EXCEPT ![r] = "done"]
        /\ usage' = ReleaseOperationSlot(u)
        /\ UNCHANGED <<tenantPlan, clock, windows, held, stored, admitted, inherited>>
    BY <1>7 DEF Finish, u
  <2>2. /\ phase' \in [Requests -> Phases]
        /\ Cardinality(In("running")) \in Nat /\ Cardinality(In("running"))' \in Nat
        /\ Cardinality(In("running"))' = Cardinality(In("running")) - 1
        /\ Cardinality(In("lost")) \in Nat /\ Cardinality(In("lost"))' = Cardinality(In("lost"))
    BY <1>0, <2>1, PhaseMoved DEF Phases
  <2>3. slots \in Nat \ {0} /\ slots' = slots - 1
    BY <2>2
  <2>4. u.concurrent_operations \in Nat \ {0}
    BY <1>1, <2>3
  <2>5. LessClamped(u.concurrent_operations, 1) = u.concurrent_operations - 1
    BY <2>4 DEF LessClamped
  <2>6. /\ usage' \in Usages /\ usage'.requests_used = u.requests_used
        /\ usage'.window_started_at = u.window_started_at
        /\ usage'.concurrent_operations = u.concurrent_operations - 1
        /\ usage'.queue_items = u.queue_items /\ usage'.storage_bytes_used = u.storage_bytes_used
    BY <1>1, <2>1, <2>4, <2>5 DEF ReleaseOperationSlot, Usages
  <2>7. UsageIsAccounted'
    BY <1>1, <2>1, <2>3, <2>6 DEF UsageIsAccounted
  <2>8. PlanWindowKept'
    BY <2>1, <2>6, WindowRolls DEF u
  <2>9. UsageIsWithinPlan'
    BY <1>1, <1>2, <2>1, <2>6, RoomIsKept
  <2> QED
    BY <1>0, <1>2, <2>1, <2>2, <2>6, <2>7, <2>8, <2>9
       DEF GatewayInv, GatewayTypeOK, ResourcesTypeOK, LimiterKept
\* Room in the queue and in the storage is counted by the same rules.
<1>8. ASSUME NEW n \in QueueAmounts, Enqueue(n) \/ Store(n)
      PROVE  GatewayInv'
  <2>1. /\ n \in Nat /\ held' \in Seq(QueueAmounts) /\ stored' \in Seq(QueueAmounts)
        /\ UNCHANGED <<tenantPlan, clock, windows, phase, admitted, inherited>>
    <3>1. /\ held' = held \/ held' = Append(held, n)
          /\ stored' = stored \/ stored' = Append(stored, n)
          /\ UNCHANGED <<tenantPlan, clock, windows, phase, admitted, inherited>>
      BY <1>8 DEF Enqueue, Store
    <3>2. n \in Nat
      BY <1>0
    <3>3. held \in Seq(QueueAmounts) /\ stored \in Seq(QueueAmounts)
      BY <1>0
    <3> QED
      BY <3>1, <3>2, <3>3, Lengthened
  <2>2. CASE Enqueue(n)
    <3>1. /\ usage' = ReserveQueueItems(u, n) /\ held' = Append(held, n) /\ stored' = stored
          /\ QueueAllowed(u, n)
      BY <2>2 DEF Enqueue, u
    <3>2. SumOf(held') = SumOf(held) + n
      BY <1>0, <2>1, <3>1, SumOfAppend
    <3>3. /\ usage' \in Usages /\ usage'.requests_used = u.requests_used
          /\ usage'.window_started_at = u.window_started_at
          /\ usage'.concurrent_operations = u.concurrent_operations
          /\ usage'.queue_items = u.queue_items + n /\ usage'.storage_bytes_used = u.storage_bytes_used
      <4> DEFINE total == u.queue_items + n
      <4>1. total \in Nat /\ usage' = [u EXCEPT !.queue_items = total]
        BY <1>1, <2>1, <3>1 DEF ReserveQueueItems, Usages
      <4> HIDE DEF total
      <4>2. /\ usage' \in Usages /\ usage'.requests_used = u.requests_used
            /\ usage'.window_started_at = u.window_started_at
            /\ usage'.concurrent_operations = u.concurrent_operations
            /\ usage'.queue_items = total /\ usage'.storage_bytes_used = u.storage_bytes_used
        BY <1>1, <4>1 DEF Usages
      <4> QED
        BY <4>2 DEF total
    <3>4. UsageIsAccounted'
      BY <1>1, <2>1, <3>1, <3>2, <3>3 DEF UsageIsAccounted, In
    <3>5. PlanWindowKept'
      BY <2>1, <3>3, WindowRolls DEF u
    <3>6. UsageIsWithinPlan'
      BY <1>1, <1>2, <2>1, <3>1, <3>3, RoomIsKept DEF QueueAllowed
    <3> QED
      BY <1>0, <1>2, <2>1, <3>3, <3>4, <3>5, <3>6 DEF GatewayInv, GatewayTypeOK, ResourcesTypeOK, LimiterKept
  <2>3. CASE Store(n)
    <3>1. /\ usage' = ReserveStorageBytes(u, n) /\ stored' = Append(stored, n) /\ held' = held
          /\ StorageAllowed(u, n)
      BY <2>3 DEF Store, u
    <3>2. SumOf(stored') = SumOf(stored) + n
      BY <1>0, <2>1, <3>1, SumOfAppend
    <3>3. /\ usage' \in Usages /\ usage'.requests_used = u.requests_used
          /\ usage'.window_started_at = u.window_started_at
          /\ usage'.concurrent_operations = u.concurrent_operations
          /\ usage'.storage_bytes_used = u.storage_bytes_used + n /\ usage'.queue_items = u.queue_items
      <4> DEFINE total == u.storage_bytes_used + n
      <4>1. total \in Nat /\ usage' = [u EXCEPT !.storage_bytes_used = total]
        BY <1>1, <2>1, <3>1 DEF ReserveStorageBytes, Usages
      <4> HIDE DEF total
      <4>2. /\ usage' \in Usages /\ usage'.requests_used = u.requests_used
            /\ usage'.window_started_at = u.window_started_at
            /\ usage'.concurrent_operations = u.concurrent_operations
            /\ usage'.storage_bytes_used = total /\ usage'.queue_items = u.queue_items
        BY <1>1, <4>1 DEF Usages
      <4> QED
        BY <4>2 DEF total
    <3>4. UsageIsAccounted'
      BY <1>1, <2>1, <3>1, <3>2, <3>3 DEF UsageIsAccounted, In
    <3>5. PlanWindowKept'
      BY <2>1, <3>3, WindowRolls DEF u
    <3>6. UsageIsWithinPlan'
      BY <1>1, <1>2, <2>1, <3>1, <3>3, RoomIsKept DEF StorageAllowed
    <3> QED
      BY <1>0, <1>2, <2>1, <3>3, <3>4, <3>5, <3>6 DEF GatewayInv, GatewayTypeOK, ResourcesTypeOK, LimiterKept
  <2> QED
    BY <1>8, <2>2, <2>3
<1>9. ASSUME Dequeue \/ Erase
      PROVE  GatewayInv'
  <2>1. /\ held' \in Seq(QueueAmounts) /\ stored' \in Seq(QueueAmounts)
        /\ UNCHANGED <<tenantPlan, clock, windows, phase, admitted, inherited>>
    <3>1. /\ held' = held \/ (held # <<>> /\ held' = Tail(held))
          /\ stored' = stored \/ (stored # <<>> /\ stored' = Tail(stored))
          /\ UNCHANGED <<tenantPlan, clock, windows, phase, admitted, inherited>>
      BY <1>9 DEF Dequeue, Erase
    <3>2. held \in Seq(QueueAmounts) /\ stored \in Seq(QueueAmounts)
      BY <1>0
    <3> QED
      BY <3>1, <3>2, Shortened
  <2>2. CASE Dequeue
    <3> DEFINE n == Head(held)
    <3>1. usage' = ReleaseQueueItems(u, n) /\ held' = Tail(held) /\ stored' = stored /\ held # <<>>
      BY <2>2 DEF Dequeue, u
    <3>2. n \in Nat
      BY <1>0, <3>1
    <3>3. SumOf(held') \in Nat /\ SumOf(held) = n + SumOf(held')
      BY <1>0, <3>1, SumOfTail
    <3> HIDE DEF n
    <3>4. LessClamped(u.queue_items, n) = SumOf(held')
      BY <1>1, <3>2, <3>3 DEF LessClamped
    <3>5. /\ usage' \in Usages /\ usage'.requests_used = u.requests_used
          /\ usage'.window_started_at = u.window_started_at
          /\ usage'.concurrent_operations = u.concurrent_operations
          /\ usage'.queue_items = SumOf(held') /\ usage'.storage_bytes_used = u.storage_bytes_used
      BY <1>1, <3>1, <3>3, <3>4 DEF ReleaseQueueItems, Usages
    <3>6. UsageIsAccounted'
      BY <1>1, <2>1, <3>1, <3>5 DEF UsageIsAccounted, In
    <3>7. PlanWindowKept'
      BY <2>1, <3>5, WindowRolls DEF u
    <3>8. UsageIsWithinPlan'
      <4>1. SumOf(held') <= SumOf(held)
        BY <3>2, <3>3
      <4>2. usage'.queue_items <= usage.queue_items
        BY <1>1, <1>2, <3>5, <4>1
      <4> QED
        BY <1>2, <2>1, <3>5, <4>2, RoomIsKept
    <3> QED
      BY <1>0, <1>2, <2>1, <3>5, <3>6, <3>7, <3>8 DEF GatewayInv, GatewayTypeOK, ResourcesTypeOK, LimiterKept
  <2>3. CASE Erase
    <3> DEFINE n == Head(stored)
    <3>1. usage' = ReleaseStorageBytes(u, n) /\ stored' = Tail(stored) /\ held' = held /\ stored # <<>>
      BY <2>3 DEF Erase, u
    <3>2. n \in Nat
      BY <1>0, <3>1
    <3>3. SumOf(stored') \in Nat /\ SumOf(stored) = n + SumOf(stored')
      BY <1>0, <3>1, SumOfTail
    <3> HIDE DEF n
    <3>4. LessClamped(u.storage_bytes_used, n) = SumOf(stored')
      BY <1>1, <3>2, <3>3 DEF LessClamped
    <3>5. /\ usage' \in Usages /\ usage'.requests_used = u.requests_used
          /\ usage'.window_started_at = u.window_started_at
          /\ usage'.concurrent_operations = u.concurrent_operations
          /\ usage'.storage_bytes_used = SumOf(stored') /\ usage'.queue_items = u.queue_items
      BY <1>1, <3>1, <3>3, <3>4 DEF ReleaseStorageBytes, Usages
    <3>6. UsageIsAccounted'
      BY <1>1, <2>1, <3>1, <3>5 DEF UsageIsAccounted, In
    <3>7. PlanWindowKept'
      BY <2>1, <3>5, WindowRolls DEF u
    <3>8. UsageIsWithinPlan'
      <4>1. SumOf(stored') <= SumOf(stored)
        BY <3>2, <3>3
      <4>2. usage'.storage_bytes_used <= usage.storage_bytes_used
        BY <1>1, <1>2, <3>5, <4>1
      <4> QED
        BY <1>2, <2>1, <3>5, <4>2, RoomIsKept
    <3> QED
      BY <1>0, <1>2, <2>1, <3>5, <3>6, <3>7, <3>8 DEF GatewayInv, GatewayTypeOK, ResourcesTypeOK, LimiterKept
  <2> QED
    BY <1>9, <2>2, <2>3
<1>10. ASSUME NEW plan \in Plans, Reconfigure(plan)
       PROVE  GatewayInv'
  BY <1>10, ReconfigureStep
<1>11. CASE Tick
  <2>1. clock' = clock + 1 /\ UNCHANGED <<tenantPlan, usage, windows, phase, held, stored, admitted, inherited>>
    BY <1>11 DEF Tick
  <2>2. WindowCounted'
    <3>1. usage.window_started_at \in Nat \cup {NoWindow}
      BY GatewayTypes DEF Usages
    <3> QED
      BY <1>0, <2>1, <3>1 DEF GatewayInv, PlanWindowKept, WindowCounted, Since, NoWindow
  <2>3. AdmittedBefore'
    BY <1>0, <2>1 DEF GatewayInv, PlanWindowKept, AdmittedBefore
  <2>4. PlanWindowKept'
    BY <2>1, <2>2, <2>3 DEF GatewayInv, PlanWindowKept, RequestsWithin
  <2> QED
    BY <1>0, <2>1, <2>4
       DEF GatewayInv, GatewayTypeOK, ResourcesTypeOK, LimiterKept, UsageIsAccounted, UsageIsWithinPlan, In
<1>12. CASE UNCHANGED gatewayVars
  BY <1>12 DEF gatewayVars, resourceVars, GatewayInv, GatewayTypeOK, ResourcesTypeOK, LimiterKept,
               UsageIsAccounted, UsageIsWithinPlan, In, PlanWindowKept, WindowCounted, RequestsWithin,
               AdmittedBefore, Since
<1> QED
  BY <1>3, <1>4, <1>5, <1>6, <1>7, <1>8, <1>9, <1>10, <1>11, <1>12
     DEF GatewayNext, CallService, SigningFails

\* What the gateway admits and what is held stay within the plan and the limiter, for
\* every plan and however often it changes inside a window or between two, and the
\* counters are those of the requests and the workers that hold them or, where a request
\* could not be signed, have lost them (admit_request, acquire_operation_slot, reserve_*,
\* release_*).
THEOREM GatewayKeepsBudgets == GatewaySpec => []BudgetsAreKept
<1>1. GatewayInv => BudgetsAreKept
  <2> SUFFICES ASSUME GatewayInv
               PROVE  BudgetsAreKept
    OBVIOUS
  <2>1. {i \in DOMAIN admitted : admitted[i] >= WindowStartedAt(tenantPlan)}
            = Since(WindowStartedAt(tenantPlan))
    BY DEF Since
  <2>2. WindowBudgetKept
    <3> DEFINE start == WindowStartedAt(tenantPlan)
               used == StateForContext.requests_used
               count == Cardinality(Since(start))
    <3>1. /\ used \in Nat /\ count <= used
          /\ \/ used <= tenantPlan.request_limit
             \/ used <= inherited.requests_used /\ start = inherited.window_started_at
      BY RolledCounters DEF Usages
    <3>2. count \in Nat /\ tenantPlan.request_limit \in Nat /\ inherited.requests_used \in Nat
      BY GatewayTypes, SinceIsFinite DEF Usages
    <3> HIDE DEF used, count
    <3>3. \/ count <= tenantPlan.request_limit
          \/ count <= inherited.requests_used /\ inherited.window_started_at = start
      BY <3>1, <3>2
    <3> QED
      BY <2>1, <3>3 DEF GatewayInv, LimiterKept, WindowBudgetKept, count
  <2> QED
    BY <2>2 DEF GatewayInv, BudgetsAreKept
<1> QED
  BY <1>1, GatewayInitially, GatewayStep, PTL DEF GatewaySpec

----------------------------------------------------------------------------
\* The stores that tenants share.

Stages == {"new", "app", "client", "answered"}

InService(r) == httpStage[r] \in {"app", "client"}

StorageTypes ==
    /\ httpStage \in [HttpRequests -> Stages]
    /\ httpStatus \in [HttpRequests -> Nat]
    /\ denials \in [HttpRequests -> Nat]
    /\ DOMAIN context = HttpRequests
    /\ DOMAIN clientCall = HttpRequests
    /\ DOMAIN session = HttpRequests
    /\ DOMAIN objects = StorageTenants
    /\ DOMAIN collections = StorageTenants
    /\ \A t \in StorageTenants : DOMAIN collections[t] = VectorIds

\* A call in a thread goes to what is the caller's own, as the call was made: the thread
\* may run on when the request has been answered.
OwnCall(call) ==
    /\ call.kind = "put" => /\ call.key \in StorageTenants /\ call.writer = call.key
                            /\ call.metadata.tenant = call.key
    /\ call.kind \in {"get", "delete"} => call.key \in StorageTenants
    /\ call.kind = "upsert" => call.name \in StorageTenants /\ call.record.tenant = call.name

\* A request in service acts for the tenant it was let in for, and so does all it has
\* staged and has under way.
RequestsKeepTo ==
    \A r \in HttpRequests :
        /\ InService(r) => context[r] \in StorageTenants
        /\ \A s \in session[r] : InService(r) /\ s.tenant = context[r] /\ s.request = r
        /\ OwnCall(clientCall[r])
        /\ httpStage[r] = "client" /\ clientCall[r].kind = "get" => clientCall[r].key = context[r]

\* A refusal ends the request it is recorded for.
RefusalsEnd ==
    \A r \in HttpRequests :
        /\ denials[r] <= 1
        /\ r \in foreign => denials[r] = 1
        /\ denials[r] = 1 => httpStage[r] = "answered" /\ httpStatus[r] = 403

\* A signed URL leads to what is its holder's own.
UrlsKeepTo ==
    \A url \in urls :
        /\ url.key \in StorageTenants /\ url.holder = url.key
        /\ url.method = "PUT" => url.metadata.tenant = url.key

ObjectsOwn ==
    \A t \in StorageTenants :
        objects[t] # NoObject => objects[t].writer = t /\ objects[t].metadata.tenant = t

VectorsOwn ==
    \A t \in StorageTenants : \A v \in VectorIds :
        collections[t][v] # NoRecord => collections[t][v].tenant = t

\* A row was written by a request that ended well.
RowsOfEnded ==
    \A i \in RowIds : rows[i] # NoRow =>
        /\ rows[i].request \in HttpRequests
        /\ httpStage[rows[i].request] = "answered"
        /\ httpStatus[rows[i].request] = 200

StorageInv ==
    /\ StorageTypes /\ RequestsKeepTo /\ RefusalsEnd /\ UrlsKeepTo
    /\ ObjectsOwn /\ VectorsOwn /\ OwnReads /\ RowsOfEnded

StoreInv == UrlsKeepTo /\ ObjectsOwn /\ VectorsOwn /\ OwnReads

\* The stores are as they were.
LEMMA StoresStay ==
    ASSUME StorageInv, UNCHANGED storeVars
    PROVE  StoreInv' /\ UNCHANGED rows
           /\ DOMAIN objects' = StorageTenants /\ DOMAIN collections' = StorageTenants
           /\ \A t \in StorageTenants : DOMAIN collections'[t] = VectorIds
  BY DEF StorageInv, StoreInv, storeVars, UrlsKeepTo, ObjectsOwn, VectorsOwn, OwnReads, StorageTypes

RequestTypes ==
    /\ httpStage \in [HttpRequests -> Stages]
    /\ httpStatus \in [HttpRequests -> Nat]
    /\ denials \in [HttpRequests -> Nat]
    /\ DOMAIN context = HttpRequests
    /\ DOMAIN clientCall = HttpRequests
    /\ DOMAIN session = HttpRequests

\* A request is answered: whatever it had staged is gone, and a refusal is recorded with
\* an answer that says so.
LEMMA AnswerStep ==
    ASSUME StorageInv, NEW r \in HttpRequests, httpStage[r] # "answered", NEW status \in Nat,
           Answer(r, status),
           \/ denials' = denials /\ foreign' = foreign
           \/ /\ status = 403
              /\ denials' = [denials EXCEPT ![r] = @ + 1]
              /\ foreign' \in {foreign, foreign \cup {r}}
    PROVE  /\ RequestTypes' /\ RequestsKeepTo' /\ RefusalsEnd'
           /\ httpStage'[r] = "answered" /\ httpStatus'[r] = status
           /\ \A q \in HttpRequests : httpStage[q] = "answered" =>
                  httpStage'[q] = "answered" /\ httpStatus'[q] = httpStatus[q]
<1>0. StorageTypes /\ RequestsKeepTo /\ RefusalsEnd
  BY DEF StorageInv
<1>1. /\ httpStage' = [httpStage EXCEPT ![r] = "answered"]
      /\ httpStatus' = [httpStatus EXCEPT ![r] = status]
      /\ context' = [context EXCEPT ![r] = NoContext]
      /\ session' = [session EXCEPT ![r] = {}]
      /\ clientCall' = clientCall
  BY DEF Answer
<1>2. RequestTypes'
  BY <1>0, <1>1 DEF StorageTypes, RequestTypes, Stages
<1>3. /\ httpStage'[r] = "answered" /\ httpStatus'[r] = status /\ session'[r] = {}
      /\ \A q \in HttpRequests \ {r} :
             /\ httpStage'[q] = httpStage[q] /\ httpStatus'[q] = httpStatus[q]
             /\ context'[q] = context[q] /\ session'[q] = session[q]
  BY <1>0, <1>1 DEF StorageTypes
<1>4. RequestsKeepTo'
  BY <1>0, <1>1, <1>3 DEF RequestsKeepTo, InService, OwnCall
<1>5. denials[r] = 0 /\ r \notin foreign
  BY <1>0 DEF StorageTypes, RefusalsEnd
<1>6. /\ \A q \in HttpRequests \ {r} : denials'[q] = denials[q] /\ (q \in foreign' <=> q \in foreign)
      /\ denials'[r] \in {0, 1} /\ (denials'[r] = 1 => status = 403) /\ (r \in foreign' => denials'[r] = 1)
  BY <1>0, <1>5 DEF StorageTypes
<1>7. RefusalsEnd'
  BY <1>0, <1>3, <1>6 DEF RefusalsEnd
<1> QED
  BY <1>2, <1>3, <1>4, <1>7

\* A request goes on: its answer and the refusals on record are as they were.
LEMMA RequestGoesOn ==
    ASSUME StorageInv, UNCHANGED <<httpStatus, denials, foreign>>, RequestTypes',
           \A q \in HttpRequests : httpStage[q] = "answered" => httpStage'[q] = "answered"
    PROVE  RefusalsEnd'
  BY DEF StorageInv, StorageTypes, RefusalsEnd

\* Nothing about the requests changes but how many operations they have done.
LEMMA RequestsStay ==
    ASSUME StorageInv,
           UNCHANGED <<httpStage, httpStatus, context, clientCall, session, denials, foreign>>
    PROVE  RequestTypes' /\ RequestsKeepTo' /\ RefusalsEnd'
  BY DEF StorageInv, StorageTypes, RequestTypes, RequestsKeepTo, RefusalsEnd, InService, OwnCall

\* Rows stay, and the requests that wrote them.
LEMMA RowsStay ==
    ASSUME StorageInv, rows' = rows,
           \A q \in HttpRequests : httpStage[q] = "answered" =>
               httpStage'[q] = "answered" /\ httpStatus'[q] = httpStatus[q]
    PROVE  RowsOfEnded'
  BY DEF StorageInv, RowsOfEnded

\* An operation goes on in a thread, for the tenant of the request.
LEMMA ToThreadStep ==
    ASSUME StorageInv, NEW r \in HttpRequests, RequireContext(r), NEW call, ToThread(r, call),
           OwnCall(call), call.kind = "get" => call.key = context[r]
    PROVE  /\ RequestTypes' /\ RequestsKeepTo' /\ RefusalsEnd'
           /\ \A q \in HttpRequests : httpStage[q] = "answered" =>
                  httpStage'[q] = "answered" /\ httpStatus'[q] = httpStatus[q]
<1>0. StorageTypes /\ RequestsKeepTo
  BY DEF StorageInv
<1>1. /\ httpStage' = [httpStage EXCEPT ![r] = "client"]
      /\ clientCall' = [clientCall EXCEPT ![r] = call]
      /\ UNCHANGED <<httpStatus, context, session, denials, foreign>>
      /\ httpStage[r] = "app"
  BY DEF ToThread, RequireContext
<1>2. RequestTypes'
  BY <1>0, <1>1 DEF StorageTypes, RequestTypes, Stages
<1>3. /\ httpStage'[r] = "client" /\ clientCall'[r] = call
      /\ \A q \in HttpRequests \ {r} : httpStage'[q] = httpStage[q] /\ clientCall'[q] = clientCall[q]
  BY <1>0, <1>1 DEF StorageTypes
<1>4. RequestsKeepTo'
  BY <1>0, <1>1, <1>3 DEF RequestsKeepTo, InService, OwnCall
<1>5. \A q \in HttpRequests : httpStage[q] = "answered" =>
          httpStage'[q] = "answered" /\ httpStatus'[q] = httpStatus[q]
  BY <1>1, <1>3
<1> QED
  BY <1>1, <1>2, <1>4, <1>5, RequestGoesOn

\* The thread is done, whether somebody still waits for it or not.
LEMMA BackToAppStep ==
    ASSUME StorageInv, NEW r \in HttpRequests, BackToApp(r)
    PROVE  /\ RequestTypes' /\ RequestsKeepTo' /\ RefusalsEnd'
           /\ \A q \in HttpRequests : httpStage[q] = "answered" =>
                  httpStage'[q] = "answered" /\ httpStatus'[q] = httpStatus[q]
<1>0. StorageTypes /\ RequestsKeepTo
  BY DEF StorageInv
<1>1. /\ httpStage' = [httpStage EXCEPT ![r] = IF @ = "client" THEN "app" ELSE @]
      /\ clientCall' = [clientCall EXCEPT ![r] = NoCall]
      /\ UNCHANGED <<httpStatus, context, session, denials, foreign>>
  BY DEF BackToApp
<1>2. RequestTypes'
  BY <1>0, <1>1 DEF StorageTypes, RequestTypes, Stages
<1>3. /\ httpStage'[r] = IF httpStage[r] = "client" THEN "app" ELSE httpStage[r]
      /\ clientCall'[r] = NoCall
      /\ \A q \in HttpRequests \ {r} : httpStage'[q] = httpStage[q] /\ clientCall'[q] = clientCall[q]
  BY <1>0, <1>1 DEF StorageTypes
<1>4. OwnCall(NoCall) /\ NoCall.kind = "none"
  BY DEF OwnCall, NoCall
<1>5. RequestsKeepTo'
  BY <1>0, <1>1, <1>3, <1>4 DEF RequestsKeepTo, InService, OwnCall
<1>6. \A q \in HttpRequests : httpStage[q] = "answered" =>
          httpStage'[q] = "answered" /\ httpStatus'[q] = httpStatus[q]
  BY <1>1, <1>3
<1> QED
  BY <1>1, <1>2, <1>5, <1>6, RequestGoesOn

LEMMA StorageInitially == StorageInit => StorageInv
<1> SUFFICES ASSUME StorageInit PROVE StorageInv
  OBVIOUS
<1>1. StorageTypes
  BY DEF StorageInit, StorageTypes, Stages
<1>2. RequestsKeepTo
  BY DEF StorageInit, RequestsKeepTo, InService, OwnCall, NoCall
<1>3. RefusalsEnd /\ UrlsKeepTo
  BY DEF StorageInit, RefusalsEnd, UrlsKeepTo
<1>4. ObjectsOwn /\ VectorsOwn /\ OwnReads /\ RowsOfEnded
  BY DEF StorageInit, ObjectsOwn, VectorsOwn, OwnReads, RowsOfEnded
<1> QED
  BY <1>1, <1>2, <1>3, <1>4 DEF StorageInv

\* What a step must keep: the requests', the stores' and the rows' part, one by one.
AnswersStand ==
    \A q \in HttpRequests : httpStage[q] = "answered" =>
        httpStage'[q] = "answered" /\ httpStatus'[q] = httpStatus[q]

StoreDomains ==
    /\ DOMAIN objects = StorageTenants /\ DOMAIN collections = StorageTenants
    /\ \A t \in StorageTenants : DOMAIN collections[t] = VectorIds

LEMMA PartsOfStorage ==
    ASSUME RequestTypes', RequestsKeepTo', RefusalsEnd', StoreInv', StoreDomains', RowsOfEnded'
    PROVE  StorageInv'
  BY DEF RequestTypes, StoreInv, StoreDomains, StorageInv, StorageTypes

\* A request that is answered 403 and puts its one refusal on record.
LEMMA DeniedStep ==
    ASSUME StorageInv, NEW r \in HttpRequests, httpStage[r] # "answered",
           Answer(r, 403), denials' = [denials EXCEPT ![r] = @ + 1],
           foreign' \in {foreign, foreign \cup {r}}
    PROVE  RequestTypes' /\ RequestsKeepTo' /\ RefusalsEnd' /\ AnswersStand
<1>1. 403 \in Nat
  OBVIOUS
<1>2. PICK status \in Nat : status = 403
  BY <1>1
<1>3. Answer(r, status)
  BY <1>2
<1>4. /\ RequestTypes' /\ RequestsKeepTo' /\ RefusalsEnd'
      /\ \A q \in HttpRequests : httpStage[q] = "answered" =>
            httpStage'[q] = "answered" /\ httpStatus'[q] = httpStatus[q]
  BY <1>2, <1>3, AnswerStep, ZenonT(60)
<1> QED
  BY <1>4 DEF AnswersStand

LEMMA RefusedStep ==
    ASSUME StorageInv, NEW r \in HttpRequests, httpStage[r] # "answered", DenyTenantAccess(r)
    PROVE  RequestTypes' /\ RequestsKeepTo' /\ RefusalsEnd' /\ AnswersStand
<1>1. Answer(r, 403) /\ denials' = [denials EXCEPT ![r] = @ + 1] /\ foreign' = foreign \cup {r}
  BY DEF DenyTenantAccess
<1> QED
  BY <1>1, DeniedStep

\* Whoever is let in is let in as the tenant of a token.
LEMMA MiddlewareStep ==
    ASSUME StorageInv, NEW r \in HttpRequests, MiddlewareNext(r)
    PROVE  StorageInv'
<1>0. StorageTypes /\ RequestsKeepTo
  BY DEF StorageInv
<1>1. PICK token \in BearerTokens, header \in StorageTenants \cup {Unstated, Malformed} :
          \/ NotAuthorized(r, token)
          \/ AuditMissingDenial(r, token, header)
          \/ HeaderMismatch(r, token, header)
          \/ EnterApp(r, token, header)
  BY DEF MiddlewareNext
<1>2. UNCHANGED storeVars /\ httpStage[r] = "new"
  BY <1>1 DEF NotAuthorized, AuditMissingDenial, HeaderMismatch, EnterApp
<1>3. RequestTypes' /\ RequestsKeepTo' /\ RefusalsEnd' /\ AnswersStand
  <2>1. CASE NotAuthorized(r, token)
    <3>1. Answer(r, 401) /\ denials' = denials /\ foreign' = foreign
      BY <2>1 DEF NotAuthorized
    <3> QED
      BY <1>2, <3>1, AnswerStep DEF AnswersStand
  <2>2. CASE AuditMissingDenial(r, token, header)
    <3>1. Answer(r, 403) /\ denials' = [denials EXCEPT ![r] = @ + 1] /\ foreign' = foreign
      BY <2>2 DEF AuditMissingDenial
    <3> QED
      BY <1>2, <3>1, DeniedStep
  <2>3. CASE HeaderMismatch(r, token, header)
    BY <1>2, <2>3, RefusedStep DEF HeaderMismatch
  <2>4. CASE EnterApp(r, token, header)
    <3>1. /\ httpStage' = [httpStage EXCEPT ![r] = "app"]
          /\ context' = [context EXCEPT ![r] = token.tenant]
          /\ token.tenant \in StorageTenants
          /\ UNCHANGED <<httpStatus, clientCall, session, denials, foreign>>
      BY <2>4 DEF EnterApp, ValidTenantId
    <3>2. RequestTypes'
      BY <1>0, <3>1 DEF StorageTypes, RequestTypes, Stages
    <3>3. /\ httpStage'[r] = "app" /\ context'[r] = token.tenant /\ session[r] = {}
          /\ \A q \in HttpRequests \ {r} : httpStage'[q] = httpStage[q] /\ context'[q] = context[q]
      BY <1>0, <1>2, <3>1 DEF StorageTypes, RequestsKeepTo, InService
    <3>4. RequestsKeepTo'
      BY <1>0, <3>1, <3>3 DEF RequestsKeepTo, InService, OwnCall
    <3>5. AnswersStand
      BY <1>2, <3>1, <3>3 DEF AnswersStand
    <3> QED
      BY <3>1, <3>2, <3>4, <3>5, RequestGoesOn DEF AnswersStand
  <2> QED
    BY <1>1, <2>1, <2>2, <2>3, <2>4
<1>4. StoreInv' /\ StoreDomains' /\ rows' = rows
  BY <1>2, StoresStay DEF StoreDomains
<1>5. RowsOfEnded'
  BY <1>3, <1>4, RowsStay DEF AnswersStand
<1> QED
  BY <1>3, <1>4, <1>5, PartsOfStorage

\* An operation that goes on in a thread, one that is refused, one that is done, and one
\* that only reads.
LEMMA ThreadKeeps ==
    ASSUME StorageInv, NEW r \in HttpRequests, NEW call, RequireContext(r), ToThread(r, call),
           UNCHANGED storeVars, OwnCall(call), call.kind = "get" => call.key = context[r]
    PROVE  StorageInv'
<1>1. RequestTypes' /\ RequestsKeepTo' /\ RefusalsEnd' /\ AnswersStand
  BY ToThreadStep DEF AnswersStand
<1>2. StoreInv' /\ StoreDomains' /\ rows' = rows
  BY StoresStay DEF StoreDomains
<1> QED
  BY <1>1, <1>2, RowsStay, PartsOfStorage DEF AnswersStand

LEMMA RefusalKeeps ==
    ASSUME StorageInv, NEW r \in HttpRequests, RequireContext(r), Refused(r)
    PROVE  StorageInv'
<1>1. RequestTypes' /\ RequestsKeepTo' /\ RefusalsEnd' /\ AnswersStand
  BY RefusedStep DEF Refused, RequireContext
<1>2. StoreInv' /\ StoreDomains' /\ rows' = rows
  BY StoresStay DEF StoreDomains, Refused
<1> QED
  BY <1>1, <1>2, RowsStay, PartsOfStorage DEF AnswersStand

LEMMA BackKeeps ==
    ASSUME StorageInv, NEW r \in HttpRequests, BackToApp(r), StoreInv', StoreDomains', rows' = rows
    PROVE  StorageInv'
<1>1. RequestTypes' /\ RequestsKeepTo' /\ RefusalsEnd' /\ AnswersStand
  BY BackToAppStep DEF AnswersStand
<1> QED
  BY <1>1, RowsStay, PartsOfStorage DEF AnswersStand

LEMMA ReadingKeeps ==
    ASSUME StorageInv, OwnReads',
           UNCHANGED <<httpStage, httpStatus, context, clientCall, session, denials, foreign>>,
           UNCHANGED <<objects, collections, rows, urls>>
    PROVE  StorageInv'
<1>1. RequestTypes' /\ RequestsKeepTo' /\ RefusalsEnd' /\ AnswersStand
  BY RequestsStay DEF AnswersStand
<1>2. StoreInv' /\ StoreDomains'
  BY DEF StorageInv, StorageTypes, StoreInv, StoreDomains, UrlsKeepTo, ObjectsOwn, VectorsOwn
<1> QED
  BY <1>1, <1>2, RowsStay, PartsOfStorage DEF AnswersStand

\* An operation of a request in service, for the tenant it was let in for.
LEMMA ContextIsOwn ==
    ASSUME StorageInv, NEW r \in HttpRequests, RequireContext(r)
    PROVE  context[r] \in StorageTenants /\ httpStage[r] = "app"
  BY DEF StorageInv, RequireContext, RequestsKeepTo, InService

\* The bucket: what a thread writes, reads or deletes is what its request may touch.
LEMMA BucketStep ==
    ASSUME StorageInv, NEW r \in HttpRequests, BucketNext(r)
    PROVE  StorageInv'
<1>0. StorageTypes /\ RequestsKeepTo /\ StoreInv /\ StoreDomains
  BY DEF StorageInv, StorageTypes, StoreInv, StoreDomains
<1>1. RequireContext(r) => context[r] \in StorageTenants /\ httpStage[r] = "app"
  BY ContextIsOwn
<1>2. ASSUME NEW url, RequireContext(r), SignUrl(r, url),
             url.key \in StorageTenants, url.holder = url.key,
             url.method = "PUT" => url.metadata.tenant = url.key
      PROVE  StorageInv'
  <2>1. /\ UNCHANGED <<httpStage, httpStatus, context, clientCall, session, denials, foreign>>
        /\ UNCHANGED <<objects, collections, rows, readings>> /\ urls' = urls \cup {url}
    BY <1>2 DEF SignUrl
  <2>2. RequestTypes' /\ RequestsKeepTo' /\ RefusalsEnd' /\ AnswersStand
    BY <2>1, RequestsStay DEF AnswersStand
  <2>3. StoreInv' /\ StoreDomains'
    BY <1>0, <1>2, <2>1 DEF StoreInv, StoreDomains, UrlsKeepTo, ObjectsOwn, VectorsOwn, OwnReads
  <2> QED
    BY <2>1, <2>2, <2>3, RowsStay, PartsOfStorage DEF AnswersStand
<1>3. ASSUME NEW body \in Bodies, NEW claimed, PutObject(r, body, claimed)
      PROVE  StorageInv'
  <2> DEFINE call == [kind |-> "put", key |-> ObjectKey(r), writer |-> context[r], body |-> body,
                      metadata |-> ObjectMetadata(r, body)]
  <2>1. RequireContext(r) /\ ToThread(r, call) /\ UNCHANGED storeVars
    BY <1>3 DEF PutObject
  <2>2. OwnCall(call) /\ call.kind # "get"
    BY <1>1, <2>1 DEF OwnCall, ObjectKey, ObjectMetadata
  <2> HIDE DEF call
  <2> QED
    BY ThreadKeeps, <2>1, <2>2
<1>4. ASSUME NEW body \in Bodies, PresignPut(r, body)
      PROVE  StorageInv'
  <2> DEFINE url == [method |-> "PUT", key |-> ObjectKey(r), holder |-> context[r],
                     expires |-> instant + UrlLife, metadata |-> ObjectMetadata(r, body)]
  <2>1. SignUrl(r, url) /\ RequireContext(r)
    BY <1>4 DEF PresignPut, SignUrl
  <2>2. url.key \in StorageTenants /\ url.holder = url.key /\ url.metadata.tenant = url.key
    BY <1>1, <2>1 DEF ObjectKey, ObjectMetadata
  <2> HIDE DEF url
  <2> QED
    BY <1>2, <2>1, <2>2
<1>5. ASSUME NEW claimed \in StorageTenants, ClaimRefused(r, claimed)
      PROVE  StorageInv'
  BY RefusalKeeps, <1>5 DEF ClaimRefused
<1>6. ASSUME GetObject(r) \/ DeleteObject(r)
      PROVE  StorageInv'
  <2> DEFINE call(kind) == [kind |-> kind, key |-> ObjectKey(r)]
  <2>1. PICK kind \in {"get", "delete"} : ToThread(r, call(kind))
    BY <1>6 DEF GetObject, DeleteObject
  <2>2. RequireContext(r) /\ UNCHANGED storeVars
    BY <1>6 DEF GetObject, DeleteObject
  <2>3. OwnCall(call(kind)) /\ call(kind).key = context[r]
    BY <1>1, <2>2 DEF OwnCall, ObjectKey
  <2> HIDE DEF call
  <2> QED
    BY ThreadKeeps, <2>1, <2>2, <2>3
<1>7. ASSUME ListObjects(r)
       PROVE  StorageInv'
  <2>1. /\ UNCHANGED <<httpStage, httpStatus, context, clientCall, session, denials, foreign>>
        /\ UNCHANGED <<objects, collections, rows, urls>>
        /\ RequireContext(r)
        /\ readings' = readings \cup {Read(r, objects[t].writer) :
                                         t \in {x \in {ObjectKey(r)} : objects[x] # NoObject}}
    BY <1>7 DEF ListObjects
  <2>2. OwnReads'
    BY <1>0, <1>1, <2>1 DEF StoreInv, OwnReads, ObjectsOwn, ObjectKey, Read
  <2> QED
    BY <2>1, <2>2, ReadingKeeps
<1>8. ASSUME PresignGet(r)
       PROVE  StorageInv'
  <2> DEFINE url == [method |-> "GET", key |-> ObjectKey(r), holder |-> context[r],
                     expires |-> instant + UrlLife]
  <2>1. SignUrl(r, url) /\ RequireContext(r)
    BY <1>8 DEF PresignGet, SignUrl
  <2>2. url.key \in StorageTenants /\ url.holder = url.key /\ url.method # "PUT"
    BY <1>1, <2>1 DEF ObjectKey
  <2> HIDE DEF url
  <2> QED
    BY <1>2, <2>1, <2>2
<1>9. ASSUME StorePut(r)
       PROVE  StorageInv'
  <2> DEFINE call == clientCall[r]
             object == [body |-> call.body, metadata |-> call.metadata, writer |-> call.writer]
  <2>1. /\ objects' = [objects EXCEPT ![call.key] = object]
        /\ BackToApp(r) /\ UNCHANGED <<collections, rows, urls, readings>>
    BY <1>9 DEF StorePut
  <2>2. call.key \in StorageTenants /\ object.writer = call.key /\ object.metadata.tenant = call.key
    BY <1>0, <1>9 DEF StorePut, InThread, RequestsKeepTo, OwnCall
  <2> HIDE DEF object, call
  <2>3. StoreInv' /\ StoreDomains'
    BY <1>0, <2>1, <2>2 DEF StoreInv, StoreDomains, UrlsKeepTo, ObjectsOwn, VectorsOwn, OwnReads
  <2> QED
    BY BackKeeps, <2>1, <2>3
<1>10. ASSUME StoreDelete(r)
       PROVE  StorageInv'
  <2> DEFINE call == clientCall[r]
  <2>1. /\ objects' = [objects EXCEPT ![call.key] = NoObject]
        /\ BackToApp(r) /\ UNCHANGED <<collections, rows, urls, readings>>
    BY <1>10 DEF StoreDelete
  <2>2. call.key \in StorageTenants
    BY <1>0, <1>10 DEF StoreDelete, InThread, RequestsKeepTo, OwnCall
  <2> HIDE DEF call
  <2>3. StoreInv' /\ StoreDomains'
    BY <1>0, <2>1, <2>2 DEF StoreInv, StoreDomains, UrlsKeepTo, ObjectsOwn, VectorsOwn, OwnReads
  <2> QED
    BY BackKeeps, <2>1, <2>3
<1>11. ASSUME StoreGet(r)
       PROVE  StorageInv'
  <2> DEFINE key == clientCall[r].key
  <2>1. key = context[r] /\ key \in StorageTenants /\ httpStage[r] = "client"
    BY <1>0, <1>11 DEF StoreGet, InThread, RequestsKeepTo, InService
  <2>2. CASE objects[key] = NoObject \/ objects[key].metadata.tenant = context[r]
    <3>1. /\ readings' = IF objects[key] = NoObject THEN readings
                         ELSE readings \cup {Read(r, objects[key].writer)}
          /\ BackToApp(r) /\ UNCHANGED <<objects, collections, rows, urls>>
      BY <1>11, <2>2 DEF StoreGet
    <3>2. OwnReads'
      BY <1>0, <2>1, <3>1 DEF StoreInv, OwnReads, ObjectsOwn, Read
    <3>3. StoreInv' /\ StoreDomains'
      BY <1>0, <3>1, <3>2 DEF StoreInv, StoreDomains, UrlsKeepTo, ObjectsOwn, VectorsOwn
    <3> QED
      BY BackKeeps, <3>1, <3>3
  <2>3. CASE ~(objects[key] = NoObject \/ objects[key].metadata.tenant = context[r])
    BY <1>0, <2>1, <2>3 DEF StoreInv, ObjectsOwn
  <2> QED
    BY <2>2, <2>3
<1> QED
  BY <1>3, <1>4, <1>5, <1>6, <1>7, <1>8, <1>9, <1>10, <1>11 DEF BucketNext

\* The collections: a record says whose it is, and lies in the collection of that tenant.
LEMMA VectorStep ==
    ASSUME StorageInv, NEW r \in HttpRequests, VectorNext(r)
    PROVE  StorageInv'
<1>0. StorageTypes /\ RequestsKeepTo /\ StoreInv /\ StoreDomains
  BY DEF StorageInv, StorageTypes, StoreInv, StoreDomains
<1>1. RequireContext(r) => context[r] \in StorageTenants /\ httpStage[r] = "app"
  BY ContextIsOwn
<1>2. ASSUME NEW name \in StorageTenants, NEW filled \in [VectorIds -> {NoRecord, [tenant |-> name]}
                                                       \cup {collections[name][v] : v \in VectorIds}],
             \A v \in VectorIds : filled[v] \in {[tenant |-> name], collections[name][v]},
             collections' = [collections EXCEPT ![name] = filled],
             UNCHANGED <<objects, rows, urls, readings>>
      PROVE  StoreInv' /\ StoreDomains'
  <2>1. /\ collections'[name] = filled /\ DOMAIN collections' = StorageTenants
        /\ \A t \in StorageTenants \ {name} : collections'[t] = collections[t]
    BY <1>0, <1>2 DEF StoreDomains
  <2>2. VectorsOwn'
    BY <1>0, <1>2, <2>1 DEF StoreInv, VectorsOwn
  <2>3. StoreDomains'
    BY <1>0, <1>2, <2>1 DEF StoreDomains
  <2> QED
    BY <1>0, <1>2, <2>2, <2>3 DEF StoreInv, UrlsKeepTo, ObjectsOwn, OwnReads
<1>3. ASSUME UpsertChroma(r)
      PROVE  StorageInv'
  <2> DEFINE call == [kind |-> "upsert", name |-> CollectionName(r), record |-> VectorRecord(r)]
  <2>1. RequireContext(r) /\ ToThread(r, call) /\ UNCHANGED storeVars
    BY <1>3 DEF UpsertChroma
  <2>2. OwnCall(call) /\ call.kind # "get"
    BY <1>1, <2>1 DEF OwnCall, CollectionName, VectorRecord
  <2> HIDE DEF call
  <2> QED
    BY ThreadKeeps, <2>1, <2>2
<1>4. ASSUME ChromaUpsert(r)
      PROVE  StorageInv'
  <2> DEFINE call == clientCall[r]
  <2>1. /\ collections' = [collections EXCEPT ![call.name] = [v \in VectorIds |-> call.record]]
        /\ BackToApp(r) /\ UNCHANGED <<objects, rows, urls, readings>>
    BY <1>4 DEF ChromaUpsert
  <2>2. call.name \in StorageTenants /\ call.record.tenant = call.name
    BY <1>0, <1>4 DEF ChromaUpsert, InThread, RequestsKeepTo, OwnCall
  <2> HIDE DEF call
  <2>3. VectorsOwn'
    BY <1>0, <2>1, <2>2 DEF StoreInv, StoreDomains, VectorsOwn
  <2>4. StoreInv' /\ StoreDomains'
    BY <1>0, <2>1, <2>2, <2>3 DEF StoreInv, StoreDomains, UrlsKeepTo, ObjectsOwn, OwnReads
  <2> QED
    BY BackKeeps, <2>1, <2>4
<1>5. ASSUME UpsertMemory(r)
      PROVE  StorageInv'
  <2>1. /\ UNCHANGED <<httpStage, httpStatus, context, clientCall, session, denials, foreign>>
        /\ UNCHANGED <<objects, rows, urls, readings>> /\ RequireContext(r)
        /\ collections' = [collections EXCEPT ![CollectionName(r)] =
                              [v \in VectorIds |-> VectorRecord(r)]]
    BY <1>5 DEF UpsertMemory
  <2>2. RequestTypes' /\ RequestsKeepTo' /\ RefusalsEnd' /\ AnswersStand
    BY <2>1, RequestsStay DEF AnswersStand
  <2>3. StoreInv' /\ StoreDomains'
    <3> DEFINE filled == [v \in VectorIds |-> VectorRecord(r)]
    <3>1. /\ collections' = [collections EXCEPT ![context[r]] = filled]
          /\ \A v \in VectorIds : filled[v] = [tenant |-> context[r]]
          /\ filled \in [VectorIds -> {NoRecord, [tenant |-> context[r]]}
                                      \cup {collections[context[r]][v] : v \in VectorIds}]
      BY <2>1 DEF CollectionName, VectorRecord
    <3> HIDE DEF filled
    <3>2. \A v \in VectorIds : filled[v] \in {[tenant |-> context[r]], collections[context[r]][v]}
      BY <3>1
    <3>3. context[r] \in StorageTenants /\ UNCHANGED <<objects, rows, urls, readings>>
      BY <1>1, <2>1
    <3> QED
      BY <1>2, <3>1, <3>2, <3>3
  <2> QED
    BY <2>1, <2>2, <2>3, RowsStay, PartsOfStorage DEF AnswersStand
<1>6. ASSUME QueryVectors(r)
      PROVE  StorageInv'
  <2>1. /\ UNCHANGED <<httpStage, httpStatus, context, clientCall, session, denials, foreign>>
        /\ UNCHANGED <<objects, collections, rows, urls>>
        /\ readings' = readings \cup {Read(r, collections[CollectionName(r)][v].tenant) :
                                         v \in VectorsFound(r)}
    BY <1>6 DEF QueryVectors
  <2>2. OwnReads'
    BY <1>0, <2>1 DEF StoreInv, OwnReads, VectorsFound, Read
  <2> QED
    BY <2>1, <2>2, ReadingKeeps
<1>7. ASSUME NEW kept \in SUBSET VectorIds, UpsertRefused(r, kept)
      PROVE  StorageInv'
  <2> DEFINE filled == [v \in VectorIds |-> IF v \in kept THEN VectorRecord(r)
                                            ELSE collections[context[r]][v]]
  <2>1. /\ RequireContext(r) /\ DenyTenantAccess(r)
        /\ collections' = [collections EXCEPT ![context[r]] = filled]
        /\ UNCHANGED <<objects, rows, urls, readings>>
    BY <1>7 DEF UpsertRefused, CollectionName
  <2>2. /\ \A v \in VectorIds : filled[v] \in {[tenant |-> context[r]], collections[context[r]][v]}
        /\ filled \in [VectorIds -> {NoRecord, [tenant |-> context[r]]}
                                    \cup {collections[context[r]][v] : v \in VectorIds}]
    BY DEF VectorRecord
  <2> HIDE DEF filled
  <2>3. StoreInv' /\ StoreDomains'
    BY <1>1, <1>2, <2>1, <2>2
  <2>4. RequestTypes' /\ RequestsKeepTo' /\ RefusalsEnd' /\ AnswersStand
    BY <1>1, <2>1, RefusedStep
  <2> QED
    BY <2>1, <2>3, <2>4, RowsStay, PartsOfStorage DEF AnswersStand
<1> QED
  BY <1>3, <1>4, <1>5, <1>6, <1>7 DEF VectorNext

\* The tables: a row is committed when the request that staged it ends well, and only then.
LEMMA TableStep ==
    ASSUME StorageInv, NEW r \in HttpRequests, TableNext(r)
    PROVE  StorageInv'
<1>0. StorageTypes /\ RequestsKeepTo /\ StoreInv /\ StoreDomains /\ RefusalsEnd /\ RowsOfEnded
  BY DEF StorageInv, StorageTypes, StoreInv, StoreDomains
<1>1. RequireContext(r) => context[r] \in StorageTenants /\ httpStage[r] = "app"
  BY ContextIsOwn
<1>2. ASSUME NEW id \in RowIds, AddRow(r, id)
      PROVE  StorageInv'
  <2> DEFINE row == [id |-> id, tenant |-> context[r], request |-> r]
  <2>1. /\ UNCHANGED <<httpStage, httpStatus, context, clientCall, denials, foreign, storeVars>>
        /\ session' = [session EXCEPT ![r] = @ \cup {row}] /\ RequireContext(r)
    BY <1>2 DEF AddRow
  <2>2. row.tenant = context[r] /\ row.request = r
    OBVIOUS
  <2> HIDE DEF row
  <2>3. RequestTypes'
    BY <1>0, <2>1 DEF StorageTypes, RequestTypes
  <2>4. RequestsKeepTo'
    BY <1>0, <1>1, <2>1, <2>2 DEF StorageTypes, RequestsKeepTo, InService, OwnCall
  <2>5. AnswersStand /\ RefusalsEnd'
    BY <1>0, <2>1 DEF AnswersStand, RefusalsEnd
  <2>6. StoreInv' /\ StoreDomains' /\ rows' = rows
    BY <2>1, StoresStay DEF StoreDomains
  <2> QED
    BY <2>3, <2>4, <2>5, <2>6, RowsStay, PartsOfStorage DEF AnswersStand
<1>3. ASSUME NEW id \in RowIds, GetOwned(r, id)
      PROVE  StorageInv'
  <2>1. CASE RowOwned(r, rows[id].tenant)
    <3>1. /\ UNCHANGED <<httpStage, httpStatus, context, clientCall, session, denials, foreign>>
          /\ UNCHANGED <<objects, collections, rows, urls>>
          /\ readings' = readings \cup {Read(r, rows[id].tenant)}
      BY <1>3, <2>1 DEF GetOwned
    <3>2. OwnReads'
      BY <1>0, <2>1, <3>1 DEF StoreInv, OwnReads, RowOwned, Read
    <3> QED
      BY <3>1, <3>2, ReadingKeeps
  <2>2. CASE ~RowOwned(r, rows[id].tenant)
    BY <1>3, <2>2, RefusalKeeps DEF GetOwned
  <2> QED
    BY <2>1, <2>2
<1>4. ASSUME ListRows(r)
      PROVE  StorageInv'
  <2>1. /\ UNCHANGED <<httpStage, httpStatus, context, clientCall, session, denials, foreign>>
        /\ UNCHANGED <<objects, collections, rows, urls>>
        /\ readings' = readings \cup {Read(r, rows[i].tenant) :
                            i \in {x \in RowIds : rows[x] # NoRow /\ RowOwned(r, rows[x].tenant)}}
    BY <1>4 DEF ListRows
  <2>2. OwnReads'
    BY <1>0, <2>1 DEF StoreInv, OwnReads, RowOwned, Read
  <2> QED
    BY <2>1, <2>2, ReadingKeeps
<1>5. ASSUME HandlerRaises(r) \/ CallGivenUp(r)
      PROVE  StorageInv'
  <2>1. /\ Answer(r, 500) /\ denials' = denials /\ foreign' = foreign
        /\ httpStage[r] # "answered" /\ UNCHANGED storeVars /\ 500 \in Nat
    BY <1>5 DEF HandlerRaises, CallGivenUp
  <2>2. RequestTypes' /\ RequestsKeepTo' /\ RefusalsEnd' /\ AnswersStand
    BY <2>1, AnswerStep DEF AnswersStand
  <2>3. StoreInv' /\ StoreDomains' /\ rows' = rows
    BY <2>1, StoresStay DEF StoreDomains
  <2> QED
    BY <2>2, <2>3, RowsStay, PartsOfStorage DEF AnswersStand
<1>6. ASSUME Leave(r)
      PROVE  StorageInv'
  <2>1. PICK status \in {200, 500} :
            /\ Answer(r, status)
            /\ \/ rows' = rows
               \/ status = 200 /\ rows' = [i \in RowIds |->
                      IF \E s \in session[r] : s.id = i
                      THEN CHOOSE s \in session[r] : s.id = i ELSE rows[i]]
    BY <1>6 DEF Leave
  <2>2. /\ httpStage[r] = "app" /\ denials' = denials /\ foreign' = foreign
        /\ UNCHANGED <<objects, collections, urls, readings>> /\ status \in Nat
    BY <1>6 DEF Leave
  <2>3. /\ RequestTypes' /\ RequestsKeepTo' /\ RefusalsEnd' /\ AnswersStand
        /\ httpStage'[r] = "answered" /\ httpStatus'[r] = status
    BY <2>1, <2>2, AnswerStep DEF AnswersStand
  <2>4. StoreInv' /\ StoreDomains'
    BY <1>0, <2>2 DEF StoreInv, StoreDomains, UrlsKeepTo, ObjectsOwn, VectorsOwn, OwnReads
  <2>5. RowsOfEnded'
    <3>1. CASE rows' = rows
      BY <2>3, <3>1, RowsStay DEF AnswersStand
    <3>2. CASE rows' # rows
      <4> SUFFICES ASSUME NEW i \in RowIds, rows'[i] # NoRow
                   PROVE  /\ rows'[i].request \in HttpRequests
                          /\ httpStage'[rows'[i].request] = "answered"
                          /\ httpStatus'[rows'[i].request] = 200
        BY DEF RowsOfEnded
      <4>1. CASE \E s \in session[r] : s.id = i
        <5>1. rows'[i] \in session[r] /\ status = 200
          BY <2>1, <3>2, <4>1
        <5> QED
          BY <1>0, <2>3, <5>1 DEF RequestsKeepTo
      <4>2. CASE ~\E s \in session[r] : s.id = i
        <5>1. rows'[i] = rows[i]
          BY <2>1, <3>2, <4>2
        <5> QED
          BY <1>0, <2>3, <5>1 DEF RowsOfEnded, AnswersStand
      <4> QED
        BY <4>1, <4>2
    <3> QED
      BY <3>1, <3>2
  <2> QED
    BY <2>3, <2>4, <2>5, PartsOfStorage
<1> QED
  BY <1>2, <1>3, <1>4, <1>5, <1>6 DEF TableNext

LEMMA StorageStep == StorageInv /\ [StorageNext]_storageVars => StorageInv'
<1> SUFFICES ASSUME StorageInv, [StorageNext]_storageVars
             PROVE  StorageInv'
  OBVIOUS
<1>0. StoreInv /\ StoreDomains
  BY DEF StorageInv, StorageTypes, StoreInv, StoreDomains
<1>1. ASSUME NEW r \in HttpRequests,
             MiddlewareNext(r) \/ BucketNext(r) \/ VectorNext(r) \/ TableNext(r)
      PROVE  StorageInv'
  BY <1>1, MiddlewareStep, BucketStep, VectorStep, TableStep
<1>2. ASSUME NEW url \in urls, Download(url)
      PROVE  StorageInv'
  <2>1. /\ UNCHANGED requestVars /\ UNCHANGED <<objects, collections, rows, urls>>
        /\ objects[url.key] # NoObject
        /\ readings' = readings \cup {[reader |-> url.holder, owner |-> objects[url.key].writer]}
    BY <1>2 DEF Download
  <2>2. OwnReads'
    BY <1>0, <2>1 DEF StoreInv, UrlsKeepTo, ObjectsOwn, OwnReads
  <2> QED
    BY <2>1, <2>2, ReadingKeeps DEF requestVars
<1>3. ASSUME NEW url \in urls, NEW body \in Bodies, Upload(url, body)
      PROVE  StorageInv'
  <2> DEFINE object == [body |-> body, metadata |-> url.metadata, writer |-> url.holder]
  <2>1. /\ UNCHANGED requestVars /\ UNCHANGED <<collections, rows, urls, readings>>
        /\ objects' = [objects EXCEPT ![url.key] = object] /\ url.method = "PUT"
    BY <1>3 DEF Upload, UrlHolds
  <2>2. url.key \in StorageTenants /\ object.writer = url.key /\ object.metadata.tenant = url.key
    BY <1>0, <2>1 DEF StoreInv, UrlsKeepTo
  <2> HIDE DEF object
  <2>3. StoreInv' /\ StoreDomains'
    BY <1>0, <2>1, <2>2 DEF StoreInv, StoreDomains, UrlsKeepTo, ObjectsOwn, VectorsOwn, OwnReads
  <2>4. RequestTypes' /\ RequestsKeepTo' /\ RefusalsEnd' /\ AnswersStand
    BY <2>1, RequestsStay DEF AnswersStand, requestVars
  <2> QED
    BY <2>1, <2>3, <2>4, RowsStay, PartsOfStorage DEF AnswersStand
<1>4. ASSUME UNCHANGED <<requestVars, storeVars>>
      PROVE  StorageInv'
  <2>1. OwnReads'
    BY <1>0, <1>4 DEF StoreInv, OwnReads, storeVars
  <2> QED
    BY <1>4, <2>1, ReadingKeeps DEF requestVars, storeVars
<1> QED
  BY <1>1, <1>2, <1>3, <1>4 DEF StorageNext, storageVars, InstantPasses

\* The tenants that share the bucket, the collections and the tables never meet in them,
\* whatever their requests, the threads these leave behind and the signed URLs that outlive
\* them do in whatever order: for any tenants, requests, tokens and records.
THEOREM StoresKeptApart == StorageSpec => []StorageKeptApart
<1>1. StorageInv => StorageKeptApart
  <2> SUFFICES ASSUME StorageInv PROVE StorageKeptApart
    OBVIOUS
  <2>1. OwnReads /\ OwnStores
    BY DEF StorageInv, OwnStores, ObjectsOwn, VectorsOwn, RequestsKeepTo
  <2>2. RefusalsOnRecord /\ FailedLeavesNoRow
    BY DEF StorageInv, RefusalsOnRecord, RefusalsEnd, FailedLeavesNoRow, RowsOfEnded
  <2> QED
    BY <2>1, <2>2 DEF StorageKeptApart
<1> QED
  BY <1>1, StorageInitially, StorageStep, PTL DEF StorageSpec

----------------------------------------------------------------------------
\* Events find their consumers. First, what matching means.

\* A piece of a key, from cut[i - 1] on, for the i-th part of a binding.
Piece(binding, key, cut, i) ==
    IF binding[i] = "#" THEN cut[i] >= cut[i - 1]
    ELSE cut[i] = cut[i - 1] + 1 /\ binding[i] \in {"*", key[cut[i]]}

\* The key from its j-th segment on, cut for the parts from the i-th on.
CutFrom(binding, key, i, j) ==
    \E cut \in [0 .. Len(binding) -> 0 .. Len(key)] :
        /\ cut[i - 1] = j - 1 /\ cut[Len(binding)] = Len(key)
        /\ \A l \in i .. Len(binding) : Piece(binding, key, cut, l)

LEMMA CutOnce ==
    ASSUME NEW binding, NEW key, NEW m \in Nat, NEW n \in Nat, m = Len(binding), n = Len(key),
           NEW i \in 1 .. m, NEW j \in 1 .. n + 1
    PROVE  CutFrom(binding, key, i, j) <=>
               IF binding[i] = "#" THEN \E k \in j .. n + 1 : CutFrom(binding, key, i + 1, k)
               ELSE j <= n /\ binding[i] \in {"*", key[j]} /\ CutFrom(binding, key, i + 1, j + 1)
<1>0. i - 1 \in 0 .. m /\ i \in 0 .. m /\ (i + 1) - 1 = i /\ i # i - 1 /\ j - 1 \in 0 .. n
  OBVIOUS
<1>1. ASSUME CutFrom(binding, key, i, j)
      PROVE  IF binding[i] = "#" THEN \E k \in j .. n + 1 : CutFrom(binding, key, i + 1, k)
             ELSE j <= n /\ binding[i] \in {"*", key[j]} /\ CutFrom(binding, key, i + 1, j + 1)
  <2>1. PICK cut \in [0 .. m -> 0 .. n] :
            /\ cut[i - 1] = j - 1 /\ cut[m] = n
            /\ \A l \in i .. m : Piece(binding, key, cut, l)
    BY <1>1 DEF CutFrom
  <2>2. Piece(binding, key, cut, i) /\ \A l \in i + 1 .. m : Piece(binding, key, cut, l)
    BY <2>1
  <2>3. cut[i] \in 0 .. n
    BY <1>0
  <2> DEFINE k == cut[i] + 1
  <2>4. k \in 1 .. n + 1 /\ k - 1 = cut[i]
    BY <2>3
  <2> HIDE DEF k
  <2>5. CutFrom(binding, key, i + 1, k)
    BY <1>0, <2>1, <2>2, <2>4 DEF CutFrom
  <2>6. CASE binding[i] = "#"
    <3>1. k \in j .. n + 1
      BY <2>1, <2>2, <2>3, <2>4, <2>6 DEF Piece
    <3> QED
      BY <2>5, <2>6, <3>1
  <2>7. CASE binding[i] # "#"
    <3>1. cut[i] = j /\ k = j + 1 /\ binding[i] \in {"*", key[j]}
      BY <2>1, <2>2, <2>3, <2>4, <2>7 DEF Piece
    <3> QED
      BY <2>3, <2>5, <2>7, <3>1
  <2> QED
    BY <2>6, <2>7
<1>2. ASSUME NEW k \in j .. n + 1, CutFrom(binding, key, i + 1, k),
             IF binding[i] = "#" THEN TRUE
             ELSE j <= n /\ k = j + 1 /\ binding[i] \in {"*", key[j]}
      PROVE  CutFrom(binding, key, i, j)
  <2>1. PICK cut \in [0 .. m -> 0 .. n] :
            /\ cut[(i + 1) - 1] = k - 1 /\ cut[m] = n
            /\ \A l \in i + 1 .. m : Piece(binding, key, cut, l)
    BY <1>2 DEF CutFrom
  <2>2. cut[i] = k - 1
    BY <1>0, <2>1
  <2> DEFINE whole == [cut EXCEPT ![i - 1] = j - 1]
  <2>3. /\ whole \in [0 .. m -> 0 .. n] /\ whole[i - 1] = j - 1
        /\ \A l \in i .. m : whole[l] = cut[l]
    BY <1>0
  <2> HIDE DEF whole
  <2>4. Piece(binding, key, whole, i)
    BY <1>0, <1>2, <2>2, <2>3 DEF Piece
  <2>5. ASSUME NEW l \in i + 1 .. m
        PROVE  Piece(binding, key, whole, l)
    <3>1. l \in i .. m /\ l - 1 \in i .. m
      OBVIOUS
    <3>2. whole[l] = cut[l] /\ whole[l - 1] = cut[l - 1]
      BY <2>3, <3>1
    <3> QED
      BY <2>1, <3>2 DEF Piece
  <2>6. \A l \in i .. m : l = i \/ l \in i + 1 .. m
    OBVIOUS
  <2>7. m \in i .. m
    OBVIOUS
  <2> QED
    BY <2>1, <2>3, <2>4, <2>5, <2>6, <2>7 DEF CutFrom
<1>3. ASSUME binding[i] # "#", j <= n, binding[i] \in {"*", key[j]}, CutFrom(binding, key, i + 1, j + 1)
      PROVE  CutFrom(binding, key, i, j)
  <2>1. j + 1 \in j .. n + 1
    BY <1>3
  <2> QED
    BY <1>2, <1>3, <2>1
<1> QED
  BY <1>1, <1>2, <1>3

\* topic_matches does what the wildcards mean.
LEMMA MatchesAsCovered ==
    ASSUME NEW binding, NEW key, Len(binding) \in Nat, Len(key) \in Nat
    PROVE  TopicMatches(binding, key) <=> Covers(binding, key)
<1> DEFINE m == Len(binding)
           n == Len(key)
           MayStart(f, i) ==
               IF i > m THEN {n + 1}
               ELSE IF binding[i] = "#" THEN {j \in 1 .. n + 1 : \E k \in j .. n + 1 : k \in f[i + 1]}
               ELSE {j \in 1 .. n : binding[i] \in {"*", key[j]} /\ j + 1 \in f[i + 1]}
           Unfolds(f) == f = [i \in 1 .. m + 1 |-> MayStart(f, i)]
           starts == CHOOSE f : Unfolds(f)
           g == [i \in 1 .. m + 1 |-> {j \in 1 .. n + 1 : CutFrom(binding, key, i, j)}]
<1>1. TopicMatches(binding, key) <=> 1 \in starts[1]
  BY DEF TopicMatches
<1>2. \A j \in 1 .. n + 1 : CutFrom(binding, key, m + 1, j) <=> j = n + 1
  <2> TAKE j \in 1 .. n + 1
  <2>1. ASSUME CutFrom(binding, key, m + 1, j) PROVE j = n + 1
    BY <2>1 DEF CutFrom
  <2>2. ASSUME j = n + 1 PROVE CutFrom(binding, key, m + 1, j)
    <3> DEFINE cut == [l \in 0 .. m |-> n]
    <3>1. cut \in [0 .. m -> 0 .. n] /\ cut[(m + 1) - 1] = j - 1 /\ cut[m] = n
      BY <2>2
    <3>2. \A l \in m + 1 .. m : FALSE
      OBVIOUS
    <3> HIDE DEF cut
    <3> QED
      BY <3>1, <3>2 DEF CutFrom
  <2> QED
    BY <2>1, <2>2
<1>3. \A i \in 1 .. m + 1 : g[i] = MayStart(g, i)
  <2> TAKE i \in 1 .. m + 1
  <2>1. CASE i = m + 1
    BY <1>2, <2>1
  <2>2. CASE i # m + 1
    <3>1. i \in 1 .. m /\ i + 1 \in 1 .. m + 1 /\ ~(i > m)
      BY <2>2
    <3>2. \A k \in 1 .. n + 1 : k \in g[i + 1] <=> CutFrom(binding, key, i + 1, k)
      BY <3>1
    <3>3. g[i] \subseteq 1 .. n + 1 /\ MayStart(g, i) \subseteq 1 .. n + 1
      BY <3>1
    <3>4. ASSUME NEW j \in 1 .. n + 1
          PROVE  j \in g[i] <=> j \in MayStart(g, i)
      <4>1. j \in g[i] <=> CutFrom(binding, key, i, j)
        OBVIOUS
      <4> DEFINE Here == IF binding[i] = "#" THEN \E k \in j .. n + 1 : CutFrom(binding, key, i + 1, k)
                         ELSE j <= n /\ binding[i] \in {"*", key[j]} /\ CutFrom(binding, key, i + 1, j + 1)
      <4>2. CutFrom(binding, key, i, j) <=> Here
        BY <3>1, CutOnce
      <4> HIDE DEF g
      <4>3. Here <=> j \in MayStart(g, i)
        <5>1. \A k \in j .. n + 1 : k \in 1 .. n + 1
          OBVIOUS
        <5>2. j <= n => j + 1 \in 1 .. n + 1 /\ j \in 1 .. n
          OBVIOUS
        <5>3. CASE binding[i] = "#"
          BY <3>1, <3>2, <5>1, <5>3
        <5>4. CASE binding[i] # "#"
          BY <3>1, <3>2, <5>2, <5>4
        <5> QED
          BY <5>3, <5>4
      <4> QED
        BY <4>1, <4>2, <4>3
    <3> QED
      BY <3>3, <3>4
  <2> QED
    BY <2>1, <2>2
<1>4. DOMAIN g = 1 .. m + 1 /\ g = [i \in 1 .. m + 1 |-> g[i]]
  OBVIOUS
<1> HIDE DEF g
<1>5. Unfolds(g)
  BY <1>3, <1>4
<1>6. Unfolds(starts)
  BY <1>5
<1> HIDE DEF starts
<1> DEFINE S == {d \in 0 .. m : starts[m + 1 - d] = g[m + 1 - d]}
<1>7. 0 \in S
  <2>1. m + 1 \in 1 .. m + 1 /\ m + 1 > m /\ m + 1 - 0 = m + 1
    OBVIOUS
  <2>2. starts[m + 1] = {n + 1} /\ g[m + 1] = {n + 1}
    BY <1>3, <1>6, <2>1
  <2>3. starts[m + 1 - 0] = g[m + 1 - 0]
    BY <2>1, <2>2
  <2>4. 0 \in 0 .. m
    OBVIOUS
  <2> HIDE DEF MayStart, Unfolds
  <2> QED
    BY <2>3, <2>4
<1>8. ASSUME NEW d \in 0 .. m, d \in S, d < m
      PROVE  d + 1 \in S
  <2> DEFINE i == m + 1 - (d + 1)
  <2>1. i \in 1 .. m + 1 /\ i + 1 = m + 1 - d
    BY <1>8
  <2> HIDE DEF i
  <2>2. starts[i + 1] = g[i + 1]
    BY <1>8, <2>1
  <2>3. starts[i] = MayStart(starts, i) /\ g[i] = MayStart(g, i)
    BY <1>3, <1>6, <2>1
  <2>4. starts[i] = g[i]
    BY <2>2, <2>3
  <2> QED
    BY <1>8, <2>4 DEF i
<1> HIDE DEF S
<1>9. 0 .. m \subseteq S
  BY <1>7, <1>8, CountedUp
<1>10. starts[1] = g[1]
  <2>1. m \in 0 .. m /\ m + 1 - m = 1
    OBVIOUS
  <2> QED
    BY <1>9, <2>1 DEF S
<1>11. 1 \in g[1] <=> CutFrom(binding, key, 1, 1)
  BY DEF g
<1>12. CutFrom(binding, key, 1, 1) <=> Covers(binding, key)
  BY DEF CutFrom, Covers, Piece
<1> QED
  BY <1>1, <1>10, <1>11, <1>12

\* Then what a consumer picks: the chosen messages, in their order.

\* s holds the chosen ones of ms, in order.
Selected(s, ms, chosen) ==
    \E at \in [DOMAIN s -> chosen] :
        /\ \A l \in DOMAIN s : s[l] = ms[at[l]]
        /\ \A k, l \in DOMAIN s : k < l => at[k] < at[l]
        /\ \A i \in chosen : \E l \in DOMAIN s : at[l] = i

LEMMA SelectedMore ==
    ASSUME NEW E, NEW ms, NEW s \in Seq(E), NEW chosen, chosen \subseteq Nat,
           NEW i \in Nat, ms[i] \in E, \A j \in chosen : j < i, Selected(s, ms, chosen)
    PROVE  Selected(Append(s, ms[i]), ms, chosen \cup {i})
<1> SUFFICES ASSUME NEW t, t = Append(s, ms[i]), NEW n, n = Len(s)
             PROVE  Selected(t, ms, chosen \cup {i})
  OBVIOUS
<1>1. PICK at \in [DOMAIN s -> chosen] :
          /\ \A l \in DOMAIN s : s[l] = ms[at[l]]
          /\ \A k, l \in DOMAIN s : k < l => at[k] < at[l]
          /\ \A j \in chosen : \E l \in DOMAIN s : at[l] = j
  BY DEF Selected
<1>2. /\ n \in Nat /\ DOMAIN s = 1 .. n /\ DOMAIN t = 1 .. n + 1 /\ t[n + 1] = ms[i]
      /\ \A l \in 1 .. n : t[l] = s[l]
  OBVIOUS
<1> DEFINE more == [l \in 1 .. n + 1 |-> IF l = n + 1 THEN i ELSE at[l]]
<1>3. \A l \in 1 .. n + 1 : l # n + 1 => l \in 1 .. n
  BY <1>2
<1>4. more[n + 1] = i /\ \A l \in 1 .. n : more[l] = at[l]
  BY <1>2
<1>5. more \in [DOMAIN t -> chosen \cup {i}]
  BY <1>1, <1>2, <1>3
<1> HIDE DEF more
<1>6. \A l \in DOMAIN t : t[l] = ms[more[l]]
  BY <1>1, <1>2, <1>3, <1>4
<1>7. ASSUME NEW k \in DOMAIN t, NEW l \in DOMAIN t, k < l
      PROVE  more[k] < more[l]
  <2>1. k \in 1 .. n
    BY <1>2, <1>7
  <2>2. more[k] = at[k] /\ at[k] \in chosen
    BY <1>1, <1>2, <1>4, <2>1
  <2>3. CASE l = n + 1
    BY <1>4, <2>2, <2>3
  <2>4. CASE l # n + 1
    BY <1>1, <1>2, <1>3, <1>4, <1>7, <2>1, <2>2, <2>4
  <2> QED
    BY <2>3, <2>4
<1>8. ASSUME NEW j \in chosen \cup {i}
      PROVE  \E l \in DOMAIN t : more[l] = j
  <2>1. CASE j = i
    BY <1>2, <1>4, <2>1
  <2>2. CASE j \in chosen
    <3>1. PICK l \in DOMAIN s : at[l] = j
      BY <1>1, <2>2
    <3>2. l \in 1 .. n /\ l \in DOMAIN t
      BY <1>2
    <3> QED
      BY <1>4, <3>1, <3>2
  <2> QED
    BY <2>1, <2>2
<1> QED
  BY <1>5, <1>6, <1>7, <1>8 DEF Selected

\* The stages of the selection from ms, up to the n-th message.
Picks(f, E, ms, chosen, n) ==
    /\ f \in [0 .. n -> Seq(E)] /\ f[0] = <<>>
    /\ \A i \in 1 .. n : f[i] = IF i \in chosen THEN Append(f[i - 1], ms[i]) ELSE f[i - 1]

PicksExist(E, ms, chosen, n) == \E f : Picks(f, E, ms, chosen, n)

LEMMA PicksExistForAll ==
    ASSUME NEW E, NEW ms \in Seq(E), NEW chosen
    PROVE  PicksExist(E, ms, chosen, Len(ms))
<1> DEFINE S == {n \in 0 .. Len(ms) : PicksExist(E, ms, chosen, n)}
<1>0. Len(ms) \in Nat /\ \A i \in 1 .. Len(ms) : ms[i] \in E
  OBVIOUS
<1>1. 0 \in S
  <2> DEFINE f == [i \in 0 .. 0 |-> <<>>]
  <2>1. f \in [0 .. 0 -> Seq(E)] /\ f[0] = <<>>
    OBVIOUS
  <2> HIDE DEF f
  <2>2. Picks(f, E, ms, chosen, 0)
    BY <2>1 DEF Picks
  <2> QED
    BY <1>0, <2>2 DEF PicksExist
<1>2. ASSUME NEW n \in 0 .. Len(ms), n \in S, n < Len(ms)
      PROVE  n + 1 \in S
  <2>1. PICK g : Picks(g, E, ms, chosen, n)
    BY <1>2 DEF PicksExist
  <2> DEFINE last == IF n + 1 \in chosen THEN Append(g[n], ms[n + 1]) ELSE g[n]
             f == [i \in 0 .. n + 1 |-> IF i = n + 1 THEN last ELSE g[i]]
  <2>2. n \in 0 .. n /\ g[n] \in Seq(E) /\ ms[n + 1] \in E
    BY <1>0, <1>2, <2>1 DEF Picks
  <2>3. last \in Seq(E)
    BY <2>2
  <2> HIDE DEF last
  <2>4. f \in [0 .. n + 1 -> Seq(E)] /\ f[0] = <<>>
    BY <1>2, <2>1, <2>3 DEF Picks
  <2>5. ASSUME NEW i \in 1 .. n + 1
        PROVE  f[i] = IF i \in chosen THEN Append(f[i - 1], ms[i]) ELSE f[i - 1]
    <3>1. CASE i = n + 1
      <4>1. i \in 0 .. n + 1 /\ i - 1 \in 0 .. n + 1 /\ i - 1 = n /\ i - 1 # n + 1
        BY <1>2, <3>1
      <4> QED
        BY <3>1, <4>1 DEF last
    <3>2. CASE i # n + 1
      <4>1. i \in 1 .. n /\ i \in 0 .. n + 1 /\ i - 1 \in 0 .. n + 1 /\ i - 1 # n + 1
        BY <1>2, <3>2
      <4>2. g[i] = IF i \in chosen THEN Append(g[i - 1], ms[i]) ELSE g[i - 1]
        BY <2>1, <4>1 DEF Picks
      <4> QED
        BY <3>2, <4>1, <4>2
    <3> QED
      BY <3>1, <3>2
  <2> HIDE DEF f
  <2>6. Picks(f, E, ms, chosen, n + 1)
    BY <2>4, <2>5 DEF Picks
  <2> QED
    BY <1>0, <1>2, <2>6 DEF PicksExist
<1> HIDE DEF S
<1>3. 0 .. Len(ms) \subseteq S
  BY <1>0, <1>1, <1>2, CountedUp
<1> QED
  BY <1>0, <1>3 DEF S

LEMMA PickedInOrder ==
    ASSUME NEW E, messages \in Seq(E), NEW chosen, chosen \subseteq DOMAIN messages
    PROVE  Picked(chosen) \in Seq(E) /\ Selected(Picked(chosen), messages, chosen)
<1> DEFINE n == Len(messages)
           Unfolds(f) == f = [i \in 0 .. n |->
               IF i = 0 THEN <<>>
               ELSE IF i \in chosen THEN Append(f[i - 1], messages[i]) ELSE f[i - 1]]
           pick == CHOOSE f : Unfolds(f)
<1>0. n \in Nat /\ DOMAIN messages = 1 .. n /\ \A i \in 1 .. n : messages[i] \in E
  OBVIOUS
<1>1. Picked(chosen) = pick[n]
  BY DEF Picked
<1>2. PICK g : Picks(g, E, messages, chosen, n)
  BY PicksExistForAll DEF PicksExist
<1>3. g = [i \in 0 .. n |-> g[i]]
  BY <1>2 DEF Picks
<1>4. \A i \in 0 .. n : g[i] = IF i = 0 THEN <<>>
                               ELSE IF i \in chosen THEN Append(g[i - 1], messages[i]) ELSE g[i - 1]
  <2> TAKE i \in 0 .. n
  <2>1. CASE i = 0
    BY <1>2, <2>1 DEF Picks
  <2>2. CASE i # 0
    <3>1. i \in 1 .. n
      BY <1>0, <2>2
    <3> QED
      BY <1>2, <2>2, <3>1 DEF Picks
  <2> QED
    BY <2>1, <2>2
<1>5. Unfolds(g)
  BY <1>3, <1>4
<1>6. Unfolds(pick)
  BY <1>5
<1> HIDE DEF pick
<1> DEFINE S == {i \in 0 .. n : pick[i] \in Seq(E) /\ Selected(pick[i], messages, {j \in chosen : j <= i})}
<1>7. 0 \in S
  <2>1. pick[0] = <<>>
    BY <1>0, <1>6
  <2>2. {j \in chosen : j <= 0} = {}
    BY <1>0
  <2>3. Selected(<<>>, messages, {})
    <3> DEFINE at == [l \in {} |-> l]
    <3>1. at \in [DOMAIN <<>> -> {}]
      OBVIOUS
    <3> QED
      BY <3>1 DEF Selected
  <2>4. 0 \in 0 .. n /\ <<>> \in Seq(E)
    BY <1>0
  <2> QED
    BY <2>1, <2>2, <2>3, <2>4
<1>8. ASSUME NEW i \in 0 .. n, i \in S, i < n
      PROVE  i + 1 \in S
  <2>1. i + 1 \in 1 .. n /\ i + 1 \in 0 .. n /\ i + 1 - 1 = i /\ i + 1 # 0 /\ i + 1 \in Nat /\ i \in Nat
    BY <1>0, <1>8
  <2>2. pick[i + 1] = IF i + 1 \in chosen THEN Append(pick[i], messages[i + 1]) ELSE pick[i]
    <3>1. \A l \in 0 .. n : l # 0 =>
              pick[l] = IF l \in chosen THEN Append(pick[l - 1], messages[l]) ELSE pick[l - 1]
      BY <1>6
    <3> QED
      BY <2>1, <3>1
  <2> DEFINE before == {j \in chosen : j <= i}
             now == {j \in chosen : j <= i + 1}
  <2>3. before \subseteq Nat /\ \A j \in before : j < i + 1
    BY <1>0, <2>1
  <2>4. pick[i] \in Seq(E) /\ Selected(pick[i], messages, before) /\ messages[i + 1] \in E
    BY <1>0, <1>8, <2>1
  <2>5. now = IF i + 1 \in chosen THEN before \cup {i + 1} ELSE before
    BY <1>0, <2>1
  <2> HIDE DEF before, now
  <2>6. CASE i + 1 \in chosen
    <3>1. Selected(Append(pick[i], messages[i + 1]), messages, before \cup {i + 1})
      BY <2>1, <2>3, <2>4, SelectedMore
    <3>2. Selected(pick[i + 1], messages, now) /\ pick[i + 1] \in Seq(E)
      BY <2>2, <2>4, <2>5, <2>6, <3>1
    <3> QED
      BY <2>1, <3>2 DEF now
  <2>7. CASE i + 1 \notin chosen
    <3>1. Selected(pick[i + 1], messages, now) /\ pick[i + 1] \in Seq(E)
      BY <2>2, <2>4, <2>5, <2>7
    <3> QED
      BY <2>1, <3>1 DEF now
  <2> QED
    BY <2>6, <2>7
<1> HIDE DEF S
<1>9. 0 .. n \subseteq S
  BY <1>0, <1>7, <1>8, CountedUp
<1>10. pick[n] \in Seq(E) /\ Selected(pick[n], messages, {j \in chosen : j <= n})
  <2>1. n \in S
    BY <1>0, <1>9
  <2> QED
    BY <2>1 DEF S
<1>11. {j \in chosen : j <= n} = chosen
  BY <1>0
<1> QED
  BY <1>1, <1>10, <1>11

\* And where an envelope is.

Envelopes == {e \in [event_id : Nat, tenant : TopicTenants, type : EventTypes] : WellFormed(e)}

Matches(b, e) == TopicMatches(b, RoutingKey(e))

\* In the order of publication, among the first n.
Ascends(s, n) ==
    /\ \A i \in DOMAIN s : s[i].event_id \in 1 .. n
    /\ \A i, j \in DOMAIN s : i < j => s[i].event_id < s[j].event_id

\* In memory an envelope waits or has arrived at one consumer, and what waits for a
\* consumer is newer than what it has got.
InOnePlace(ms, ar, n) ==
    /\ \A b, c \in Bindings : \A i \in DOMAIN ar[b], j \in DOMAIN ar[c] :
          ar[b][i].event_id = ar[c][j].event_id => b = c
    /\ \A b \in Bindings : \A i \in DOMAIN ar[b], j \in DOMAIN ms :
          /\ ar[b][i].event_id # ms[j].event_id
          /\ Matches(b, ms[j]) => ar[b][i].event_id < ms[j].event_id
    /\ \A id \in 1 .. n : \/ \E j \in DOMAIN ms : ms[j].event_id = id
                          \/ \E b \in Bindings : \E i \in DOMAIN ar[b] : ar[b][i].event_id = id

\* In RabbitMQ a queue has what was published for it since it was declared.
InEachQueue(ar, declared, qs, es) ==
    \A b \in Bindings : \A n \in DOMAIN es :
        qs[b] /\ n > declared[b] /\ Matches(b, es[n]) =>
            \E i \in DOMAIN ar[b] : ar[b][i].event_id = n

Delivered(ms, ar, n) ==
    /\ ms \in Seq(Envelopes) /\ ar \in [Bindings -> Seq(Envelopes)]
    /\ Ascends(ms, n)
    /\ \A b \in Bindings : Ascends(ar[b], n) /\ \A i \in DOMAIN ar[b] : Matches(b, ar[b][i])

TopicsInv ==
    /\ transport \in {"memory", "rabbitmq"} /\ queues \in [Bindings -> BOOLEAN]
    /\ sent \in Seq(Envelopes) /\ Len(sent) <= MaxEnvelopes
    /\ \A n \in DOMAIN sent : sent[n].event_id = n
    /\ declaredAt \in [Bindings -> 0 .. Len(sent)]
    /\ Delivered(messages, arrived, Len(sent))
    /\ IF transport = "memory" THEN InOnePlace(messages, arrived, Len(sent))
                               ELSE InEachQueue(arrived, declaredAt, queues, sent)

LEMMA TopicsInitially == TopicsInit => TopicsInv
<1> SUFFICES ASSUME TopicsInit PROVE TopicsInv
  OBVIOUS
<1>1. Delivered(messages, arrived, Len(sent))
  BY DEF TopicsInit, Delivered, Ascends
<1>2. InOnePlace(messages, arrived, Len(sent)) /\ InEachQueue(arrived, declaredAt, queues, sent)
  BY DEF TopicsInit, InOnePlace, InEachQueue
<1> QED
  BY <1>1, <1>2, TopicsAssumption DEF TopicsInit, TopicsInv

LEMMA AscendsAppended ==
    ASSUME NEW s \in Seq(Envelopes), NEW n \in Nat, Ascends(s, n), NEW e, e.event_id = n + 1
    PROVE  Ascends(Append(s, e), n + 1) /\ Ascends(s, n + 1)
<1> SUFFICES ASSUME NEW t, t = Append(s, e), NEW k, k = Len(s)
             PROVE  Ascends(t, n + 1) /\ Ascends(s, n + 1)
  OBVIOUS
<1>1. /\ k \in Nat /\ DOMAIN s = 1 .. k /\ DOMAIN t = 1 .. k + 1 /\ t[k + 1] = e
      /\ \A i \in 1 .. k : t[i] = s[i]
      /\ \A i \in 1 .. k + 1 : i = k + 1 \/ i \in 1 .. k
  OBVIOUS
<1> QED
  BY <1>1 DEF Ascends

\* What is selected ascends, and so do two that follow each other.
LEMMA AscendsSelected ==
    ASSUME NEW ms, NEW s, NEW chosen, NEW n, chosen \subseteq DOMAIN ms, Ascends(ms, n),
           Selected(s, ms, chosen)
    PROVE  Ascends(s, n)
BY DEF Ascends, Selected

LEMMA AscendsJoined ==
    ASSUME NEW a \in Seq(Envelopes), NEW s \in Seq(Envelopes), NEW n, Ascends(a, n), Ascends(s, n),
           \A i \in DOMAIN a, j \in DOMAIN s : a[i].event_id < s[j].event_id
    PROVE  Ascends(a \o s, n)
<1> SUFFICES ASSUME NEW t, t = a \o s, NEW k, k = Len(a), NEW l, l = Len(s)
             PROVE  Ascends(t, n)
  OBVIOUS
<1>1. /\ k \in Nat /\ l \in Nat /\ DOMAIN a = 1 .. k /\ DOMAIN s = 1 .. l /\ DOMAIN t = 1 .. k + l
      /\ \A i \in 1 .. k : t[i] = a[i]
      /\ \A i \in k + 1 .. k + l : i - k \in 1 .. l /\ t[i] = s[i - k]
      /\ \A i \in 1 .. k + l : i \in 1 .. k \/ i \in k + 1 .. k + l
  OBVIOUS
<1>2. \A i \in DOMAIN t : t[i].event_id \in 1 .. n
  BY <1>1 DEF Ascends
<1>3. ASSUME NEW i \in DOMAIN t, NEW j \in DOMAIN t, i < j
      PROVE  t[i].event_id < t[j].event_id
  <2>1. CASE i \in 1 .. k /\ j \in 1 .. k
    BY <1>1, <1>3, <2>1 DEF Ascends
  <2>2. CASE i \in 1 .. k /\ j \in k + 1 .. k + l
    BY <1>1, <2>2
  <2>3. CASE i \in k + 1 .. k + l /\ j \in k + 1 .. k + l
    <3>1. i - k < j - k
      BY <1>1, <1>3
    <3> QED
      BY <1>1, <2>3, <3>1 DEF Ascends
  <2>4. ~(i \in k + 1 .. k + l /\ j \in 1 .. k)
    BY <1>1, <1>3
  <2> QED
    BY <1>1, <2>1, <2>2, <2>3, <2>4
<1> QED
  BY <1>2, <1>3 DEF Ascends

LEMMA PublishedIsEnvelope ==
    ASSUME TopicsInv, NEW tenant \in TopicTenants, NEW type \in EventTypes,
           NEW e, e = Envelope(tenant, type), Published(e)
    PROVE  /\ e \in Envelopes /\ e.event_id = Len(sent) + 1 /\ Len(sent) \in Nat
           /\ sent' \in Seq(Envelopes) /\ Len(sent') = Len(sent) + 1 /\ Len(sent') <= MaxEnvelopes
           /\ sent'[Len(sent) + 1] = e /\ \A n \in DOMAIN sent : sent'[n] = sent[n]
           /\ DOMAIN sent' = DOMAIN sent \cup {Len(sent) + 1}
           /\ \A n \in DOMAIN sent' : sent'[n].event_id = n
<1>1. sent \in Seq(Envelopes) /\ Len(sent) \in Nat /\ MaxEnvelopes \in Nat
  BY TopicsAssumption DEF TopicsInv
<1>2. e \in Envelopes /\ e.event_id = Len(sent) + 1
  BY <1>1 DEF Envelopes, Envelope, Published
<1> SUFFICES ASSUME NEW k, k = Len(sent)
             PROVE  /\ sent' \in Seq(Envelopes) /\ Len(sent') = k + 1 /\ Len(sent') <= MaxEnvelopes
                    /\ sent'[k + 1] = e /\ \A n \in DOMAIN sent : sent'[n] = sent[n]
                    /\ DOMAIN sent' = DOMAIN sent \cup {k + 1}
                    /\ \A n \in DOMAIN sent' : sent'[n].event_id = n
  BY <1>1, <1>2
<1>3. /\ sent' \in Seq(Envelopes) /\ Len(sent') = k + 1 /\ Len(sent') <= MaxEnvelopes
      /\ sent'[k + 1] = e /\ \A n \in DOMAIN sent : sent'[n] = sent[n]
      /\ DOMAIN sent' = 1 .. k + 1 /\ DOMAIN sent = 1 .. k
  BY <1>1, <1>2 DEF Published
<1>4. 1 .. k + 1 = 1 .. k \cup {k + 1}
  BY <1>1
<1>5. \A n \in DOMAIN sent : sent[n].event_id = n
  BY DEF TopicsInv
<1> QED
  BY <1>2, <1>3, <1>4, <1>5

LEMMA PublishInMemoryKeeps ==
    ASSUME TopicsInv, NEW tenant \in TopicTenants, NEW type \in EventTypes,
           PublishInMemory(Envelope(tenant, type))
    PROVE  TopicsInv'
<1> SUFFICES ASSUME NEW e, e = Envelope(tenant, type), NEW n, n = Len(sent)
             PROVE  TopicsInv'
  OBVIOUS
<1>1. /\ transport = "memory" /\ Published(e) /\ messages' = Append(messages, e)
      /\ UNCHANGED <<transport, queues, arrived, declaredAt>>
  BY DEF PublishInMemory
<1>2. /\ e \in Envelopes /\ e.event_id = n + 1 /\ n \in Nat
      /\ sent' \in Seq(Envelopes) /\ Len(sent') = n + 1 /\ Len(sent') <= MaxEnvelopes
      /\ \A k \in DOMAIN sent' : sent'[k].event_id = k
  BY <1>1, PublishedIsEnvelope
<1>3. Delivered(messages, arrived, n) /\ InOnePlace(messages, arrived, n)
  BY <1>1 DEF TopicsInv
<1>4. declaredAt' \in [Bindings -> 0 .. n + 1]
  BY <1>1, <1>2 DEF TopicsInv
<1> DEFINE k == Len(messages)
<1>5. /\ k \in Nat /\ DOMAIN messages = 1 .. k /\ DOMAIN messages' = 1 .. k + 1
      /\ messages' \in Seq(Envelopes) /\ messages'[k + 1] = e
      /\ \A j \in 1 .. k : messages'[j] = messages[j]
      /\ \A j \in 1 .. k + 1 : j = k + 1 \/ j \in 1 .. k
      /\ k + 1 \in 1 .. k + 1 /\ \A j \in 1 .. k : j \in 1 .. k + 1
  BY <1>1, <1>2, <1>3 DEF Delivered
<1> HIDE DEF k
<1>6. Delivered(messages', arrived', n + 1)
  <2>1. Ascends(messages', n + 1)
    BY <1>1, <1>2, <1>3, AscendsAppended DEF Delivered
  <2>2. ASSUME NEW b \in Bindings
        PROVE  Ascends(arrived[b], n + 1)
    BY <1>2, <1>3 DEF Delivered, Ascends
  <2> QED
    BY <1>1, <1>3, <1>5, <2>1, <2>2 DEF Delivered
<1>7. InOnePlace(messages', arrived', n + 1)
  <2>1. \A b \in Bindings : \A i \in DOMAIN arrived[b] : arrived[b][i].event_id \in 1 .. n
    BY <1>3 DEF Delivered, Ascends
  <2>2. ASSUME NEW b \in Bindings, NEW i \in DOMAIN arrived[b], NEW j \in DOMAIN messages'
        PROVE  /\ arrived[b][i].event_id # messages'[j].event_id
               /\ Matches(b, messages'[j]) => arrived[b][i].event_id < messages'[j].event_id
    <3>1. CASE j = k + 1
      BY <1>2, <1>5, <2>1, <3>1
    <3>2. CASE j \in 1 .. k
      BY <1>3, <1>5, <3>2 DEF InOnePlace
    <3> QED
      BY <1>5, <3>1, <3>2
  <2>3. ASSUME NEW id \in 1 .. n + 1
        PROVE  \/ \E j \in DOMAIN messages' : messages'[j].event_id = id
               \/ \E b \in Bindings : \E i \in DOMAIN arrived[b] : arrived[b][i].event_id = id
    <3>1. CASE id = n + 1
      BY <1>2, <1>5, <3>1
    <3>2. CASE id # n + 1
      <4>1. id \in 1 .. n
        BY <1>2, <3>2
      <4> QED
        BY <1>3, <1>5, <4>1 DEF InOnePlace
    <3> QED
      BY <3>1, <3>2
  <2> QED
    BY <1>1, <1>3, <2>2, <2>3 DEF InOnePlace
<1> QED
  BY <1>1, <1>2, <1>4, <1>6, <1>7 DEF TopicsInv

LEMMA PublishToExchangeKeeps ==
    ASSUME TopicsInv, NEW tenant \in TopicTenants, NEW type \in EventTypes,
           PublishToExchange(Envelope(tenant, type))
    PROVE  TopicsInv'
<1> SUFFICES ASSUME NEW e, e = Envelope(tenant, type), NEW n, n = Len(sent)
             PROVE  TopicsInv'
  OBVIOUS
<1>1. /\ transport = "rabbitmq" /\ Published(e)
      /\ arrived' = [b \in Bindings |-> IF queues[b] /\ Matches(b, e) THEN Append(arrived[b], e)
                                        ELSE arrived[b]]
      /\ UNCHANGED <<transport, messages, queues, declaredAt>>
  BY DEF PublishToExchange, Matches
<1>2. /\ e \in Envelopes /\ e.event_id = n + 1 /\ n \in Nat
      /\ sent' \in Seq(Envelopes) /\ Len(sent') = n + 1 /\ Len(sent') <= MaxEnvelopes
      /\ sent'[n + 1] = e /\ \A k \in DOMAIN sent : sent'[k] = sent[k]
      /\ DOMAIN sent' = DOMAIN sent \cup {n + 1}
      /\ \A k \in DOMAIN sent' : sent'[k].event_id = k
  BY <1>1, PublishedIsEnvelope
<1>3. Delivered(messages, arrived, n) /\ InEachQueue(arrived, declaredAt, queues, sent)
  BY <1>1 DEF TopicsInv
<1>4. declaredAt \in [Bindings -> 0 .. n] /\ declaredAt' \in [Bindings -> 0 .. n + 1]
  BY <1>1, <1>2 DEF TopicsInv
<1>5. ASSUME NEW b \in Bindings
      PROVE  /\ arrived'[b] \in Seq(Envelopes) /\ Ascends(arrived'[b], n + 1)
             /\ \A i \in DOMAIN arrived'[b] : Matches(b, arrived'[b][i])
             /\ \A i \in DOMAIN arrived[b] : /\ i \in DOMAIN arrived'[b]
                                             /\ arrived'[b][i] = arrived[b][i]
             /\ queues[b] /\ Matches(b, e) =>
                    \E i \in DOMAIN arrived'[b] : arrived'[b][i].event_id = n + 1
  <2> SUFFICES ASSUME NEW s, s = arrived[b], NEW t, t = arrived'[b]
               PROVE  /\ t \in Seq(Envelopes) /\ Ascends(t, n + 1)
                      /\ \A i \in DOMAIN t : Matches(b, t[i])
                      /\ \A i \in DOMAIN s : i \in DOMAIN t /\ t[i] = s[i]
                      /\ queues[b] /\ Matches(b, e) => \E i \in DOMAIN t : t[i].event_id = n + 1
    OBVIOUS
  <2>1. /\ s \in Seq(Envelopes) /\ Ascends(s, n) /\ \A i \in DOMAIN s : Matches(b, s[i])
        /\ t = IF queues[b] /\ Matches(b, e) THEN Append(s, e) ELSE s
    BY <1>1, <1>3 DEF Delivered
  <2>2. Ascends(Append(s, e), n + 1) /\ Ascends(s, n + 1)
    BY <1>2, <2>1, AscendsAppended
  <2>3. CASE ~(queues[b] /\ Matches(b, e))
    BY <2>1, <2>2, <2>3
  <2>4. CASE queues[b] /\ Matches(b, e)
    <3>1. PICK k \in Nat : k = Len(s)
      BY <2>1
    <3>2. /\ t \in Seq(Envelopes) /\ DOMAIN t = 1 .. k + 1 /\ DOMAIN s = 1 .. k /\ t[k + 1] = e
          /\ \A i \in 1 .. k : t[i] = s[i]
      BY <1>2, <2>1, <2>4, <3>1
    <3>3. \A i \in 1 .. k + 1 : i = k + 1 \/ i \in 1 .. k
      OBVIOUS
    <3>4. t = Append(s, e) /\ k + 1 \in 1 .. k + 1
      BY <2>1, <2>4
    <3> QED
      BY <1>2, <2>1, <2>2, <2>4, <3>2, <3>3, <3>4
  <2> QED
    BY <2>3, <2>4
<1>6. Delivered(messages', arrived', n + 1)
  <2>1. arrived' \in [Bindings -> Seq(Envelopes)]
    BY <1>1, <1>5
  <2>2. Ascends(messages, n + 1)
    BY <1>2, <1>3 DEF Delivered, Ascends
  <2> QED
    BY <1>1, <1>3, <1>5, <2>1, <2>2 DEF Delivered
<1>7. InEachQueue(arrived', declaredAt', queues', sent')
  <2>1. ASSUME NEW b \in Bindings, NEW k \in DOMAIN sent', queues[b], k > declaredAt[b],
               Matches(b, sent'[k])
        PROVE  \E i \in DOMAIN arrived'[b] : arrived'[b][i].event_id = k
    <3>1. CASE k = n + 1
      BY <1>2, <1>5, <2>1, <3>1
    <3>2. CASE k # n + 1
      <4>1. k \in DOMAIN sent /\ sent'[k] = sent[k]
        BY <1>2, <3>2
      <4>2. PICK i \in DOMAIN arrived[b] : arrived[b][i].event_id = k
        BY <1>3, <2>1, <4>1 DEF InEachQueue
      <4> QED
        BY <1>5, <4>2
    <3> QED
      BY <3>1, <3>2
  <2> QED
    BY <1>1, <2>1 DEF InEachQueue
<1> QED
  BY <1>1, <1>2, <1>4, <1>6, <1>7 DEF TopicsInv

LEMMA SelectedOnly ==
    ASSUME NEW s, NEW ms, NEW chosen, Selected(s, ms, chosen)
    PROVE  /\ \A l \in DOMAIN s : \E i \in chosen : s[l] = ms[i]
           /\ \A i \in chosen : \E l \in DOMAIN s : s[l] = ms[i]
<1>1. PICK at \in [DOMAIN s -> chosen] :
          /\ \A l \in DOMAIN s : s[l] = ms[at[l]]
          /\ \A i \in chosen : \E l \in DOMAIN s : at[l] = i
  BY DEF Selected
<1>2. \A l \in DOMAIN s : at[l] \in chosen
  BY <1>1
<1> QED
  BY <1>1, <1>2

LEMMA ConsumedAreOldest ==
    ASSUME NEW n \in Nat, DOMAIN messages = 1 .. n, NEW b, NEW limit \in Nat
    PROVE  /\ Consumable(b, limit) \subseteq DOMAIN messages
           /\ \A i \in Consumable(b, limit) :
                 /\ Matches(b, messages[i])
                 /\ \A j \in DOMAIN messages :
                       Matches(b, messages[j]) /\ j < i => j \in Consumable(b, limit)
<1> DEFINE matching == {i \in DOMAIN messages : TopicMatches(b, RoutingKey(messages[i]))}
           Older(i) == {j \in matching : j < i}
<1>1. Consumable(b, limit) = {i \in matching : limit = 0 \/ Cardinality(Older(i)) < limit}
  BY DEF Consumable
<1>2. \A i \in DOMAIN messages : i \in matching <=> Matches(b, messages[i])
  BY DEF Matches
<1>3. matching \subseteq 1 .. n /\ matching \subseteq DOMAIN messages
  OBVIOUS
<1> HIDE DEF matching
<1>4. \A i : IsFiniteSet(Older(i)) /\ Cardinality(Older(i)) \in Nat
  <2> TAKE i
  <2>1. Older(i) \subseteq 1 .. n
    BY <1>3
  <2>2. IsFiniteSet(1 .. n)
    BY FS_Interval
  <2>3. IsFiniteSet(Older(i))
    BY <2>1, <2>2, FS_Subset
  <2> QED
    BY <2>3, FS_CardinalityType
<1>5. ASSUME NEW i \in Consumable(b, limit), NEW j \in DOMAIN messages, Matches(b, messages[j]), j < i
      PROVE  j \in Consumable(b, limit)
  <2>1. j \in matching /\ i \in matching /\ (limit = 0 \/ Cardinality(Older(i)) < limit)
    BY <1>1, <1>2, <1>5
  <2>2. ASSUME NEW k \in Older(j)
        PROVE  k \in Older(i)
    <3>1. k \in matching /\ k < j
      OBVIOUS
    <3>2. k \in 1 .. n /\ i \in 1 .. n /\ j \in 1 .. n
      BY <1>3, <2>1, <3>1
    <3>3. k < i
      BY <1>5, <3>1, <3>2
    <3> QED
      BY <3>1, <3>3
  <2>3. Cardinality(Older(j)) <= Cardinality(Older(i))
    <3>1. Older(j) \subseteq Older(i)
      BY <2>2
    <3> QED
      BY <1>4, <3>1, FS_Subset
  <2>4. limit = 0 \/ Cardinality(Older(j)) < limit
    <3> DEFINE p == Cardinality(Older(i))
               q == Cardinality(Older(j))
    <3>1. p \in Nat /\ q \in Nat /\ q <= p /\ (limit = 0 \/ p < limit)
      BY <1>4, <2>1, <2>3
    <3> HIDE DEF p, q
    <3>2. limit = 0 \/ q < limit
      BY <3>1
    <3> QED
      BY <3>2 DEF q
  <2> HIDE DEF Older
  <2> QED
    BY <1>1, <2>1, <2>4
<1> QED
  BY <1>1, <1>2, <1>3, <1>5

\* u has what a has, where a has it, and what s has.
Joins(u, a, s) ==
    /\ u \in Seq(Envelopes)
    /\ \A i \in DOMAIN a : i \in DOMAIN u /\ u[i] = a[i]
    /\ \A i \in DOMAIN u : (i \in DOMAIN a /\ u[i] = a[i]) \/ \E l \in DOMAIN s : u[i] = s[l]
    /\ \A l \in DOMAIN s : \E i \in DOMAIN u : u[i] = s[l]

LEMMA JoinedParts ==
    ASSUME NEW a \in Seq(Envelopes), NEW s \in Seq(Envelopes)
    PROVE  Joins(a \o s, a, s)
<1> SUFFICES ASSUME NEW u, u = a \o s
             PROVE  Joins(u, a, s)
  OBVIOUS
<1>1. PICK p \in Nat, q \in Nat : p = Len(a) /\ q = Len(s)
  OBVIOUS
<1>2. /\ u \in Seq(Envelopes) /\ DOMAIN a = 1 .. p /\ DOMAIN s = 1 .. q /\ DOMAIN u = 1 .. p + q
      /\ \A i \in 1 .. p : u[i] = a[i]
      /\ \A l \in 1 .. q : u[p + l] = s[l]
  BY <1>1
<1>3. \A i \in 1 .. p + q : i \in 1 .. p \/ (i - p \in 1 .. q /\ p + (i - p) = i)
  OBVIOUS
<1>4. \A l \in 1 .. q : p + l \in 1 .. p + q
  OBVIOUS
<1>5. \A i \in 1 .. p : i \in 1 .. p + q
  OBVIOUS
<1>6. ASSUME NEW i \in DOMAIN u
      PROVE  \/ i \in DOMAIN a /\ u[i] = a[i]
             \/ \E l \in DOMAIN s : u[i] = s[l]
  BY <1>2, <1>3
<1> QED
  BY <1>2, <1>4, <1>5, <1>6 DEF Joins

LEMMA ConsumeKeeps ==
    ASSUME TopicsInv, NEW b \in Bindings, NEW limit \in BatchLimits, Consume(b, limit)
    PROVE  TopicsInv'
<1> DEFINE chosen == Consumable(b, limit)
           rest == DOMAIN messages \ chosen
<1> SUFFICES ASSUME NEW n, n = Len(sent), NEW s, s = Picked(chosen), NEW t, t = Picked(rest)
             PROVE  TopicsInv'
  OBVIOUS
<1>1. /\ transport = "memory" /\ messages' = t
      /\ arrived' = [arrived EXCEPT ![b] = @ \o s]
      /\ UNCHANGED <<transport, queues, declaredAt, sent>>
  BY DEF Consume
<1>2. Delivered(messages, arrived, n) /\ InOnePlace(messages, arrived, n)
  BY <1>1 DEF TopicsInv
<1>3. messages \in Seq(Envelopes) /\ Ascends(messages, n) /\ arrived \in [Bindings -> Seq(Envelopes)]
  BY <1>2 DEF Delivered
<1>4. PICK k \in Nat : DOMAIN messages = 1 .. k
  BY <1>3
<1>5. /\ chosen \subseteq DOMAIN messages
      /\ \A i \in chosen : /\ Matches(b, messages[i])
                           /\ \A j \in DOMAIN messages : Matches(b, messages[j]) /\ j < i => j \in chosen
  <2>1. limit \in Nat
    BY TopicsAssumption
  <2> QED
    BY <1>4, <2>1, ConsumedAreOldest
<1>6. rest \subseteq DOMAIN messages
  OBVIOUS
<1>7. s \in Seq(Envelopes) /\ Selected(s, messages, chosen)
  BY <1>3, <1>5, PickedInOrder
<1>8. t \in Seq(Envelopes) /\ Selected(t, messages, rest)
  BY <1>3, <1>6, PickedInOrder
<1>9. \A i \in DOMAIN messages : i \in rest <=> i \notin chosen
  OBVIOUS
<1> HIDE DEF chosen, rest
<1>10. Ascends(s, n) /\ Ascends(t, n)
  BY <1>3, <1>5, <1>6, <1>7, <1>8, AscendsSelected
<1>11. /\ \A l \in DOMAIN s : \E i \in chosen : s[l] = messages[i]
       /\ \A i \in chosen : \E l \in DOMAIN s : s[l] = messages[i]
       /\ \A l \in DOMAIN t : \E i \in rest : t[l] = messages[i]
       /\ \A i \in rest : \E l \in DOMAIN t : t[l] = messages[i]
  <2>1. /\ \A l \in DOMAIN s : \E i \in chosen : s[l] = messages[i]
        /\ \A i \in chosen : \E l \in DOMAIN s : s[l] = messages[i]
    BY ONLY <1>7, SelectedOnly
  <2>2. /\ \A l \in DOMAIN t : \E i \in rest : t[l] = messages[i]
        /\ \A i \in rest : \E l \in DOMAIN t : t[l] = messages[i]
    BY ONLY <1>8, SelectedOnly
  <2> QED
    BY <2>1, <2>2
\* What is taken is newer than what the consumer has.
<1>12. \A i \in DOMAIN arrived[b], j \in chosen : arrived[b][i].event_id < messages[j].event_id
  BY <1>2, <1>5 DEF InOnePlace
<1>13. \A c \in Bindings : c # b => arrived'[c] = arrived[c]
  BY <1>1, <1>3
<1>14. arrived'[b] = arrived[b] \o s
  BY <1>1, <1>3
<1>15. Joins(arrived'[b], arrived[b], s)
  <2>1. arrived[b] \in Seq(Envelopes)
    BY <1>3
  <2>2. Joins(arrived[b] \o s, arrived[b], s)
    BY <1>7, <2>1, JoinedParts
  <2> QED
    BY <1>14, <2>2
<1>16. \A c \in Bindings : \A i \in DOMAIN arrived[c] :
           i \in DOMAIN arrived'[c] /\ arrived'[c][i] = arrived[c][i]
  BY <1>13, <1>15 DEF Joins
<1>17. \A c \in Bindings : \A i \in DOMAIN arrived'[c] :
           \/ i \in DOMAIN arrived[c] /\ arrived'[c][i] = arrived[c][i]
           \/ c = b /\ \E j \in chosen : arrived'[c][i] = messages[j]
  BY <1>11, <1>13, <1>15 DEF Joins
<1>18. \A j \in chosen : \E i \in DOMAIN arrived'[b] : arrived'[b][i] = messages[j]
  BY <1>11, <1>15 DEF Joins
<1>19. Delivered(t, arrived', n)
  <2>1. arrived' \in [Bindings -> Seq(Envelopes)]
    BY <1>1, <1>3, <1>15 DEF Joins
  <2>2. ASSUME NEW c \in Bindings
        PROVE  Ascends(arrived'[c], n)
    <3>1. CASE c = b
      <4>1. \A i \in DOMAIN arrived[b], l \in DOMAIN s : arrived[b][i].event_id < s[l].event_id
        BY <1>11, <1>12
      <4>2. Ascends(arrived[b], n)
        BY <1>2 DEF Delivered
      <4>3. arrived[b] \in Seq(Envelopes)
        BY <1>3
      <4> QED
        BY <1>7, <1>10, <1>14, <3>1, <4>1, <4>2, <4>3, AscendsJoined
    <3>2. CASE c # b
      BY <1>2, <1>13, <3>2 DEF Delivered
    <3> QED
      BY <3>1, <3>2
  <2>3. ASSUME NEW c \in Bindings, NEW i \in DOMAIN arrived'[c]
        PROVE  Matches(c, arrived'[c][i])
    BY <1>2, <1>5, <1>17 DEF Delivered
  <2> QED
    BY <1>8, <1>10, <2>1, <2>2, <2>3 DEF Delivered
<1>20. InOnePlace(t, arrived', n)
  <2>1. ASSUME NEW c \in Bindings, NEW d \in Bindings, NEW i \in DOMAIN arrived'[c],
               NEW j \in DOMAIN arrived'[d], arrived'[c][i].event_id = arrived'[d][j].event_id
        PROVE  c = d
    BY <1>2, <1>5, <1>17, <2>1 DEF InOnePlace
  <2>2. ASSUME NEW c \in Bindings, NEW i \in DOMAIN arrived'[c], NEW l \in DOMAIN t
        PROVE  /\ arrived'[c][i].event_id # t[l].event_id
               /\ Matches(c, t[l]) => arrived'[c][i].event_id < t[l].event_id
    <3>1. PICK r \in rest : t[l] = messages[r]
      BY <1>11
    <3>2. r \in DOMAIN messages /\ r \notin chosen
      BY <1>6, <1>9, <3>1
    <3>3. CASE i \in DOMAIN arrived[c] /\ arrived'[c][i] = arrived[c][i]
      BY <1>2, <3>1, <3>2, <3>3 DEF InOnePlace
    <3>4. CASE c = b /\ \E j \in chosen : arrived'[c][i] = messages[j]
      <4>1. PICK j \in chosen : arrived'[b][i] = messages[j]
        BY <3>4
      <4>2. j \in 1 .. k /\ r \in 1 .. k /\ j # r /\ (Matches(b, messages[r]) => j < r)
        BY <1>4, <1>5, <3>2, <4>1
      <4>3. /\ messages[j].event_id \in 1 .. n /\ messages[r].event_id \in 1 .. n
            /\ j < r => messages[j].event_id < messages[r].event_id
            /\ r < j => messages[r].event_id < messages[j].event_id
        BY <1>3, <1>4, <4>2 DEF Ascends
      <4> QED
        BY <3>1, <3>4, <4>1, <4>2, <4>3
    <3> QED
      BY <1>17, <3>3, <3>4
  <2>3. ASSUME NEW id \in 1 .. n
        PROVE  \/ \E j \in DOMAIN t : t[j].event_id = id
               \/ \E c \in Bindings : \E i \in DOMAIN arrived'[c] : arrived'[c][i].event_id = id
    <3>1. CASE \E j \in DOMAIN messages : messages[j].event_id = id
      <4>1. PICK j \in DOMAIN messages : messages[j].event_id = id
        BY <3>1
      <4>2. CASE j \in chosen
        BY <1>18, <4>1, <4>2
      <4>3. CASE j \in rest
        BY <1>11, <4>1, <4>3
      <4> QED
        BY <1>9, <4>2, <4>3
    <3>2. CASE \E c \in Bindings : \E i \in DOMAIN arrived[c] : arrived[c][i].event_id = id
      BY <1>16, <3>2
    <3> QED
      BY <1>2, <3>1, <3>2 DEF InOnePlace
  <2> QED
    BY <2>1, <2>2, <2>3 DEF InOnePlace
<1>21. sent' = sent /\ Len(sent') = n
  BY <1>1
<1> QED
  BY <1>1, <1>19, <1>20, <1>21 DEF TopicsInv

LEMMA DeclareQueueKeeps ==
    ASSUME TopicsInv, NEW b \in Bindings, DeclareQueue(b)
    PROVE  TopicsInv'
<1> SUFFICES ASSUME NEW n, n = Len(sent)
             PROVE  TopicsInv'
  OBVIOUS
<1>1. /\ transport = "rabbitmq" /\ queues' = [queues EXCEPT ![b] = TRUE]
      /\ declaredAt' = [declaredAt EXCEPT ![b] = IF queues[b] THEN @ ELSE n]
      /\ UNCHANGED <<transport, messages, arrived, sent>>
  BY DEF DeclareQueue
<1>2. /\ queues \in [Bindings -> BOOLEAN] /\ declaredAt \in [Bindings -> 0 .. n] /\ n \in Nat
      /\ DOMAIN sent = 1 .. n /\ Delivered(messages, arrived, n)
      /\ InEachQueue(arrived, declaredAt, queues, sent)
  BY <1>1 DEF TopicsInv
<1>3. queues' \in [Bindings -> BOOLEAN] /\ declaredAt' \in [Bindings -> 0 .. n]
  BY <1>1, <1>2
<1>4. InEachQueue(arrived', declaredAt', queues', sent')
  <2>1. ASSUME NEW c \in Bindings, NEW k \in DOMAIN sent, queues'[c], k > declaredAt'[c],
               Matches(c, sent[k])
        PROVE  \E i \in DOMAIN arrived[c] : arrived[c][i].event_id = k
    <3>1. queues[c] /\ declaredAt'[c] = declaredAt[c]
      BY <1>1, <1>2, <2>1
    <3> QED
      BY <1>2, <2>1, <3>1 DEF InEachQueue
  <2> QED
    BY <1>1, <2>1 DEF InEachQueue
<1>5. Delivered(messages', arrived', n) /\ sent' = sent /\ Len(sent') = n
  BY <1>1, <1>2
<1> QED
  BY <1>1, <1>3, <1>4, <1>5 DEF TopicsInv

LEMMA TopicsKept == TopicsInv /\ [TopicsNext]_topicVars => TopicsInv'
<1> SUFFICES ASSUME TopicsInv, [TopicsNext]_topicVars
             PROVE  TopicsInv'
  OBVIOUS
<1>1. CASE TopicsNext
  BY <1>1, PublishInMemoryKeeps, PublishToExchangeKeeps, DeclareQueueKeeps, ConsumeKeeps DEF TopicsNext
<1>2. CASE UNCHANGED topicVars
  BY <1>2 DEF topicVars, TopicsInv
<1> QED
  BY <1>1, <1>2

LEMMA AscendsFast ==
    ASSUME NEW s \in Seq(Envelopes), NEW n \in Nat, Ascends(s, n)
    PROVE  \A i \in DOMAIN s : i <= n
<1>1. PICK k \in Nat : k = Len(s)
  OBVIOUS
<1>2. DOMAIN s = 1 .. k
  BY <1>1
<1> DEFINE S == {i \in 0 .. k : i = 0 \/ s[i].event_id >= i}
<1>3. \A i \in 1 .. k : s[i].event_id \in 1 .. n
  BY <1>2 DEF Ascends
<1>4. 0 \in S
  OBVIOUS
<1>5. ASSUME NEW i \in 0 .. k, i \in S, i < k
      PROVE  i + 1 \in S
  <2>1. i + 1 \in 1 .. k /\ i + 1 \in 0 .. k /\ s[i + 1].event_id \in 1 .. n
    BY <1>3, <1>5
  <2>2. CASE i = 0
    BY <2>1, <2>2
  <2>3. CASE i # 0
    <3>1. i \in 1 .. k /\ i < i + 1 /\ s[i].event_id \in 1 .. n /\ s[i].event_id >= i
      BY <1>3, <1>5, <2>3
    <3>2. s[i].event_id < s[i + 1].event_id
      BY <1>2, <2>1, <3>1 DEF Ascends
    <3> QED
      BY <2>1, <3>1, <3>2
  <2> QED
    BY <2>2, <2>3
<1> HIDE DEF S
<1>6. 0 .. k \subseteq S
  BY <1>4, <1>5, CountedUp
<1>7. ASSUME NEW i \in 1 .. k
      PROVE  i <= n
  <2>1. i \in S /\ i # 0
    BY <1>6
  <2> QED
    BY <1>3, <2>1 DEF S
<1> QED
  BY <1>2, <1>7

LEMMA JoinedTwo ==
    ASSUME NEW E, NEW a \in Seq(E), NEW s \in Seq(E)
    PROVE  /\ a \o s \in Seq(E) /\ Len(a \o s) = Len(a) + Len(s)
           /\ \A i \in 1 .. Len(a) : (a \o s)[i] = a[i]
           /\ \A i \in 1 .. Len(s) : (a \o s)[Len(a) + i] = s[i]
<1>1. PICK p \in Nat, q \in Nat : p = Len(a) /\ q = Len(s)
  OBVIOUS
<1> QED
  BY <1>1

LEMMA RoutingKeyParts ==
    ASSUME NEW e \in Envelopes
    PROVE  /\ Len(RoutingKey(e)) \in Nat /\ Len(RoutingKey(e)) >= 4
           /\ RoutingKey(e)[2] = e.tenant[1] /\ e.tenant = <<e.tenant[1]>>
<1> SUFFICES ASSUME NEW t, t = e.tenant, NEW y, y = e.type, NEW h, h = <<"tenant">>
             PROVE  /\ Len(h \o t \o y) \in Nat /\ Len(h \o t \o y) >= 4
                    /\ (h \o t \o y)[2] = t[1] /\ t = <<t[1]>>
  BY DEF RoutingKey
<1> DEFINE E == STRING \cup {"tenant"}
<1>1. t \in Seq(STRING) /\ y \in Seq(STRING) /\ Len(t) = 1 /\ Len(y) >= 2
  <2>1. t \in TopicTenants /\ y \in EventTypes /\ Len(t) = 1 /\ Len(y) >= 2
    BY DEF Envelopes, WellFormed, IsRoutingSegment, IsEventType
  <2> QED
    BY <2>1, TopicsAssumption
<1>2. t = <<t[1]>>
  BY <1>1
<1>3. t \in Seq(E) /\ y \in Seq(E)
  BY <1>1
<1>4. h \in Seq(E) /\ Len(h) = 1
  OBVIOUS
<1> HIDE DEF E
<1>5. PICK k \in Nat : k = Len(y)
  BY <1>1
<1> DEFINE u == h \o t
           v == u \o y
<1>6. /\ u \in Seq(E) /\ Len(u) = Len(h) + Len(t)
      /\ \A i \in 1 .. Len(t) : u[Len(h) + i] = t[i]
  BY <1>3, <1>4, JoinedTwo
<1> HIDE DEF u
<1>7. Len(u) = 2 /\ u[2] = t[1]
  BY <1>1, <1>4, <1>6
<1>8. /\ v \in Seq(E) /\ Len(v) = Len(u) + Len(y)
      /\ \A i \in 1 .. Len(u) : v[i] = u[i]
  <2>1. u \in Seq(E) /\ y \in Seq(E)
    BY <1>3, <1>6
  <2> QED
    BY ONLY <2>1, JoinedTwo
<1>9. Len(v) = 2 + k /\ v[2] = u[2]
  BY <1>5, <1>7, <1>8
<1> HIDE DEF v
<1>10. Len(v) \in Nat /\ Len(v) >= 4 /\ v[2] = t[1]
  BY <1>1, <1>5, <1>7, <1>9
<1> QED
  BY <1>2, <1>10 DEF u, v

LEMMA CoveredAreMatched ==
    ASSUME NEW b \in Bindings, NEW e \in Envelopes
    PROVE  <<b, RoutingKey(e)>> \in Covered <=> Matches(b, e)
<1> DEFINE K(t, y) == <<"tenant">> \o t \o y
           keys == {K(t, y) : t \in TopicTenants, y \in EventTypes}
<1>1. Len(b) \in Nat /\ Len(RoutingKey(e)) \in Nat
  BY TopicsAssumption, RoutingKeyParts
<1>2. Matches(b, e) <=> Covers(b, RoutingKey(e))
  BY <1>1, MatchesAsCovered DEF Matches
<1>3. RoutingKey(e) \in keys
  <2>1. e.tenant \in TopicTenants /\ e.type \in EventTypes
    BY DEF Envelopes
  <2>2. RoutingKey(e) = K(e.tenant, e.type)
    BY DEF RoutingKey
  <2> HIDE DEF K
  <2> QED
    BY <2>1, <2>2
<1>4. Covered = UNION {{c} \X {k \in keys : Covers(c, k)} : c \in Bindings}
  BY DEF Covered
<1> HIDE DEF keys
<1> SUFFICES ASSUME NEW key, key = RoutingKey(e)
             PROVE  <<b, key>> \in Covered <=> Covers(b, key)
  BY <1>2
<1>5. <<b, key>> \in Covered => Covers(b, key)
  <2>1. ASSUME NEW c \in Bindings, <<b, key>> \in {c} \X {k \in keys : Covers(c, k)}
        PROVE  Covers(b, key)
    BY <2>1
  <2> QED
    BY <1>4, <2>1
<1>6. Covers(b, key) => <<b, key>> \in {b} \X {k \in keys : Covers(b, k)}
  BY <1>3
<1> QED
  BY <1>4, <1>5, <1>6

LEMMA TenantsApart ==
    ASSUME NEW b \in Bindings, NEW e \in Envelopes, Matches(b, e), OfTenant(b)
    PROVE  e.tenant = <<b[2]>>
<1> DEFINE key == RoutingKey(e)
<1>1. Len(b) \in Nat /\ Len(key) \in Nat /\ Len(key) >= 4 /\ key[2] = e.tenant[1]
  <2>1. b \in Seq(STRING)
    BY TopicsAssumption
  <2> QED
    BY <2>1, RoutingKeyParts
<1>2. Covers(b, key)
  BY <1>1, MatchesAsCovered DEF Matches
<1> HIDE DEF key
<1>3. PICK cut \in [0 .. Len(b) -> 0 .. Len(key)] :
          /\ cut[0] = 0
          /\ \A i \in 1 .. Len(b) : IF b[i] = "#" THEN cut[i] >= cut[i - 1]
                                    ELSE cut[i] = cut[i - 1] + 1 /\ b[i] \in {"*", key[cut[i]]}
  BY <1>2 DEF Covers
<1>4. 1 \in 1 .. Len(b) /\ 2 \in 1 .. Len(b) /\ 1 - 1 = 0 /\ 2 - 1 = 1
  BY <1>1 DEF OfTenant
<1>5. b[1] = "tenant" /\ b[2] # "*" /\ b[2] # "#"
  BY DEF OfTenant
<1>6. cut[1] = 1
  BY <1>3, <1>4, <1>5
<1>7. cut[2] = 2 /\ b[2] = key[2]
  BY <1>3, <1>4, <1>5, <1>6
<1> QED
  BY <1>1, <1>7, RoutingKeyParts

LEMMA OneOccurrence ==
    ASSUME TopicsInv, transport = "memory", NEW id \in DOMAIN sent
    PROVE  Occurrences(id) + Cardinality({i \in DOMAIN messages : messages[i].event_id = id}) = 1
<1> DEFINE waiting == {i \in DOMAIN messages : messages[i].event_id = id}
           got == {p \in Bindings \X (1 .. MaxEnvelopes) :
                      p[2] \in DOMAIN arrived[p[1]] /\ arrived[p[1]][p[2]].event_id = id}
<1>1. PICK n \in Nat : n = Len(sent)
  BY DEF TopicsInv
<1>2. n <= MaxEnvelopes /\ id \in 1 .. n /\ MaxEnvelopes \in Nat
  BY <1>1, TopicsAssumption DEF TopicsInv
<1>3. Delivered(messages, arrived, n) /\ InOnePlace(messages, arrived, n)
  BY <1>1 DEF TopicsInv
<1>4. \A i, j \in waiting : i = j
  <2>1. PICK k \in Nat : DOMAIN messages = 1 .. k
    BY <1>3 DEF Delivered
  <2>2. ASSUME NEW i \in waiting, NEW j \in waiting, i # j
        PROVE  FALSE
    <3>1. i < j \/ j < i
      BY <2>1, <2>2
    <3>2. messages[i].event_id \in 1 .. n /\ messages[j].event_id \in 1 .. n
      BY <1>3 DEF Delivered, Ascends
    <3> QED
      BY <1>3, <3>1, <3>2 DEF Delivered, Ascends
  <2> QED
    BY <2>2
<1>5. ASSUME NEW c \in Bindings
      PROVE  /\ \A i \in DOMAIN arrived[c] : i \in 1 .. MaxEnvelopes
             /\ \A i, j \in DOMAIN arrived[c] :
                   arrived[c][i].event_id = arrived[c][j].event_id => i = j
  <2> SUFFICES ASSUME NEW s, s = arrived[c]
               PROVE  /\ \A i \in DOMAIN s : i \in 1 .. MaxEnvelopes
                      /\ \A i, j \in DOMAIN s : s[i].event_id = s[j].event_id => i = j
    OBVIOUS
  <2>1. s \in Seq(Envelopes) /\ Ascends(s, n)
    BY <1>3 DEF Delivered
  <2>2. PICK k \in Nat : DOMAIN s = 1 .. k
    BY <2>1
  <2>3. \A i \in DOMAIN s : i <= n
    BY <2>1, AscendsFast
  <2>4. ASSUME NEW i \in DOMAIN s, NEW j \in DOMAIN s, s[i].event_id = s[j].event_id, i # j
        PROVE  FALSE
    <3>1. i < j \/ j < i
      BY <2>2, <2>4
    <3>2. s[i].event_id \in 1 .. n /\ s[j].event_id \in 1 .. n
      BY <2>1 DEF Ascends
    <3> QED
      BY <2>1, <2>4, <3>1, <3>2 DEF Ascends
  <2> QED
    BY <1>2, <2>2, <2>3, <2>4
<1>6. \A p \in got : /\ p[1] \in Bindings /\ p[2] \in DOMAIN arrived[p[1]] /\ p = <<p[1], p[2]>>
                     /\ arrived[p[1]][p[2]].event_id = id
  OBVIOUS
<1>7. \A c \in Bindings : \A i \in DOMAIN arrived[c] :
          arrived[c][i].event_id = id => <<c, i>> \in got
  BY <1>5
<1>8. Occurrences(id) = Cardinality(got)
  BY DEF Occurrences
<1>9. \A i \in DOMAIN messages : i \in waiting <=> messages[i].event_id = id
  OBVIOUS
<1>10. waiting \subseteq DOMAIN messages
  OBVIOUS
<1> HIDE DEF waiting, got
<1>11. CASE waiting # {}
  <2>1. PICK i \in waiting : TRUE
    BY <1>11
  <2>2. waiting = {i}
    BY <1>4, <2>1
  <2>3. messages[i].event_id = id /\ i \in DOMAIN messages
    BY <1>9, <1>10, <2>1
  <2>4. got = {}
    BY <1>3, <1>6, <2>3 DEF InOnePlace
  <2>5. Cardinality(waiting) = 1 /\ Cardinality(got) = 0
    BY <2>2, <2>4, FS_Singleton, FS_EmptySet
  <2> QED
    BY <1>8, <2>5 DEF waiting
<1>12. CASE waiting = {}
  <2>0. PICK c \in Bindings : \E i \in DOMAIN arrived[c] : arrived[c][i].event_id = id
    BY <1>2, <1>3, <1>9, <1>12 DEF InOnePlace
  <2>1. PICK i \in DOMAIN arrived[c] : arrived[c][i].event_id = id
    BY <2>0
  <2>2. ASSUME NEW p \in got
        PROVE  p = <<c, i>>
    <3>1. p[1] = c
      BY <1>3, <1>6, <2>1 DEF InOnePlace
    <3>2. p[2] = i
      BY <1>5, <1>6, <2>1, <3>1
    <3> QED
      BY <1>6, <3>1, <3>2
  <2>3. got = {<<c, i>>}
    BY <1>7, <2>1, <2>2
  <2>4. Cardinality(waiting) = 0 /\ Cardinality(got) = 1
    BY <1>12, <2>3, FS_Singleton, FS_EmptySet
  <2> QED
    BY <1>8, <2>4 DEF waiting
<1> QED
  BY <1>11, <1>12

LEMMA TopicsFindConsumers == TopicsInv => EventsFindTheirConsumers
<1> SUFFICES ASSUME TopicsInv
             PROVE  EventsFindTheirConsumers
  OBVIOUS
<1>0. Delivered(messages, arrived, Len(sent)) /\ sent \in Seq(Envelopes)
  BY DEF TopicsInv
<1>1. ASSUME NEW b \in Bindings, NEW i \in DOMAIN arrived[b]
      PROVE  /\ <<b, RoutingKey(arrived[b][i])>> \in Covered
             /\ OfTenant(b) => arrived[b][i].tenant = <<b[2]>>
             /\ \A j \in 1 .. i - 1 : arrived[b][j].event_id < arrived[b][i].event_id
  <2> SUFFICES ASSUME NEW s, s = arrived[b]
               PROVE  /\ <<b, RoutingKey(s[i])>> \in Covered
                      /\ OfTenant(b) => s[i].tenant = <<b[2]>>
                      /\ \A j \in 1 .. i - 1 : s[j].event_id < s[i].event_id
    OBVIOUS
  <2>1. s \in Seq(Envelopes) /\ Ascends(s, Len(sent)) /\ Matches(b, s[i]) /\ s[i] \in Envelopes
    BY <1>0 DEF Delivered
  <2>2. \A j \in 1 .. i - 1 : j \in DOMAIN s /\ j < i
    BY <2>1
  <2> QED
    BY <2>1, <2>2, CoveredAreMatched, TenantsApart DEF Ascends
<1>2. ASSUME NEW n \in DOMAIN sent, transport # "memory", NEW b \in Bindings,
             queues[b], n > declaredAt[b], <<b, RoutingKey(sent[n])>> \in Covered
      PROVE  \E i \in DOMAIN arrived[b] : arrived[b][i].event_id = n
  <2>1. sent[n] \in Envelopes
    BY <1>0
  <2>2. Matches(b, sent[n])
    BY <1>2, <2>1, CoveredAreMatched
  <2> QED
    BY <1>2, <2>2 DEF TopicsInv, InEachQueue
<1> QED
  BY <1>1, <1>2, OneOccurrence DEF EventsFindTheirConsumers

\* Every envelope finds the consumers that bound themselves to its kind, in the order
\* of publication, and no others (publish, consume, declare_queue, topic_matches).
THEOREM EventsFound == TopicsSpec => []EventsFindTheirConsumers
<1>1. TopicsInv => EventsFindTheirConsumers
  BY TopicsFindConsumers
<1> QED
  BY <1>1, TopicsInitially, TopicsKept, PTL DEF TopicsSpec
=============================================================================
