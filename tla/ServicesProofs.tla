---------------------------- MODULE ServicesProofs ----------------------------
(***************************************************************************)
(* What the services keep to for every value of their constants: the       *)
(* policy manager, the Council's thresholds with the command centre and    *)
(* the orchestrator, proxy rotation, the Telegram bridge, the requests and *)
(* pages of the cabinet and the content generator. Each has its own        *)
(* specification; where two share variables, the theorem is about both.    *)
(***************************************************************************)
EXTENDS MCServices, FiniteSetTheorems, WellFoundedInduction, TLAPS

\* A sequence with one more element.
LEMMA OneMore ==
    ASSUME NEW S, NEW s \in Seq(S), NEW e \in S
    PROVE  /\ Append(s, e) \in Seq(S)
           /\ Len(s) \in Nat /\ DOMAIN s = 1 .. Len(s)
           /\ Len(Append(s, e)) = Len(s) + 1
           /\ DOMAIN Append(s, e) = DOMAIN s \cup {Len(s) + 1}
           /\ \A i \in 1 .. Len(s) : Append(s, e)[i] = s[i]
           /\ Append(s, e)[Len(s) + 1] = e
  OBVIOUS

LEMMA ItemsOf ==
    ASSUME NEW S, NEW s \in Seq(S)
    PROVE  /\ Len(s) \in Nat /\ DOMAIN s = 1 .. Len(s)
           /\ \A i \in DOMAIN s : s[i] \in S
  OBVIOUS

\* A set of natural numbers has a least one.
LEMMA LeastNat ==
    ASSUME NEW S, S \subseteq Nat, S # {}
    PROVE  \E n \in S : \A m \in S : n <= m
  <1>1. PICK n \in S : \A m \in S : ~(<<m, n>> \in OpToRel(<, Nat))
    BY NatLessThanWellFounded, WFMin
  <1>2. \A m \in S : m < n => <<m, n>> \in OpToRel(<, Nat)
    BY DEF OpToRel
  <1>3. \A m \in S : ~(m < n)
    BY <1>1, <1>2, Zenon
  <1> QED
    BY <1>3

----------------------------------------------------------------------------
\* The policy manager.

\* An application in progress, or applied, says of the versions it names what is so.
ApplicationsExplained ==
    \A a \in Appliers :
        /\ applying[a].at \in {"applying", "applied"} => applying[a].policy_keys \in Seq(PolicyKeys)
        /\ applying[a].at = "applying" =>
              /\ applying[a].turn \in 1 .. Len(applying[a].policy_keys) + 1
              /\ NamesItsGrounds(applying[a], applying[a].turn)
        /\ applying[a].at = "applied" =>
              /\ NamesItsGrounds(applying[a], Len(applying[a].policy_keys) + 1)
              /\ applying[a].decision = IF applying[a].reasons = {} THEN "allow" ELSE "escalate"

PolicyInv ==
    /\ PoliciesTypeOK /\ DOMAIN applying = Appliers
    /\ \A e \in policyEvents : e.version <= VersionOf(e.key)
    /\ ApplicationsExplained

\* Numbers of versions begin at 1, or at the default's.
LEMMA VersionsAreNumbers ==
    ASSUME history \in [PolicyKeys -> Seq(PolicyValues)], NEW key \in PolicyKeys
    PROVE  /\ VersionOf(key) \in Nat /\ FirstSaved(key) \in {1, 2}
           /\ VersionOf(key) = FirstSaved(key) + Len(history[key]) - 1
           /\ Len(history[key]) \in Nat
<1>1. Len(history[key]) \in Nat
  OBVIOUS
<1> QED
  BY <1>1 DEF VersionOf, FirstSaved

\* A version that is saved is there for good.
LEMMA SavedForGood ==
    ASSUME history \in [PolicyKeys -> Seq(PolicyValues)],
           NEW saved \in PolicyKeys, NEW value \in PolicyValues,
           history' = [history EXCEPT ![saved] = Append(@, value)],
           NEW key \in PolicyKeys, NEW version \in 1 .. VersionOf(key)
    PROVE  /\ version \in 1 .. VersionOf(key)'
           /\ ValueOf(key, version)' = ValueOf(key, version)
<1>1. /\ VersionOf(key) = FirstSaved(key) + Len(history[key]) - 1 /\ Len(history[key]) \in Nat
      /\ FirstSaved(key) \in {1, 2}
  BY VersionsAreNumbers
<1>2. CASE key # saved
  <2>1. history'[key] = history[key]
    BY <1>2
  <2> QED
    BY <2>1 DEF VersionOf, ValueOf, FirstSaved
<1>3. CASE key = saved
  <2>0. history'[key] = Append(history[key], value) /\ history[key] \in Seq(PolicyValues)
    BY <1>3
  <2>1. /\ Len(history'[key]) = Len(history[key]) + 1
        /\ \A i \in 1 .. Len(history[key]) : history'[key][i] = history[key][i]
    BY <2>0, OneMore
  <2>2. VersionOf(key)' = VersionOf(key) + 1
    <3>1. VersionOf(key)' = FirstSaved(key) + Len(history'[key]) - 1
      BY DEF VersionOf
    <3> QED
      BY <1>1, <2>1, <3>1
  <2>3. version >= FirstSaved(key) => version - FirstSaved(key) + 1 \in 1 .. Len(history[key])
    BY <1>1
  <2>4. ValueOf(key, version)' = ValueOf(key, version)
    BY <1>1, <2>1, <2>3 DEF ValueOf, FirstSaved
  <2> QED
    BY <1>1, <2>2, <2>4
<1> QED
  BY <1>2, <1>3

LEMMA PoliciesInitially == PoliciesInit => PolicyInv
<1> SUFFICES ASSUME PoliciesInit PROVE PolicyInv
  OBVIOUS
<1>1. history \in [PolicyKeys -> Seq(PolicyValues)]
  BY DEF PoliciesInit
<1>2. /\ policyEvents = {} /\ DOMAIN applying = Appliers
      /\ \A a \in Appliers : applying[a].at = "idle"
  BY DEF PoliciesInit, Idle
<1> QED
  BY <1>1, <1>2 DEF PolicyInv, PoliciesTypeOK, ApplicationsExplained

LEMMA PoliciesStep == PolicyInv /\ [PoliciesNext]_policyVars => PolicyInv'
<1> SUFFICES ASSUME PolicyInv, [PoliciesNext]_policyVars
             PROVE  PolicyInv'
  OBVIOUS
<1>0. /\ history \in [PolicyKeys -> Seq(PolicyValues)]
      /\ policyEvents \subseteq [key : PolicyKeys, version : 1..MaxVersion]
      /\ \A a \in Appliers : applying[a].at \in {"idle", "applying", "applied"}
      /\ DOMAIN applying = Appliers /\ MaxVersion \in Nat
      /\ \A e \in policyEvents : e.version <= VersionOf(e.key)
      /\ ApplicationsExplained
  BY DefaultsAssumption DEF PolicyInv, PoliciesTypeOK
<1>1. ASSUME NEW saved \in PolicyKeys, NEW value \in PolicyValues, NEW accepted \in BOOLEAN,
             UpdatePolicy(saved, value, accepted)
      PROVE  PolicyInv'
  <2>1. /\ VersionOf(saved) < MaxVersion /\ applying' = applying
        /\ history' = [history EXCEPT ![saved] = Append(@, value)]
        /\ \A e \in policyEvents' : e \in policyEvents
              \/ e = [key |-> saved, version |-> VersionOf(saved) + 1]
    BY <1>1 DEF UpdatePolicy
  <2>2. history' \in [PolicyKeys -> Seq(PolicyValues)]
    BY <1>0, <2>1
  <2>3. \A key \in PolicyKeys : VersionOf(key) \in Nat
    BY <1>0, VersionsAreNumbers
  <2>4. \A key \in PolicyKeys : \A version \in 1 .. VersionOf(key) :
            version \in 1 .. VersionOf(key)' /\ ValueOf(key, version)' = ValueOf(key, version)
    BY <1>0, <2>1, SavedForGood
  <2>5. VersionOf(saved)' = VersionOf(saved) + 1
    <3>1. Len(history'[saved]) = Len(history[saved]) + 1 /\ Len(history[saved]) \in Nat
      BY <1>0, <2>1
    <3> QED
      BY <3>1 DEF VersionOf, FirstSaved
  <2>6. \A e \in policyEvents' : e \in [key : PolicyKeys, version : 1..MaxVersion]
                                /\ e.version <= VersionOf(e.key)'
    <3> SUFFICES ASSUME NEW e \in policyEvents'
                 PROVE  e \in [key : PolicyKeys, version : 1..MaxVersion]
                        /\ e.version <= VersionOf(e.key)'
      OBVIOUS
    <3>1. CASE e \in policyEvents
      <4>1. e.key \in PolicyKeys /\ e.version \in 1 .. VersionOf(e.key)
        BY <1>0, <2>3, <3>1
      <4>2. e.version \in 1 .. VersionOf(e.key)'
        BY <2>4, <4>1
      <4> QED
        BY <1>0, <3>1, <4>2
    <3>2. CASE e = [key |-> saved, version |-> VersionOf(saved) + 1]
      BY <1>0, <2>1, <2>3, <2>5, <3>2
    <3> QED
      BY <2>1, <3>1, <3>2
  <2>7. ASSUME NEW a \in Appliers, NEW turn \in Nat, applying[a].policy_keys \in Seq(PolicyKeys),
               turn <= Len(applying[a].policy_keys) + 1, NamesItsGrounds(applying[a], turn)
        PROVE  NamesItsGrounds(applying[a], turn)'
    <3>0. PICK entry : entry = applying[a]
      OBVIOUS
    <3>9. PICK versions : versions = entry.versions
      OBVIOUS
    <3>1. /\ DOMAIN versions = {entry.policy_keys[i] : i \in 1 .. turn - 1}
          /\ \A key \in DOMAIN versions : versions[key] \in 1 .. VersionOf(key)
          /\ \A key \in DOMAIN versions :
                GivesReason(ValueOf(key, versions[key]), entry.fact) => entry.reasons # {}
          /\ entry.reasons # {} => \E key \in DOMAIN versions : \E version \in 1 .. versions[key] :
                /\ GivesReason(ValueOf(key, version), entry.fact)
                /\ \/ version = versions[key]
                   \/ \E i, j \in 1 .. turn - 1 :
                         i < j /\ entry.policy_keys[i] = key /\ entry.policy_keys[j] = key
      BY <2>7, <3>0, <3>9 DEF NamesItsGrounds
    <3>2. DOMAIN versions \subseteq PolicyKeys
      <4>1. \A i \in 1 .. turn - 1 : entry.policy_keys[i] \in PolicyKeys
        BY <2>7, <3>0
      <4> QED
        BY <3>1, <4>1
    <3>3. \A key \in DOMAIN versions : \A version \in 1 .. versions[key] :
             version \in 1 .. VersionOf(key)' /\ ValueOf(key, version)' = ValueOf(key, version)
      BY <2>3, <2>4, <3>1, <3>2
    <3>4. \A key \in DOMAIN versions : versions[key] \in 1 .. versions[key]
      BY <2>3, <3>1, <3>2
    <3>5. applying'[a] = entry
      BY <2>1, <3>0
    <3>6. \A key \in DOMAIN versions : versions[key] \in 1 .. VersionOf(key)'
      BY <3>3, <3>4
    <3>7. \A key \in DOMAIN versions :
             GivesReason(ValueOf(key, versions[key])', entry.fact) => entry.reasons # {}
      BY <3>1, <3>3, <3>4
    <3>8. entry.reasons # {} => \E key \in DOMAIN versions : \E version \in 1 .. versions[key] :
             /\ GivesReason(ValueOf(key, version)', entry.fact)
             /\ \/ version = versions[key]
                \/ \E i, j \in 1 .. turn - 1 :
                      i < j /\ entry.policy_keys[i] = key /\ entry.policy_keys[j] = key
      BY <3>1, <3>3
    <3> QED
      BY <3>1, <3>5, <3>6, <3>7, <3>8, <3>9 DEF NamesItsGrounds
  <2>9. ApplicationsExplained'
    <3> SUFFICES ASSUME NEW a \in Appliers
                 PROVE  /\ applying[a].at \in {"applying", "applied"} => applying[a].policy_keys \in Seq(PolicyKeys)
                        /\ applying[a].at = "applying" =>
                              /\ applying[a].turn \in 1 .. Len(applying[a].policy_keys) + 1
                              /\ NamesItsGrounds(applying[a], applying[a].turn)'
                        /\ applying[a].at = "applied" =>
                              /\ NamesItsGrounds(applying[a], Len(applying[a].policy_keys) + 1)'
                              /\ applying[a].decision = IF applying[a].reasons = {} THEN "allow" ELSE "escalate"
      BY <2>1 DEF ApplicationsExplained, NamesItsGrounds
    <3>1. CASE applying[a].at = "applying"
      <4>1. /\ applying[a].policy_keys \in Seq(PolicyKeys)
            /\ applying[a].turn \in 1 .. Len(applying[a].policy_keys) + 1
            /\ NamesItsGrounds(applying[a], applying[a].turn)
        BY <1>0, <3>1 DEF ApplicationsExplained
      <4>2. applying[a].turn \in Nat /\ applying[a].turn <= Len(applying[a].policy_keys) + 1
        BY <4>1
      <4>3. NamesItsGrounds(applying[a], applying[a].turn)'
        <5>1. PICK turn : turn = applying[a].turn
          OBVIOUS
        <5>2. NamesItsGrounds(applying[a], turn)'
          BY <2>7, <4>1, <4>2, <5>1
        <5> QED
          BY <2>1, <5>1, <5>2
      <4> QED
        BY <3>1, <4>1, <4>3
    <3>2. CASE applying[a].at = "applied"
      <4>1. /\ applying[a].policy_keys \in Seq(PolicyKeys)
            /\ NamesItsGrounds(applying[a], Len(applying[a].policy_keys) + 1)
            /\ applying[a].decision = IF applying[a].reasons = {} THEN "allow" ELSE "escalate"
        BY <1>0, <3>2 DEF ApplicationsExplained
      <4>2. PICK turn : turn = Len(applying[a].policy_keys) + 1
        OBVIOUS
      <4>3. turn \in Nat
        BY <4>1, <4>2
      <4>4. NamesItsGrounds(applying[a], turn)'
        BY <2>7, <4>1, <4>2, <4>3
      <4>5. NamesItsGrounds(applying[a], Len(applying[a].policy_keys) + 1)'
        BY <2>1, <4>2, <4>4
      <4> QED
        BY <3>2, <4>1, <4>5
    <3> QED
      BY <3>1, <3>2
  <2>8. PoliciesTypeOK'
    BY <1>0, <2>1, <2>2, <2>6 DEF PoliciesTypeOK
  <2> QED
    BY <1>0, <2>1, <2>6, <2>8, <2>9 DEF PolicyInv
<1>2. ASSUME NEW a \in Appliers, UNCHANGED <<history, policyEvents>>,
             NEW entry, applying' = [applying EXCEPT ![a] = entry],
             entry.at \in {"idle", "applying", "applied"},
             entry.at # "idle" => entry.policy_keys \in Seq(PolicyKeys),
             entry.at = "applying" => /\ entry.turn \in 1 .. Len(entry.policy_keys) + 1
                                      /\ NamesItsGrounds(entry, entry.turn),
             entry.at = "applied" =>
                /\ NamesItsGrounds(entry, Len(entry.policy_keys) + 1)
                /\ entry.decision = IF entry.reasons = {} THEN "allow" ELSE "escalate"
      PROVE  PolicyInv'
  <2>1. /\ applying'[a] = entry /\ DOMAIN applying' = Appliers
        /\ \A b \in Appliers \ {a} : applying'[b] = applying[b]
    BY <1>0, <1>2
  <2> DEFINE Same == \A key : /\ VersionOf(key)' = VersionOf(key)
                               /\ \A version : ValueOf(key, version)' = ValueOf(key, version)
  <2>0. Same
    BY <1>2 DEF VersionOf, ValueOf, FirstSaved
  <2>2. ASSUME NEW b \in Appliers \ {a}
        PROVE  /\ NamesItsGrounds(applying[b], applying[b].turn) =>
                     NamesItsGrounds(applying[b], applying[b].turn)'
               /\ NamesItsGrounds(applying[b], Len(applying[b].policy_keys) + 1) =>
                     NamesItsGrounds(applying[b], Len(applying[b].policy_keys) + 1)'
    <3>1. PICK old : old = applying[b]
      OBVIOUS
    <3>2. applying'[b] = old
      BY <2>1, <3>1
    <3>3. NamesItsGrounds(old, old.turn) => NamesItsGrounds(applying[b], applying[b].turn)'
      BY <2>0, <3>2 DEF NamesItsGrounds
    <3>4. NamesItsGrounds(old, Len(old.policy_keys) + 1) =>
             NamesItsGrounds(applying[b], Len(applying[b].policy_keys) + 1)'
      BY <2>0, <3>2 DEF NamesItsGrounds
    <3> QED
      BY <3>1, <3>3, <3>4
  <2>3. /\ NamesItsGrounds(entry, entry.turn) => NamesItsGrounds(applying[a], applying[a].turn)'
        /\ NamesItsGrounds(entry, Len(entry.policy_keys) + 1) =>
              NamesItsGrounds(applying[a], Len(applying[a].policy_keys) + 1)'
    BY <2>0, <2>1 DEF NamesItsGrounds
  <2>4. ApplicationsExplained'
    <3> SUFFICES ASSUME NEW b \in Appliers
                 PROVE  /\ applying[b]'.at \in {"applying", "applied"} => applying[b]'.policy_keys \in Seq(PolicyKeys)
                        /\ applying[b]'.at = "applying" =>
                              /\ applying[b]'.turn \in 1 .. Len(applying[b]'.policy_keys) + 1
                              /\ NamesItsGrounds(applying[b], applying[b].turn)'
                        /\ applying[b]'.at = "applied" =>
                              /\ NamesItsGrounds(applying[b], Len(applying[b].policy_keys) + 1)'
                              /\ applying[b]'.decision = IF applying[b]'.reasons = {} THEN "allow" ELSE "escalate"
      BY DEF ApplicationsExplained
    <3>1. CASE b = a
      BY <1>2, <2>1, <2>3, <3>1
    <3>2. CASE b # a
      BY <1>0, <2>1, <2>2, <3>2 DEF ApplicationsExplained
    <3> QED
      BY <3>1, <3>2
  <2>5. PoliciesTypeOK'
    BY <1>0, <1>2, <2>1 DEF PoliciesTypeOK
  <2> QED
    BY <1>0, <1>2, <2>1, <2>4, <2>5 DEF PolicyInv, VersionOf, FirstSaved
<1>3. ASSUME NEW a \in Appliers, NEW keys \in KeyOrders, NEW fact \in FactValues, BeginApply(a, keys, fact)
      PROVE  PolicyInv'
  <2> DEFINE entry == [at |-> "applying", policy_keys |-> keys, turn |-> 1, fact |-> fact,
                       versions |-> [key \in {} |-> 0], reasons |-> {}]
  <2>1. applying' = [applying EXCEPT ![a] = entry] /\ UNCHANGED <<history, policyEvents>>
    BY <1>3 DEF BeginApply
  <2>2. keys \in Seq(PolicyKeys)
    <3>1. CASE keys = <<>>
      BY <3>1
    <3>2. ASSUME NEW k \in PolicyKeys, keys = <<k>> PROVE keys \in Seq(PolicyKeys)
      BY <3>2
    <3>3. ASSUME NEW k \in PolicyKeys, NEW l \in PolicyKeys, keys = <<k, l>>
          PROVE  keys \in Seq(PolicyKeys)
      BY <3>3
    <3> QED
      BY <3>1, <3>2, <3>3 DEF KeyOrders
  <2>3. /\ entry.at = "applying" /\ entry.policy_keys = keys /\ entry.turn = 1
        /\ DOMAIN entry.versions = {} /\ entry.reasons = {}
    OBVIOUS
  <2> HIDE DEF entry
  <2>4. NamesItsGrounds(entry, entry.turn)
    <3>1. {keys[i] : i \in 1 .. entry.turn - 1} = {}
      BY <2>3
    <3> QED
      BY <2>3, <3>1 DEF NamesItsGrounds
  <2>5. entry.policy_keys \in Seq(PolicyKeys) /\ entry.turn \in 1 .. Len(entry.policy_keys) + 1
    BY <2>2, <2>3
  <2>6. entry.at \in {"idle", "applying", "applied"} /\ entry.at # "applied"
    BY <2>3
  <2> QED
    BY <1>2, <2>1, <2>4, <2>5, <2>6
<1>4. ASSUME NEW a \in Appliers, LookUp(a)
      PROVE  PolicyInv'
  <2>1. PICK old : old = applying[a]
    OBVIOUS
  <2>2. PICK keys : keys = old.policy_keys
    OBVIOUS
  <2>3. PICK turn : turn = old.turn
    OBVIOUS
  <2> DEFINE key == keys[turn]
             gives == GivesReason(ValueOf(key, VersionOf(key)), old.fact)
             reasons == old.reasons \cup IF gives THEN {key} ELSE {}
             versions == Noted(old.versions, key, VersionOf(key))
             entry == [old EXCEPT !.turn = @ + 1, !.versions = versions, !.reasons = reasons]
  <2>4. old.at = "applying" /\ turn <= Len(keys)
    BY <1>4, <2>1, <2>2, <2>3 DEF LookUp, LookUpOf
  <2>5. keys \in Seq(PolicyKeys) /\ turn \in 1 .. Len(keys) + 1 /\ NamesItsGrounds(old, turn)
    BY <1>0, <2>1, <2>2, <2>3, <2>4 DEF ApplicationsExplained
  <2>6. key \in PolicyKeys /\ turn \in 1 .. Len(keys) /\ Len(keys) \in Nat
    BY <2>4, <2>5
  <2>7. LatestVersions[key] = VersionOf(key)
    BY <2>6 DEF LatestVersions
  <2>8. IsKnown(key) /\ applying' = [applying EXCEPT ![a] = entry] /\ UNCHANGED <<history, policyEvents>>
    BY <1>4, <2>1, <2>2, <2>3, <2>7 DEF LookUp, LookUpOf
  <2>9. VersionOf(key) \in Nat /\ VersionOf(key) > 0
    BY <1>0, <2>6, <2>8, VersionsAreNumbers DEF IsKnown
  <2>10. PICK latest \in Nat : latest = VersionOf(key)
    BY <2>9
  <2>11. /\ DOMAIN old.versions = {keys[i] : i \in 1 .. turn - 1}
         /\ \A k \in DOMAIN old.versions : old.versions[k] \in 1 .. VersionOf(k)
         /\ \A k \in DOMAIN old.versions :
               GivesReason(ValueOf(k, old.versions[k]), old.fact) => old.reasons # {}
         /\ old.reasons # {} => \E k \in DOMAIN old.versions : \E version \in 1 .. old.versions[k] :
               /\ GivesReason(ValueOf(k, version), old.fact)
               /\ \/ version = old.versions[k]
                  \/ \E i, j \in 1 .. turn - 1 : i < j /\ keys[i] = k /\ keys[j] = k
    BY <2>2, <2>5 DEF NamesItsGrounds
  <2>12. /\ DOMAIN versions = DOMAIN old.versions \cup {key} /\ versions[key] = latest
         /\ \A k \in DOMAIN old.versions \ {key} : versions[k] = old.versions[k]
    BY <2>10 DEF Noted
  <2>13. reasons # {} <=> old.reasons # {} \/ gives
    OBVIOUS
  <2>15. /\ entry.at = "applying" /\ entry.policy_keys = keys /\ entry.turn = turn + 1
         /\ entry.fact = old.fact /\ entry.versions = versions /\ entry.reasons = reasons
    BY <2>2, <2>3, <2>4
  <2> HIDE DEF entry, versions, reasons, gives, key
  <2>16. DOMAIN versions = {keys[i] : i \in 1 .. turn}
    BY <2>6, <2>11, <2>12 DEF key
  <2>17. \A k \in DOMAIN versions : versions[k] \in 1 .. VersionOf(k)
    BY <2>9, <2>10, <2>11, <2>12
  <2>18. \A k \in DOMAIN versions : GivesReason(ValueOf(k, versions[k]), old.fact) => reasons # {}
    BY <2>10, <2>11, <2>12, <2>13 DEF gives
  <2>19. reasons # {} => \E k \in DOMAIN versions : \E version \in 1 .. versions[k] :
            /\ GivesReason(ValueOf(k, version), old.fact)
            /\ \/ version = versions[k]
               \/ \E i, j \in 1 .. turn : i < j /\ keys[i] = k /\ keys[j] = k
    <3>1. CASE gives
      BY <2>9, <2>10, <2>12, <3>1 DEF gives
    <3>2. CASE old.reasons # {}
      <4>1. PICK k \in DOMAIN old.versions : \E version \in 1 .. old.versions[k] :
               /\ GivesReason(ValueOf(k, version), old.fact)
               /\ \/ version = old.versions[k]
                  \/ \E i, j \in 1 .. turn - 1 : i < j /\ keys[i] = k /\ keys[j] = k
        BY <2>11, <3>2
      <4>2. PICK version \in 1 .. old.versions[k] :
               /\ GivesReason(ValueOf(k, version), old.fact)
               /\ \/ version = old.versions[k]
                  \/ \E i, j \in 1 .. turn - 1 : i < j /\ keys[i] = k /\ keys[j] = k
        BY <4>1
      <4>3. CASE k # key
        BY <2>6, <2>12, <4>2, <4>3
      <4>4. CASE k = key
        <5>1. PICK i \in 1 .. turn - 1 : keys[i] = key
          BY <2>11, <4>4
        <5>2. i \in 1 .. turn /\ turn \in 1 .. turn /\ i < turn
          BY <2>6
        <5>3. old.versions[key] \in 1 .. latest
          BY <2>10, <2>11, <4>4
        <5>4. version \in 1 .. latest
          BY <4>2, <4>4, <5>3
        <5> QED
          BY <2>12, <4>2, <4>4, <5>1, <5>2, <5>4 DEF key
      <4> QED
        BY <4>3, <4>4
    <3> QED
      BY <2>13, <3>1, <3>2
  <2>20. NamesItsGrounds(entry, entry.turn)
    <3>1. 1 .. entry.turn - 1 = 1 .. turn
      BY <2>6, <2>15
    <3> QED
      BY <2>15, <2>16, <2>17, <2>18, <2>19, <3>1 DEF NamesItsGrounds
  <2>21. entry.turn \in 1 .. Len(entry.policy_keys) + 1
    BY <2>6, <2>15
  <2> QED
    BY <1>2, <2>5, <2>8, <2>15, <2>20, <2>21
<1>5. ASSUME NEW a \in Appliers, LookUpFails(a) \/ TakeResult(a)
      PROVE  PolicyInv'
  <2>1. applying' = [applying EXCEPT ![a] = Idle] /\ UNCHANGED <<history, policyEvents>>
    BY <1>5 DEF LookUpFails, TakeResult
  <2>2. Idle.at = "idle"
    BY DEF Idle
  <2> QED
    BY <1>2, <2>1, <2>2
<1>6. ASSUME NEW a \in Appliers, Conclude(a)
      PROVE  PolicyInv'
  <2>1. PICK old : old = applying[a]
    OBVIOUS
  <2> DEFINE entry == [at |-> "applied", policy_keys |-> old.policy_keys, fact |-> old.fact,
                       versions |-> old.versions, reasons |-> old.reasons,
                       decision |-> IF old.reasons = {} THEN "allow" ELSE "escalate"]
  <2>2. /\ old.at = "applying" /\ old.turn > Len(old.policy_keys)
        /\ applying' = [applying EXCEPT ![a] = entry] /\ UNCHANGED <<history, policyEvents>>
    BY <1>6, <2>1 DEF Conclude
  <2>3. /\ old.policy_keys \in Seq(PolicyKeys) /\ old.turn \in 1 .. Len(old.policy_keys) + 1
        /\ NamesItsGrounds(old, old.turn)
    BY <1>0, <2>1, <2>2 DEF ApplicationsExplained
  <2>4. old.turn = Len(old.policy_keys) + 1
    BY <2>2, <2>3
  <2>5. /\ entry.at = "applied" /\ entry.decision = IF entry.reasons = {} THEN "allow" ELSE "escalate"
        /\ entry.policy_keys = old.policy_keys /\ entry.versions = old.versions
        /\ entry.reasons = old.reasons /\ entry.fact = old.fact
    OBVIOUS
  <2> HIDE DEF entry
  <2>6. NamesItsGrounds(entry, Len(entry.policy_keys) + 1)
    BY <2>3, <2>4, <2>5 DEF NamesItsGrounds
  <2> QED
    BY <1>2, <2>2, <2>3, <2>5, <2>6
<1>7. CASE UNCHANGED policyVars
  <2>1. history' = history /\ policyEvents' = policyEvents /\ applying' = applying
    BY <1>7 DEF policyVars
  <2>2. PoliciesTypeOK'
    BY <1>0, <2>1 DEF PoliciesTypeOK
  <2>3. \A key \in PolicyKeys : VersionOf(key)' = VersionOf(key)
    BY <2>1 DEF VersionOf, FirstSaved
  <2>4. \A key \in PolicyKeys, n \in Nat : ValueOf(key, n)' = ValueOf(key, n)
    BY <2>1 DEF ValueOf, FirstSaved
  <2>5. ASSUME NEW a \in Appliers
        PROVE  /\ NamesItsGrounds(applying[a], applying[a].turn)' = NamesItsGrounds(applying[a], applying[a].turn)
               /\ NamesItsGrounds(applying[a], Len(applying[a].policy_keys) + 1)'
                     = NamesItsGrounds(applying[a], Len(applying[a].policy_keys) + 1)
    BY <1>0, <2>1 DEF NamesItsGrounds, VersionOf, ValueOf, FirstSaved
  <2>6. ApplicationsExplained'
    BY <1>0, <2>1, <2>5 DEF ApplicationsExplained
  <2> QED
    BY <1>0, <2>1, <2>2, <2>3, <2>6 DEF PolicyInv
<1> QED
  BY <1>1, <1>3, <1>4, <1>5, <1>6, <1>7 DEF PoliciesNext

\* However the council's updates fall between the look-ups of an application: it allows
\* only what none of the versions it names forbids, and escalates because of a version that
\* it names, or of one before it where a key is repeated: for any policies, values and
\* worker threads.
THEOREM DecisionsExplained == PoliciesSpec => []DecisionsAreExplained
<1>1. PolicyInv => DecisionsAreExplained
  BY DEF PolicyInv, ApplicationsExplained, DecisionsAreExplained
<1> QED
  BY <1>1, PoliciesInitially, PoliciesStep, PTL DEF PoliciesSpec

----------------------------------------------------------------------------
\* The thresholds of the Council.

\* A record of thresholds that may be in force: all fields, the limits of queues numbers.
Readable(t) ==
    /\ t.revision \in 1 .. MaxRevision
    /\ DOMAIN t.settings = DOMAIN DefaultThresholds
    /\ \A loop \in DOMAIN QueueLimitField : QueueLimitFor(loop, t.settings) \in Nat

ThresholdsInv ==
    /\ ThresholdsTypeOK
    /\ thresholds = NoThresholds \/ thresholds \in EverInForce
    /\ \A t \in EverInForce : Readable(t)

LEMMA DefaultsReadable == Readable(FirstThresholds)
<1>1. 1 \in 1 .. MaxRevision
  BY UpdatesAssumption
<1> QED
  BY <1>1, LimitsAssumption DEF Readable, FirstThresholds, QueueLimitFor

\* What a handler decides by was in force, and is on record.
LEMMA InForce ==
    ASSUME ThresholdsInv
    PROVE  GetThresholds \in EverInForce /\ Readable(GetThresholds)
<1>1. GetThresholds \in EverInForce
  BY DEF ThresholdsInv, GetThresholds, EverInForce
<1> QED
  BY <1>1 DEF ThresholdsInv

LEMMA ThresholdsInitially == ThresholdsInit => ThresholdsInv
<1> SUFFICES ASSUME ThresholdsInit PROVE ThresholdsInv
  OBVIOUS
<1>1. ThresholdsTypeOK
  BY UpdatesAssumption DEF ThresholdsInit, ThresholdsTypeOK, NoThresholds
<1> QED
  BY <1>1, DefaultsReadable DEF ThresholdsInit, ThresholdsInv, EverInForce

\* A handler that reads the thresholds, and stores the defaults if there were none.
LEMMA ThresholdsRead ==
    ASSUME ThresholdsInv, thresholds' \in {thresholds, GetThresholds, FirstThresholds},
           UNCHANGED <<thresholdAudit, thresholdEvents>>, missed' \subseteq ThresholdReaders
    PROVE  ThresholdsInv' /\ EverInForce \subseteq EverInForce'
<1>1. EverInForce' = EverInForce
  BY DEF EverInForce
<1>2. thresholds' = NoThresholds \/ thresholds' \in EverInForce
  BY InForce DEF ThresholdsInv, EverInForce
<1>3. /\ thresholds'.revision \in 0 .. MaxRevision
      /\ DOMAIN thresholds'.settings = DOMAIN DefaultThresholds
  BY <1>2, UpdatesAssumption DEF ThresholdsInv, Readable, NoThresholds
<1>4. ThresholdsTypeOK'
  BY <1>3 DEF ThresholdsInv, ThresholdsTypeOK
<1>5. \A t \in EverInForce : Readable(t)
  BY DEF ThresholdsInv
<1> QED
  BY <1>1, <1>2, <1>4, <1>5 DEF ThresholdsInv, NoThresholds

\* An update of the Council puts a record in force that is read like the one before.
LEMMA ThresholdsUpdated ==
    ASSUME ThresholdsInv, NEW update \in ThresholdUpdates, NEW accepted \in BOOLEAN,
           UpdateThresholds(update, accepted)
    PROVE  ThresholdsInv' /\ EverInForce \subseteq EverInForce'
<1> DEFINE settings == [field \in DOMAIN GetThresholds.settings |->
                            IF field \in DOMAIN update THEN update[field]
                                                       ELSE GetThresholds.settings[field]]
           changed == [revision |-> GetThresholds.revision + 1, settings |-> settings]
<1>1. /\ changed.revision <= MaxRevision /\ thresholds' = changed /\ missed' = missed
      /\ thresholdAudit' = thresholdAudit \cup {changed}
      /\ thresholdEvents' \in {thresholdEvents, thresholdEvents \cup {changed.revision}}
  BY DEF UpdateThresholds
<1>2. Readable(GetThresholds)
  BY InForce
<1>3. changed.revision \in 2 .. MaxRevision
  BY <1>1, <1>2, UpdatesAssumption DEF Readable
<1>4. DOMAIN settings = DOMAIN DefaultThresholds
  BY <1>2 DEF Readable
<1>5. \A loop \in DOMAIN QueueLimitField : QueueLimitFor(loop, settings) \in Nat
  <2> SUFFICES ASSUME NEW loop \in DOMAIN QueueLimitField
               PROVE  settings[QueueLimitField[loop]] \in Nat
    BY DEF QueueLimitFor
  <2>1. QueueLimitField[loop] \in DOMAIN GetThresholds.settings
    BY <1>2, LimitsAssumption DEF Readable
  <2>2. GetThresholds.settings[QueueLimitField[loop]] \in Nat
    BY <1>2 DEF Readable, QueueLimitFor
  <2> QED
    BY <2>1, <2>2, LimitsAssumption
<1>6. changed.settings = settings
  OBVIOUS
<1> HIDE DEF settings, changed
<1>7. Readable(changed)
  BY <1>3, <1>4, <1>5, <1>6, UpdatesAssumption DEF Readable
<1>8. ThresholdsTypeOK'
  BY <1>1, <1>3, <1>4, <1>6, UpdatesAssumption DEF ThresholdsInv, ThresholdsTypeOK
<1>9. EverInForce' = EverInForce \cup {changed}
  BY <1>1 DEF EverInForce
<1>10. \A t \in EverInForce' : Readable(t)
  BY <1>7, <1>9 DEF ThresholdsInv
<1> QED
  BY <1>1, <1>8, <1>9, <1>10 DEF ThresholdsInv

LEMMA ThresholdsStep ==
    ASSUME ThresholdsInv, ThresholdsNext \/ UNCHANGED thresholdVars
    PROVE  ThresholdsInv' /\ EverInForce \subseteq EverInForce'
<1>0. missed \subseteq ThresholdReaders
  BY DEF ThresholdsInv, ThresholdsTypeOK
<1>1. ASSUME NEW r \in ThresholdReaders, ReaderLooks(r) \/ ReaderStores(r)
      PROVE  ThresholdsInv' /\ EverInForce \subseteq EverInForce'
  <2>1. /\ thresholds' \in {thresholds, FirstThresholds} /\ missed' \subseteq ThresholdReaders
        /\ UNCHANGED <<thresholdAudit, thresholdEvents>>
    BY <1>0, <1>1 DEF ReaderLooks, ReaderStores
  <2> QED
    BY <2>1, ThresholdsRead
<1>2. ASSUME NEW update \in ThresholdUpdates, NEW accepted \in BOOLEAN,
             UpdateThresholds(update, accepted)
      PROVE  ThresholdsInv' /\ EverInForce \subseteq EverInForce'
  BY <1>2, ThresholdsUpdated
<1>3. ASSUME UNCHANGED thresholdVars
      PROVE  ThresholdsInv' /\ EverInForce \subseteq EverInForce'
  BY <1>0, <1>3, ThresholdsRead DEF thresholdVars
<1> QED
  BY <1>1, <1>2, <1>3 DEF ThresholdsNext

----------------------------------------------------------------------------
\* The queues of the command centre.

Loops == DOMAIN QueueLimitField

QueuesKept ==
    \A loop \in Loops :
        \E t \in EverInForce : QueuedIn(loop) <= QueueLimitFor(loop, t.settings)

QueueInv ==
    /\ CommandTypeOK /\ IsFiniteSet(tasks)
    /\ \A i \in DOMAIN taskAudit : i \in 1 .. Len(taskAudit)
    /\ taskAudit \in Seq([task_id : TaskIds, status : {"queued", "needs_council_review"}])
    /\ \A t \in tasks : t.status = "queued" => t.policy_reasons = {}
    /\ QueuesKept

LEMMA QueueInitially == CommandInit => QueueInv
<1> SUFFICES ASSUME CommandInit PROVE QueueInv
  OBVIOUS
<1>1. tasks = {} /\ taskAudit = <<>> /\ taskEvents = {}
  BY DEF CommandInit
<1>2. IsFiniteSet(tasks) /\ \A loop : QueuedIn(loop) = 0
  <2>1. \A loop : {t \in ActiveTasks(loop) : t.status = "queued"} = {}
    BY <1>1 DEF ActiveTasks
  <2> QED
    BY <1>1, <2>1, FS_EmptySet DEF QueuedIn
<1>3. QueuesKept
  <2>1. FirstThresholds \in EverInForce /\ Readable(FirstThresholds)
    BY DefaultsReadable DEF EverInForce
  <2> QED
    BY <1>2, <2>1 DEF QueuesKept, Loops, Readable
<1> QED
  BY <1>1, <1>2, <1>3 DEF QueueInv, CommandTypeOK

\* The queues keep to a limit whatever else becomes of the thresholds.
LEMMA QueueStays ==
    ASSUME QueueInv, EverInForce \subseteq EverInForce', UNCHANGED <<tasks, taskAudit, taskEvents>>
    PROVE  QueueInv'
  BY DEF QueueInv, CommandTypeOK, QueuesKept, QueuedIn, ActiveTasks

\* The active and the queued tasks of a loop.
LEMMA QueuedAreActive ==
    ASSUME IsFiniteSet(tasks), NEW loop
    PROVE  /\ IsFiniteSet({t \in ActiveTasks(loop) : t.status = "queued"})
           /\ QueuedIn(loop) \in Nat /\ Cardinality(ActiveTasks(loop)) \in Nat
           /\ QueuedIn(loop) <= Cardinality(ActiveTasks(loop))
<1> DEFINE Queued == {t \in ActiveTasks(loop) : t.status = "queued"}
<1>1. ActiveTasks(loop) \subseteq tasks /\ Queued \subseteq ActiveTasks(loop)
  BY DEF ActiveTasks
<1>2. IsFiniteSet(ActiveTasks(loop))
  BY <1>1, FS_Subset
<1>3. IsFiniteSet(Queued) /\ Cardinality(Queued) <= Cardinality(ActiveTasks(loop))
  BY <1>1, <1>2, FS_Subset
<1> QED
  BY <1>2, <1>3, FS_CardinalityType DEF QueuedIn

LEMMA QueueStep ==
    ASSUME ThresholdsInv, QueueInv, CommandNext \/ UNCHANGED commandVars
    PROVE  ThresholdsInv' /\ QueueInv'
<1>0. /\ CommandTypeOK /\ IsFiniteSet(tasks) /\ QueuesKept
      /\ taskAudit \in Seq([task_id : TaskIds, status : {"queued", "needs_council_review"}])
      /\ \A t \in tasks : t.status = "queued" => t.policy_reasons = {}
  BY DEF QueueInv
<1>1. ASSUME ThresholdsNext \/ UNCHANGED thresholdVars, UNCHANGED <<tasks, taskAudit, taskEvents>>
      PROVE  ThresholdsInv' /\ QueueInv'
  BY <1>1, ThresholdsStep, QueueStays
<1>2. ASSUME NEW id \in TaskIds, NEW request \in TaskRequests, NEW accepted \in BOOLEAN,
             CreateTask(id, request, accepted)
      PROVE  ThresholdsInv' /\ QueueInv'
  <2> DEFINE inForce == GetThresholds
             reasons == TaskReasons(request, inForce.settings)
             status == IF reasons = {} THEN "queued" ELSE "needs_council_review"
             task == [task_id |-> id, feedback_loop |-> request.feedback_loop, status |-> status,
                      policy_revision |-> inForce.revision, policy_reasons |-> reasons]
             taken == \E t \in tasks : t.task_id = id
             record == [task_id |-> id, status |-> status]
  <2>1. /\ thresholds' = GetThresholds /\ UNCHANGED <<thresholdAudit, thresholdEvents, missed>>
        /\ taskAudit' = Append(taskAudit, record)
        /\ tasks' = IF taken THEN tasks ELSE tasks \cup {task}
        /\ taskEvents' \in {taskEvents, taskEvents \cup {id}}
    BY <1>2 DEF CreateTask
  <2>2. ThresholdsInv' /\ EverInForce \subseteq EverInForce'
    BY <2>1, ThresholdsRead DEF ThresholdsInv, ThresholdsTypeOK
  <2>3. /\ task.task_id = id /\ task.feedback_loop = request.feedback_loop
        /\ task.status = status /\ task.policy_reasons = reasons
        /\ task.policy_revision = inForce.revision
        /\ record \in [task_id : TaskIds, status : {"queued", "needs_council_review"}]
    OBVIOUS
  <2>4. inForce \in EverInForce /\ Readable(inForce)
    BY InForce
  <2>5. ASSUME status = "queued", request.feedback_loop \in Loops
        PROVE  Cardinality(ActiveTasks(request.feedback_loop))
                  < QueueLimitFor(request.feedback_loop, inForce.settings)
    <3>1. "queue" \notin reasons
      BY <2>5
    <3>2. /\ QueueLimitFor(request.feedback_loop, inForce.settings) \in Nat
          /\ Cardinality(ActiveTasks(request.feedback_loop)) \in Nat
      BY <1>0, <2>4, <2>5, QueuedAreActive DEF Readable, Loops
    <3> QED
      BY <3>1, <3>2 DEF TaskReasons
  <2>6. status \in {"queued", "needs_council_review"} /\ (status = "queued" => reasons = {})
    OBVIOUS
  <2> HIDE DEF task, record, status, reasons, inForce
  <2>7. /\ IsFiniteSet(tasks') /\ \A t \in tasks' : t \in tasks \/ (t = task /\ task \notin tasks)
        /\ tasks \subseteq tasks'
    BY <1>0, <2>1, <2>3, FS_AddElement
  <2>8. /\ taskAudit' \in Seq([task_id : TaskIds, status : {"queued", "needs_council_review"}])
        /\ \A i \in DOMAIN taskAudit' : i \in 1 .. Len(taskAudit')
                                         /\ taskAudit'[i].task_id \in TaskIds
    <3> DEFINE S == [task_id : TaskIds, status : {"queued", "needs_council_review"}]
               audit == taskAudit'
    <3>1. audit \in Seq(S)
      BY <1>0, <2>1, <2>3, OneMore
    <3> HIDE DEF audit
    <3>2. DOMAIN audit = 1 .. Len(audit) /\ \A i \in DOMAIN audit : audit[i] \in S
      BY <3>1, ItemsOf
    <3> QED
      BY <3>1, <3>2 DEF audit
  <2>9. CommandTypeOK'
    BY <1>0, <2>1, <2>3, <2>4, <2>7, <2>8 DEF CommandTypeOK, Readable
  <2>10. \A t \in tasks' : t.status = "queued" => t.policy_reasons = {}
    BY <1>0, <2>3, <2>6, <2>7
  <2>11. QueuesKept'
    <3> SUFFICES ASSUME NEW loop \in Loops
                 PROVE  \E t \in EverInForce' : QueuedIn(loop)' <= QueueLimitFor(loop, t.settings)
      BY DEF QueuesKept, QueueLimitFor
    <3> DEFINE Queued == {t \in ActiveTasks(loop) : t.status = "queued"}
    <3>1. CASE task \in tasks' /\ task \notin tasks /\ loop = request.feedback_loop /\ status = "queued"
      <4>1. Queued' = Queued \cup {task} /\ task \notin Queued
        BY <2>3, <2>7, <3>1 DEF ActiveTasks
      <4>2. IsFiniteSet(Queued) /\ QueuedIn(loop) \in Nat
            /\ QueuedIn(loop) <= Cardinality(ActiveTasks(loop)) /\ Cardinality(ActiveTasks(loop)) \in Nat
        BY <1>0, QueuedAreActive
      <4>3. QueuedIn(loop)' = QueuedIn(loop) + 1
        BY <4>1, <4>2, FS_AddElement DEF QueuedIn
      <4>4. Cardinality(ActiveTasks(loop)) < QueueLimitFor(loop, inForce.settings)
            /\ QueueLimitFor(loop, inForce.settings) \in Nat
        BY <2>4, <2>5, <3>1 DEF Readable, Loops
      <4>5. QueuedIn(loop)' <= QueueLimitFor(loop, inForce.settings)
        BY <4>2, <4>3, <4>4
      <4> QED
        BY <2>2, <2>4, <4>5
    <3>2. CASE ~(task \in tasks' /\ task \notin tasks /\ loop = request.feedback_loop /\ status = "queued")
      <4>1. Queued' = Queued
        BY <2>3, <2>6, <2>7, <3>2 DEF ActiveTasks
      <4>2. QueuedIn(loop)' = QueuedIn(loop)
        BY <4>1 DEF QueuedIn
      <4> QED
        BY <1>0, <2>2, <4>2 DEF QueuesKept
    <3> QED
      BY <3>1, <3>2
  <2> QED
    BY <2>2, <2>7, <2>8, <2>9, <2>10, <2>11 DEF QueueInv
<1> QED
  BY <1>1, <1>2 DEF CommandNext, commandVars, thresholdVars

LEMMA QueueKept == ThresholdsInv /\ QueueInv => QueueIsBounded
  BY DEF ThresholdsInv, QueueInv, QueuesKept, Loops, QueueIsBounded, ActiveTasks

\* However the Council's thresholds change, a loop of the command centre never holds more
\* autonomous tasks than the largest limit the Council set for it, and none of them had a
\* reason to wait for the Council: for any loops, limits, tasks and readers.
THEOREM QueueBounded == CommandSpec => []QueueIsBounded
<1>1. CommandInit => ThresholdsInv /\ QueueInv
  BY ThresholdsInitially, QueueInitially DEF CommandInit
<1>2. ThresholdsInv /\ QueueInv /\ [CommandNext]_commandVars => (ThresholdsInv /\ QueueInv)'
  BY QueueStep
<1> QED
  BY <1>1, <1>2, QueueKept, PTL DEF CommandSpec

----------------------------------------------------------------------------
\* The runs of the orchestrator.

\* A sequence is one over its own values.
SelfTyped(s) == s \in Seq(ToSet(s))

LEMMA ValuesAppended ==
    ASSUME NEW s, SelfTyped(s), NEW e
    PROVE  SelfTyped(Append(s, e)) /\ ToSet(Append(s, e)) = ToSet(s) \cup {e}
<1> DEFINE S == ToSet(s) \cup {e}
           t == Append(s, e)
<1>1. s \in Seq(S) /\ e \in S
  <2>1. s \in Seq(ToSet(s))
    BY DEF SelfTyped
  <2> HIDE DEF S
  <2>2. ToSet(s) \subseteq S
    BY DEF S
  <2>3. s \in Seq(S)
    <3> DEFINE T == ToSet(s)
    <3>1. s \in Seq(T)
      BY <2>1
    <3> HIDE DEF T
    <3> QED
      BY <2>2, <3>1 DEF T
  <2> QED
    BY <2>3 DEF S
<1> HIDE DEF S
<1>2. /\ t \in Seq(S) /\ Len(s) \in Nat /\ DOMAIN s = 1 .. Len(s)
      /\ DOMAIN t = DOMAIN s \cup {Len(s) + 1}
      /\ \A i \in 1 .. Len(s) : t[i] = s[i]
      /\ t[Len(s) + 1] = e
  BY <1>1, OneMore
<1> HIDE DEF t
<1>3. ToSet(t) = ToSet(s) \cup {e}
  BY <1>2 DEF ToSet
<1>4. t \in Seq(ToSet(t))
  <2>1. ToSet(t) = S
    BY <1>3 DEF S
  <2> QED
    BY <1>2, <2>1
<1> QED
  BY <1>3, <1>4 DEF SelfTyped, t

\* Whichever handler builds a run, its reasons are those of the settings it was given.
LEMMA HandlersDecide ==
  ASSUME NEW id, NEW request, NEW inForce, NEW context
  PROVE  LET run == DecidedRun(id, request, inForce, context)
         IN  /\ run.run_id = id /\ run.request = request
             /\ run.policy_revision = inForce.revision
             /\ run.policy_reasons = RunReasons(request, inForce.settings)
<1> DEFINE Built(run, reasons) ==
             /\ run.run_id = id /\ run.request = request
             /\ run.policy_revision = inForce.revision /\ run.policy_reasons = reasons
<1>1. ASSUME NEW reasons, NEW ctx
      PROVE  Built(BuiltRun(id, request, inForce, reasons, ctx), reasons)
  BY DEF BuiltRun
<1>2. CASE request.task_type = "engagement_auto_reply"
  BY <1>1, <1>2 DEF DecidedRun, RunReasons, AutoReply
<1>3. CASE request.task_type = "content_hygiene"
  BY <1>1, <1>3 DEF DecidedRun, RunReasons, ContentHygiene
<1>4. CASE request.task_type = "publication_optimization"
  BY <1>1, <1>4 DEF DecidedRun, RunReasons, PublicationOptimization
<1>5. CASE request.task_type = "content_agent_action"
  BY <1>1, <1>5 DEF DecidedRun, RunReasons, ContentAgentAction
<1>6. CASE request.task_type \notin {"engagement_auto_reply", "content_hygiene",
                                     "publication_optimization", "content_agent_action"}
  <2>1. RunReasons(request, inForce.settings) = {}
    BY <1>6 DEF RunReasons
  <2>2. \E ctx : DecidedRun(id, request, inForce, context) = BuiltRun(id, request, inForce, {}, ctx)
    <3>1. CASE request.task_type = "agentic_rag"
      BY <3>1 DEF DecidedRun, AgenticRag
    <3>2. CASE request.task_type = "deep_research"
      BY <3>2 DEF DecidedRun, DeepResearch
    <3>3. CASE request.task_type \notin {"agentic_rag", "deep_research"}
      BY <1>6, <3>3 DEF DecidedRun, AudienceAnalysis
    <3> QED
      BY <3>1, <3>2, <3>3
  <2> QED
    BY <1>1, <2>1, <2>2
<1> QED
  BY <1>2, <1>3, <1>4, <1>5, <1>6

\* A run that was decided by thresholds on record, under the revision it names.
Decided(run) ==
    /\ run.run_id \in RunIds /\ run.request \in RunRequests
    /\ \E t \in EverInForce : /\ t.revision = run.policy_revision
                              /\ run.policy_reasons = RunReasons(run.request, t.settings)

Underway(call) ==
    /\ call.at \in {"idle", "retrieving", "announcing", "storing"}
    /\ call.at = "retrieving" => call.id \in RunIds /\ call.request \in RunRequests
                                /\ call.inForce \in EverInForce
    /\ call.at \in {"announcing", "storing"} => /\ call = [at |-> call.at, run |-> call.run]
                                               /\ Decided(call.run) /\ call.run \in ToSet(runAudit)
    /\ call.at = "storing" => call.run \in ToSet(runEvents)

RunStored(run) == Decided(run) /\ run \in ToSet(runAudit) /\ run \in ToSet(runEvents)

RunsInv ==
    /\ DOMAIN running = RunCallers /\ ragStore \subseteq RagDocuments
    /\ SelfTyped(runAudit) /\ SelfTyped(runEvents)
    /\ \A c \in RunCallers : Underway(running[c])
    /\ \A r \in runs : RunStored(r)
    /\ \A r, other \in runs : other.run_id = r.run_id => other = r

LEMMA RunsInitially == RunsInit => RunsInv
<1> SUFFICES ASSUME RunsInit PROVE RunsInv
  OBVIOUS
<1>1. /\ running = [c \in RunCallers |-> [at |-> "idle"]] /\ runs = {} /\ ragStore = {}
      /\ runAudit = <<>> /\ runEvents = <<>>
  BY DEF RunsInit
<1>2. SelfTyped(runAudit) /\ SelfTyped(runEvents)
  BY <1>1 DEF SelfTyped
<1>3. \A c \in RunCallers : running[c].at = "idle"
  BY <1>1
<1> QED
  BY <1>1, <1>2, <1>3 DEF RunsInv, Underway

\* What is on record stays there while the records grow.
RecordsGrow ==
    /\ EverInForce \subseteq EverInForce'
    /\ ToSet(runAudit) \subseteq ToSet(runAudit)' /\ ToSet(runEvents) \subseteq ToSet(runEvents)'

LEMMA StillDecided ==
    ASSUME RecordsGrow, NEW run, Decided(run)
    PROVE  Decided(run)'
  BY DEF RecordsGrow, Decided

\* A step of one request, or of none: the others and what is stored are as good as before.
LEMMA RequestStays ==
    ASSUME RunsInv, RecordsGrow, NEW c \in RunCallers, running'[c] = running[c]
    PROVE  Underway(running[c])'
<1>1. Underway(running[c])
  BY DEF RunsInv
<1> DEFINE call == running[c]
<1>2. running'[c] = call
  OBVIOUS
<1>3. call.at \in {"announcing", "storing"} => Decided(call.run)'
  BY <1>1, StillDecided DEF Underway
<1> QED
  BY <1>1, <1>2, <1>3 DEF Underway, Decided, RecordsGrow

LEMMA StoredStays ==
    ASSUME RunsInv, RecordsGrow
    PROVE  \A r \in runs : Decided(r)' /\ r \in ToSet(runAudit)' /\ r \in ToSet(runEvents)'
  BY StillDecided DEF RunsInv, RunStored, RecordsGrow

LEMMA RunsStay ==
    ASSUME RunsInv, EverInForce \subseteq EverInForce',
           UNCHANGED <<running, runs, runAudit, runEvents>>, ragStore' \subseteq RagDocuments
    PROVE  RunsInv'
<1>1. RecordsGrow
  BY DEF RecordsGrow, ToSet
<1>2. \A c \in RunCallers : Underway(running[c])'
  BY <1>1, RequestStays
<1>3. \A r \in runs : RunStored(r)'
  BY <1>1, StoredStays DEF RunStored, Decided
<1> QED
  BY <1>2, <1>3 DEF RunsInv, SelfTyped, ToSet

LEMMA RunsStep ==
    ASSUME ThresholdsInv, RunsInv, RunsNext \/ UNCHANGED runVars
    PROVE  ThresholdsInv' /\ RunsInv'
<1>0. /\ DOMAIN running = RunCallers /\ ragStore \subseteq RagDocuments
      /\ SelfTyped(runAudit) /\ SelfTyped(runEvents)
      /\ \A c \in RunCallers : Underway(running[c])
  BY DEF RunsInv
<1>1. ASSUME ThresholdsNext \/ UNCHANGED thresholdVars, UNCHANGED <<running, runs, runAudit, runEvents, ragStore>>
      PROVE  ThresholdsInv' /\ RunsInv'
  BY <1>0, <1>1, ThresholdsStep, RunsStay
<1>2. ASSUME thresholds' = GetThresholds, UNCHANGED <<thresholdAudit, thresholdEvents, missed>>
      PROVE  ThresholdsInv' /\ EverInForce \subseteq EverInForce'
  BY <1>2, ThresholdsRead DEF ThresholdsInv, ThresholdsTypeOK
<1>3. ASSUME UNCHANGED thresholdVars
      PROVE  ThresholdsInv' /\ EverInForce \subseteq EverInForce'
  BY <1>3, ThresholdsStep
<1>4. ASSUME NEW c \in RunCallers, NEW call, running' = [running EXCEPT ![c] = call],
             RecordsGrow, SelfTyped(runAudit)', SelfTyped(runEvents)', ragStore' = ragStore,
             \/ call.at = "idle"
             \/ /\ call.at = "retrieving" /\ call.id \in RunIds /\ call.request \in RunRequests
                /\ call.inForce \in EverInForce
             \/ /\ call.at \in {"announcing", "storing"} /\ Decided(call.run)
                /\ call = [at |-> call.at, run |-> call.run]
                /\ call.run \in ToSet(runAudit)'
                /\ call.at = "storing" => call.run \in ToSet(runEvents)',
             \A r \in runs' : RunStored(r)',
             \A r, other \in runs' : other.run_id = r.run_id => other = r
      PROVE  RunsInv'
  <2>1. /\ running'[c] = call /\ DOMAIN running' = RunCallers
        /\ \A d \in RunCallers \ {c} : running'[d] = running[d]
    BY <1>0, <1>4
  <2>2. \A d \in RunCallers \ {c} : Underway(running[d])'
    BY <1>4, <2>1, RequestStays
  <2>3. Decided(call.run) => Decided(running[c].run)'
    BY <1>4, <2>1 DEF Decided, RecordsGrow
  <2>4. Underway(running[c])'
    BY <1>4, <2>1, <2>3 DEF Underway, RecordsGrow
  <2> QED
    BY <1>0, <1>4, <2>1, <2>2, <2>4 DEF RunsInv
<1>5. ASSUME RecordsGrow, runs' = runs
      PROVE  /\ \A r \in runs' : RunStored(r)'
             /\ \A r, other \in runs' : other.run_id = r.run_id => other = r
  BY <1>5, StoredStays DEF RunStored, RunsInv
\* A run that is decided goes on record before it is announced.
<1>6. ASSUME NEW c \in RunCallers, NEW id \in RunIds, NEW request \in RunRequests,
             NEW t \in EverInForce, NEW context, EverInForce \subseteq EverInForce',
             Announcing(c, DecidedRun(id, request, t, context)),
             UNCHANGED <<runs, runEvents, ragStore>>
      PROVE  RunsInv'
  <2> DEFINE run == DecidedRun(id, request, t, context)
             call == [at |-> "announcing", run |-> run]
  <2>1. runAudit' = Append(runAudit, run) /\ running' = [running EXCEPT ![c] = call]
    BY <1>6 DEF Announcing
  <2>2. Decided(run)
    BY <1>6, HandlersDecide DEF Decided
  <2> HIDE DEF run
  <2>3. SelfTyped(runAudit)' /\ ToSet(runAudit)' = ToSet(runAudit) \cup {run}
    BY <1>0, <2>1, ValuesAppended
  <2>4. SelfTyped(runEvents)' /\ ToSet(runEvents)' = ToSet(runEvents)
    BY <1>0, <1>6 DEF SelfTyped, ToSet
  <2>5. RecordsGrow
    BY <1>6, <2>3, <2>4 DEF RecordsGrow
  <2>6. call.at = "announcing" /\ call.run = run /\ call = [at |-> call.at, run |-> call.run]
    OBVIOUS
  <2> HIDE DEF call
  <2> QED
    BY <1>4, <1>5, <1>6, <2>1, <2>2, <2>3, <2>4, <2>5, <2>6
<1>7. ASSUME NEW c \in RunCallers, NEW request \in RunRequests, RefuseRun(c, request)
      PROVE  ThresholdsInv' /\ RunsInv'
  BY <1>0, <1>2, <1>7, RunsStay DEF RefuseRun
<1>8. ASSUME NEW c \in RunCallers, NEW request \in RunRequests, NEW id \in RunIds,
             DecideRun(c, id, request)
      PROVE  ThresholdsInv' /\ RunsInv'
  <2>1. ThresholdsInv' /\ EverInForce \subseteq EverInForce'
    BY <1>2, <1>8 DEF DecideRun
  <2>2. GetThresholds \in EverInForce
    BY InForce
  <2>3. Announcing(c, DecidedRun(id, request, GetThresholds, {})) /\ UNCHANGED <<runs, runEvents, ragStore>>
    BY <1>8 DEF DecideRun
  <2> QED
    BY <1>6, <2>1, <2>2, <2>3
<1>9. ASSUME NEW c \in RunCallers, NEW request \in RunRequests, NEW id \in RunIds,
             BeginRetrieval(c, id, request)
      PROVE  ThresholdsInv' /\ RunsInv'
  <2> DEFINE call == [at |-> "retrieving", id |-> id, request |-> request, inForce |-> GetThresholds]
  <2>1. ThresholdsInv' /\ EverInForce \subseteq EverInForce'
    BY <1>2, <1>9 DEF BeginRetrieval
  <2>2. /\ running' = [running EXCEPT ![c] = call]
        /\ UNCHANGED <<runs, runAudit, runEvents, ragStore>>
    BY <1>9 DEF BeginRetrieval
  <2>3. call.at = "retrieving" /\ call.id = id /\ call.request = request /\ call.inForce \in EverInForce
    BY InForce
  <2> HIDE DEF call
  <2>4. RecordsGrow /\ SelfTyped(runAudit)' /\ SelfTyped(runEvents)'
    BY <1>0, <2>1, <2>2 DEF RecordsGrow, SelfTyped, ToSet
  <2> QED
    BY <1>4, <1>5, <2>1, <2>2, <2>3, <2>4
<1>10. ASSUME NEW c \in RunCallers, Retrieve(c)
       PROVE  ThresholdsInv' /\ RunsInv'
  <2> DEFINE call == running[c]
  <2>1. /\ call.at = "retrieving" /\ UNCHANGED thresholdVars /\ UNCHANGED <<runs, runEvents, ragStore>>
        /\ \E context : Announcing(c, DecidedRun(call.id, call.request, call.inForce, context))
    BY <1>10 DEF Retrieve
  <2>2. call.id \in RunIds /\ call.request \in RunRequests /\ call.inForce \in EverInForce
    BY <1>0, <2>1 DEF Underway
  <2> HIDE DEF call
  <2>3. PICK context : Announcing(c, DecidedRun(call.id, call.request, call.inForce, context))
    BY <2>1
  <2> QED
    BY <1>3, <1>6, <2>1, <2>2, <2>3
<1>11. ASSUME NEW c \in RunCallers, AnnounceRun(c)
       PROVE  ThresholdsInv' /\ RunsInv'
  <2> DEFINE run == running[c].run
             call == [at |-> "storing", run |-> run]
  <2>0. running[c].at = "announcing" /\ running[c] = [at |-> "announcing", run |-> run]
    BY <1>0, <1>11 DEF AnnounceRun, Underway
  <2>1. /\ running[c].at = "announcing" /\ UNCHANGED thresholdVars /\ UNCHANGED <<runs, runAudit, ragStore>>
        /\ runEvents' = Append(runEvents, run) /\ running' = [running EXCEPT ![c] = call]
    <3> DEFINE old == running[c]
    <3>1. /\ runEvents' = Append(runEvents, old.run)
          /\ running' = [running EXCEPT ![c] = [old EXCEPT !.at = "storing"]]
          /\ UNCHANGED thresholdVars /\ UNCHANGED <<runs, runAudit, ragStore>>
      BY <1>11 DEF AnnounceRun
    <3>2. [old EXCEPT !.at = "storing"] = [at |-> "storing", run |-> old.run]
      BY <2>0
    <3> HIDE DEF old
    <3> QED
      BY <2>0, <3>1, <3>2 DEF old
  <2>2. Decided(run) /\ run \in ToSet(runAudit)
    BY <1>0, <2>1 DEF Underway
  <2>3. call.at = "storing" /\ call.run = run /\ call = [at |-> call.at, run |-> call.run]
    OBVIOUS
  <2> HIDE DEF call
  <2>4. SelfTyped(runEvents)' /\ ToSet(runEvents)' = ToSet(runEvents) \cup {run}
    BY <1>0, <2>1, ValuesAppended
  <2>5. SelfTyped(runAudit)' /\ ToSet(runAudit)' = ToSet(runAudit)
    BY <1>0, <2>1 DEF SelfTyped, ToSet
  <2>6. RecordsGrow
    BY <1>3, <2>1, <2>4, <2>5 DEF RecordsGrow
  <2> HIDE DEF run
  <2> QED
    BY <1>3, <1>4, <1>5, <2>1, <2>2, <2>3, <2>4, <2>5, <2>6
<1>12. ASSUME NEW c \in RunCallers, AnnouncementFails(c)
       PROVE  ThresholdsInv' /\ RunsInv'
  <2> DEFINE call == [at |-> "idle"]
  <2>1. /\ UNCHANGED thresholdVars /\ UNCHANGED <<runs, runAudit, runEvents, ragStore>>
        /\ running' = [running EXCEPT ![c] = call]
    BY <1>12 DEF AnnouncementFails
  <2>2. call.at = "idle"
    OBVIOUS
  <2> HIDE DEF call
  <2>3. RecordsGrow /\ SelfTyped(runAudit)' /\ SelfTyped(runEvents)'
    BY <1>0, <1>3, <2>1 DEF RecordsGrow, SelfTyped, ToSet
  <2> QED
    BY <1>3, <1>4, <1>5, <2>1, <2>2, <2>3
<1>13. ASSUME NEW c \in RunCallers, StoreRun(c)
       PROVE  ThresholdsInv' /\ RunsInv'
  <2> DEFINE run == running[c].run
             call == [at |-> "idle"]
  <2>1. /\ running[c].at = "storing" /\ UNCHANGED thresholdVars /\ UNCHANGED <<runAudit, runEvents, ragStore>>
        /\ running' = [running EXCEPT ![c] = call]
        /\ runs' = IF \E r \in runs : r.run_id = run.run_id THEN runs ELSE runs \cup {run}
    BY <1>13 DEF StoreRun
  <2>2. RunStored(run)
    BY <1>0, <2>1 DEF Underway, RunStored
  <2>3. call.at = "idle"
    OBVIOUS
  <2> HIDE DEF call
  <2>4. RecordsGrow /\ SelfTyped(runAudit)' /\ SelfTyped(runEvents)' /\ EverInForce' = EverInForce
        /\ ToSet(runAudit)' = ToSet(runAudit) /\ ToSet(runEvents)' = ToSet(runEvents)
    BY <1>0, <1>3, <2>1 DEF RecordsGrow, SelfTyped, ToSet, EverInForce, thresholdVars
  <2>5. \A r \in runs' : RunStored(r)'
    <3>1. \A r \in runs' : RunStored(r)
      BY <2>1, <2>2 DEF RunsInv
    <3> QED
      BY <2>4, <3>1 DEF RunStored, Decided
  <2>6. \A r, other \in runs' : other.run_id = r.run_id => other = r
    BY <2>1 DEF RunsInv
  <2> QED
    BY <1>3, <1>4, <2>1, <2>3, <2>4, <2>5, <2>6
<1>14. ASSUME NEW documents \in {{d} : d \in RagDocuments}, UpsertRagDocuments(documents)
       PROVE  ThresholdsInv' /\ RunsInv'
  <2>1. ragStore' \subseteq RagDocuments /\ UNCHANGED thresholdVars
        /\ UNCHANGED <<running, runs, runAudit, runEvents>>
    BY <1>0, <1>14 DEF UpsertRagDocuments
  <2> QED
    BY <1>3, <2>1, RunsStay
<1> QED
  BY <1>1, <1>7, <1>8, <1>9, <1>10, <1>11, <1>12, <1>13, <1>14 DEF RunsNext, runVars, thresholdVars

LEMMA RunsKept == ThresholdsInv /\ RunsInv => RunsAreAccounted
<1> SUFFICES ASSUME ThresholdsInv, RunsInv PROVE RunsAreAccounted
  OBVIOUS
<1>1. RunsTypeOK
  BY DEF RunsInv, RunsTypeOK, Underway, RunStored, Decided
<1> QED
  BY <1>1 DEF RunsInv, RunsAreAccounted, RunStored, Decided

\* A stored run of the orchestrator is on record and was announced as it is stored, is the
\* only one of its id, and was decided by thresholds that were in force under the revision
\* it names, whatever the Council did while it waited: for any runs, thresholds and readers.
THEOREM RunsAccounted == RunsSpec => []RunsAreAccounted
<1>1. RunsInit => ThresholdsInv /\ RunsInv
  BY ThresholdsInitially, RunsInitially DEF RunsInit
<1>2. ThresholdsInv /\ RunsInv /\ [RunsNext]_runVars => (ThresholdsInv /\ RunsInv)'
  BY RunsStep
<1> QED
  BY <1>1, <1>2, RunsKept, PTL DEF RunsSpec

\* What the Council put in force stays on record.
LEMMA CommandRecords == CommandNext => EverInForce \subseteq EverInForce'
  BY DEF CommandNext, ThresholdsNext, ReaderLooks, ReaderStores, UpdateThresholds, CreateTask, EverInForce

LEMMA RunRecords == RunsNext => EverInForce \subseteq EverInForce'
  BY DEF RunsNext, ThresholdsNext, ReaderLooks, ReaderStores, UpdateThresholds, EverInForce,
         UpsertRagDocuments, RefuseRun, DecideRun, BeginRetrieval, Retrieve, AnnounceRun,
         AnnouncementFails, StoreRun, thresholdVars

\* The two services side by side: what agents do without the Council stays within
\* thresholds the Council had set, in the command centre and in the orchestrator.
THEOREM AutonomyBounded == Spec => []AutonomyIsBounded
<1> DEFINE Inv == ThresholdsInv /\ QueueInv /\ RunsInv
<1>1. Init => Inv
  BY ThresholdsInitially, QueueInitially, RunsInitially DEF Init, CommandInit, RunsInit
<1>2. Inv /\ [Next]_vars => Inv'
  <2> SUFFICES ASSUME Inv, [Next]_vars PROVE Inv'
    OBVIOUS
  <2>1. CASE ThresholdsNext /\ UNCHANGED <<tasks, taskAudit, taskEvents>> /\ UNCHANGED agentVars
    BY <2>1, RunsStep, QueueStep DEF RunsNext, CommandNext, agentVars
  <2>2. CASE CommandNext /\ UNCHANGED agentVars
    <3>1. ThresholdsInv' /\ QueueInv'
      BY <2>2, QueueStep
    <3>2. EverInForce \subseteq EverInForce'
      BY <2>2, CommandRecords
    <3> QED
      BY <2>2, <3>1, <3>2, RunsStay DEF agentVars, RunsInv
  <2>3. CASE RunsNext /\ UNCHANGED taskVars
    <3>1. ThresholdsInv' /\ RunsInv'
      BY <2>3, RunsStep
    <3>2. EverInForce \subseteq EverInForce'
      BY <2>3, RunRecords
    <3> QED
      BY <2>3, <3>1, <3>2, QueueStays DEF taskVars
  <2>4. CASE UNCHANGED <<thresholdVars, taskVars, agentVars>>
    BY <2>4, RunsStep, QueueStep DEF taskVars, agentVars, commandVars, runVars
  <2> QED
    BY <2>1, <2>2, <2>3, <2>4 DEF Next, Only, vars
<1>3. Inv => AutonomyIsBounded
  BY QueueKept, RunsKept DEF AutonomyIsBounded
<1> QED
  BY <1>1, <1>2, <1>3, PTL DEF Spec

----------------------------------------------------------------------------
\* Proxy rotation.

ProxyStates == [proxy_id : ConfiguredIds, enabled : BOOLEAN,
                health_status : {"healthy", "unhealthy", "disabled"}]

\* The place of a proxy that is so many places behind the cursor.
Turn(cursor, offset, n) == ((cursor + offset) % n) + 1

LEMMA TurnIs ==
    ASSUME NEW n \in Nat, n > 0, NEW c \in 0 .. n - 1, NEW o \in 0 .. n - 1
    PROVE  /\ Turn(c, o, n) = IF c + o < n THEN c + o + 1 ELSE c + o - n + 1
           /\ Turn(c, o, n) \in 1 .. n
  <1>1. CASE c + o < n
    <2>1. (c + o) % n = c + o
      BY <1>1
    <2> QED
      BY <1>1, <2>1 DEF Turn
  <1>2. CASE c + o >= n
    <2>1. c + o \in n .. 2 * n - 1
      BY <1>2
    <2>2. (c + o) % n = c + o - n
      BY <2>1
    <2> QED
      BY <1>2, <2>2 DEF Turn
  <1> QED
    BY <1>1, <1>2

\* Every place comes round.
LEMMA EveryTurnComes ==
    ASSUME NEW n \in Nat, n > 0, NEW c \in 0 .. n - 1, NEW i \in 1 .. n
    PROVE  \E o \in 0 .. n - 1 : Turn(c, o, n) = i
  <1>1. CASE i > c
    <2>1. i - 1 - c \in 0 .. n - 1 /\ Turn(c, i - 1 - c, n) = i
      BY <1>1, TurnIs
    <2> QED
      BY <2>1
  <1>2. CASE i <= c
    <2>1. i - 1 - c + n \in 0 .. n - 1 /\ Turn(c, i - 1 - c + n, n) = i
      BY <1>2, TurnIs
    <2> QED
      BY <2>1
  <1> QED
    BY <1>1, <1>2

\* After the lease at offset s the cursor stands behind it: the places beyond s
\* have come s + 1 nearer, and those up to s are behind all others.
LEMMA TurnsAfterLease ==
    ASSUME NEW n \in Nat, n > 0, NEW c \in 0 .. n - 1, NEW s \in 0 .. n - 1,
           NEW o \in 0 .. n - 1
    PROVE  LET next == Turn(c, s, n) % n
           IN  /\ next \in 0 .. n - 1
               /\ o + s + 1 < n => Turn(next, o, n) = Turn(c, o + s + 1, n)
               /\ o + s + 1 >= n => Turn(next, o, n) = Turn(c, o + s + 1 - n, n)
  <1> DEFINE place == Turn(c, s, n)
             next == place % n
  <1>1. place = IF c + s < n THEN c + s + 1 ELSE c + s - n + 1
    BY TurnIs
  <1>2. next = IF place = n THEN 0 ELSE place
    <2>0. place \in 1 .. n
      BY TurnIs
    <2> HIDE DEF place
    <2>1. CASE place = n
      BY <2>1
    <2>2. CASE place # n
      BY <2>0, <2>2
    <2> QED
      BY <2>1, <2>2
  <1>3. next \in 0 .. n - 1
    BY <1>1, <1>2
  <1> HIDE DEF place, next
  <1>4. Turn(next, o, n) = IF next + o < n THEN next + o + 1 ELSE next + o - n + 1
    BY <1>3, TurnIs
  <1>5. CASE o + s + 1 < n
    <2>1. o + s + 1 \in 0 .. n - 1
      BY <1>5
    <2>2. Turn(c, o + s + 1, n) = IF c + (o + s + 1) < n THEN c + (o + s + 1) + 1
                                  ELSE c + (o + s + 1) - n + 1
      BY <2>1, TurnIs
    <2> QED
      BY <1>1, <1>2, <1>3, <1>4, <1>5, <2>2 DEF next, place
  <1>6. CASE o + s + 1 >= n
    <2>1. o + s + 1 - n \in 0 .. n - 1
      BY <1>6
    <2>2. Turn(c, o + s + 1 - n, n) = IF c + (o + s + 1 - n) < n THEN c + (o + s + 1 - n) + 1
                                      ELSE c + (o + s + 1 - n) - n + 1
      BY <2>1, TurnIs
    <2> QED
      BY <1>1, <1>2, <1>3, <1>4, <1>6, <2>2 DEF next, place
  <1> QED
    BY <1>3, <1>5, <1>6 DEF next, place

\* A proxy that can be leased and comes so many places behind the cursor was passed
\* over so seldom that its turn comes in time.
TurnsInTime(proxies, cursor, over) ==
    \A o \in 0 .. Len(proxies) - 1 :
        IsLeasable(proxies[Turn(cursor, o, Len(proxies))]) =>
            over[proxies[Turn(cursor, o, Len(proxies))].proxy_id] + o < Len(proxies)

ProxiesInv ==
    /\ pool \in [revision : 0 .. MaxPoolRevision, rotation_cursor : Nat, proxies : Seq(ProxyStates)]
    /\ pool.rotation_cursor < Len(pool.proxies) \/ pool.rotation_cursor = 0
    /\ \A i, j \in DOMAIN pool.proxies :
           pool.proxies[i].proxy_id = pool.proxies[j].proxy_id => i = j
    /\ leaseAudit \in Seq(ConfiguredIds) /\ leaseEvents \in 0 .. Len(leaseAudit)
    /\ passedOver \in [ConfiguredIds -> Nat]
    /\ TurnsInTime(pool.proxies, pool.rotation_cursor, passedOver)

LEMMA ProxiesFirst == ProxiesInit => ProxiesInv
  <1> SUFFICES ASSUME ProxiesInit PROVE ProxiesInv
    OBVIOUS
  <1>1. /\ pool.revision = 0 /\ pool.rotation_cursor = 0 /\ pool.proxies = <<>>
        /\ pool \in [revision : 0 .. MaxPoolRevision, rotation_cursor : Nat, proxies : Seq(ProxyStates)]
    BY ConfigsAssumption DEF ProxiesInit
  <1>2. leaseAudit \in Seq(ConfiguredIds) /\ leaseEvents \in 0 .. Len(leaseAudit)
    BY DEF ProxiesInit
  <1>3. passedOver \in [ConfiguredIds -> Nat]
    BY DEF ProxiesInit, Nobody
  <1> QED
    BY <1>1, <1>2, <1>3 DEF ProxiesInv, TurnsInTime

\* upsert_pool: nobody was passed over in the new pool.
LEMMA PoolUpserted ==
    ASSUME ProxiesInv, NEW config \in ProxyConfigs, UpsertPool(config)
    PROVE  ProxiesInv'
  <1>1. /\ config \in Seq([proxy_id : ConfiguredIds, enabled : BOOLEAN])
        /\ \A i, j \in DOMAIN config : config[i].proxy_id = config[j].proxy_id => i = j
        /\ MaxPoolRevision \in Nat
    BY ConfigsAssumption
  <1> DEFINE states == [i \in DOMAIN config |-> StateFromConfig(config[i])]
  <1>2. /\ Len(config) \in Nat /\ DOMAIN config = 1 .. Len(config)
        /\ \A i \in DOMAIN config : config[i] \in [proxy_id : ConfiguredIds, enabled : BOOLEAN]
    BY <1>1, ItemsOf
  <1>3. \A i \in DOMAIN config : /\ states[i] \in ProxyStates
                                 /\ states[i].proxy_id = config[i].proxy_id
    BY <1>2 DEF StateFromConfig, ProxyStates
  <1>4. DOMAIN states = 1 .. Len(config)
    BY <1>2
  <1>5. pool.revision + 1 \in 0 .. MaxPoolRevision
    BY <1>1 DEF ProxiesInv, UpsertPool
  <1>6. /\ pool' = [revision |-> pool.revision + 1, rotation_cursor |-> 0, proxies |-> states]
        /\ passedOver' = Nobody /\ leaseAudit' = leaseAudit /\ leaseEvents' = leaseEvents
    BY DEF UpsertPool
  <1> HIDE DEF states
  <1>7. states \in Seq(ProxyStates) /\ Len(states) = Len(config)
    <2>1. states \in [1 .. Len(config) -> ProxyStates]
      <3>1. states = [i \in 1 .. Len(config) |-> states[i]]
        BY <1>2 DEF states
      <3> QED
        BY <1>2, <1>3, <3>1
    <2> QED
      BY <1>2, <2>1
  <1>8. \A n \in Nat : n > 0 => \A o \in 0 .. n - 1 : Turn(0, o, n) \in 1 .. n
    BY TurnIs
  <1>9. TurnsInTime(states, 0, Nobody)
    <2> SUFFICES ASSUME NEW o \in 0 .. Len(states) - 1
                 PROVE  Nobody[states[Turn(0, o, Len(states))].proxy_id] + o < Len(states)
      BY DEF TurnsInTime
    <2>1. Turn(0, o, Len(states)) \in 1 .. Len(states)
      BY <1>2, <1>7, <1>8
    <2>2. states[Turn(0, o, Len(states))].proxy_id \in ConfiguredIds
      BY <1>2, <1>3, <1>7, <2>1 DEF ProxyStates
    <2>3. Nobody[states[Turn(0, o, Len(states))].proxy_id] = 0
      BY <2>2 DEF Nobody
    <2> QED
      BY <1>2, <1>7, <2>3
  <1>10. Nobody \in [ConfiguredIds -> Nat]
    BY DEF Nobody
  <1> QED
    BY <1>1, <1>2, <1>3, <1>4, <1>5, <1>6, <1>7, <1>9, <1>10 DEF ProxiesInv

\* What a place behind the cursor names, in a state of the invariant.
LEMMA PlaceNamed ==
    ASSUME ProxiesInv, NEW o \in 0 .. Len(pool.proxies) - 1
    PROVE  /\ Len(pool.proxies) \in Nat /\ Len(pool.proxies) > 0
           /\ pool.rotation_cursor \in 0 .. Len(pool.proxies) - 1
           /\ DOMAIN pool.proxies = 1 .. Len(pool.proxies)
           /\ At(o) = Turn(pool.rotation_cursor, o, Len(pool.proxies))
           /\ At(o) \in DOMAIN pool.proxies
           /\ pool.proxies[At(o)] \in ProxyStates
           /\ pool.proxies[At(o)].proxy_id \in ConfiguredIds
  <1>1. pool.proxies \in Seq(ProxyStates) /\ pool.rotation_cursor \in Nat
    BY DEF ProxiesInv
  <1>2. /\ Len(pool.proxies) \in Nat /\ DOMAIN pool.proxies = 1 .. Len(pool.proxies)
        /\ \A i \in DOMAIN pool.proxies : pool.proxies[i] \in ProxyStates
    BY <1>1, ItemsOf
  <1>3. Len(pool.proxies) > 0 /\ pool.rotation_cursor \in 0 .. Len(pool.proxies) - 1
    BY <1>1, <1>2 DEF ProxiesInv
  <1>4. At(o) = Turn(pool.rotation_cursor, o, Len(pool.proxies))
    BY DEF At, Turn
  <1>5. At(o) \in DOMAIN pool.proxies
    BY <1>2, <1>3, <1>4, TurnIs
  <1> QED
    BY <1>2, <1>3, <1>4, <1>5 DEF ProxyStates

\* check_pool_health: the rotation goes on, and a proxy that could not be leased
\* starts with nobody before it.
LEMMA PoolChecked ==
    ASSUME ProxiesInv, NEW i \in DOMAIN pool.proxies, NEW alive \in BOOLEAN,
           CheckPoolHealth(i, alive)
    PROVE  ProxiesInv'
  <1> DEFINE checked == Checked(pool.proxies[i], alive)
             proxies == [pool.proxies EXCEPT ![i] = checked]
             n == Len(pool.proxies)
  <1>1. /\ pool.proxies \in Seq(ProxyStates) /\ pool.rotation_cursor \in Nat
        /\ pool.revision \in 0 .. MaxPoolRevision
        /\ \A j, k \in DOMAIN pool.proxies :
               pool.proxies[j].proxy_id = pool.proxies[k].proxy_id => j = k
        /\ passedOver \in [ConfiguredIds -> Nat]
    BY DEF ProxiesInv
  <1>2. /\ n \in Nat /\ DOMAIN pool.proxies = 1 .. n
        /\ \A j \in DOMAIN pool.proxies : pool.proxies[j] \in ProxyStates
    BY <1>1, ItemsOf
  <1>3. checked \in ProxyStates /\ checked.proxy_id = pool.proxies[i].proxy_id
    BY <1>2 DEF Checked, ProxyStates
  <1> HIDE DEF checked
  <1>4. /\ proxies \in Seq(ProxyStates) /\ Len(proxies) = n /\ DOMAIN proxies = 1 .. n
        /\ \A j \in DOMAIN proxies : /\ proxies[j].proxy_id = pool.proxies[j].proxy_id
                                     /\ j # i => proxies[j] = pool.proxies[j]
    BY <1>1, <1>2, <1>3
  <1>5. /\ pool' = [revision |-> pool.revision + 1, rotation_cursor |-> pool.rotation_cursor,
                    proxies |-> proxies]
        /\ leaseAudit' = leaseAudit /\ leaseEvents' = leaseEvents
    BY DEF CheckPoolHealth, PoolAfterCheck, checked
  <1>6. pool.revision + 1 \in 0 .. MaxPoolRevision
    BY <1>1, ConfigsAssumption DEF CheckPoolHealth
  <1>7. /\ passedOver' \in [ConfiguredIds -> Nat]
        /\ \A p \in ConfiguredIds :
               passedOver'[p] = IF p \in LeasableIds(pool.proxies) THEN passedOver[p] ELSE 0
    BY <1>1 DEF CheckPoolHealth
  <1> HIDE DEF proxies
  <1>8. TurnsInTime(proxies, pool.rotation_cursor, passedOver')
    <2> SUFFICES ASSUME NEW o \in 0 .. n - 1
                 PROVE  passedOver'[proxies[At(o)].proxy_id] + o < n
      BY <1>4, PlaceNamed DEF TurnsInTime
    <2>1. /\ At(o) \in DOMAIN pool.proxies /\ pool.proxies[At(o)].proxy_id \in ConfiguredIds
          /\ At(o) = Turn(pool.rotation_cursor, o, n)
      BY PlaceNamed
    <2> DEFINE p == pool.proxies[At(o)].proxy_id
    <2>2. proxies[At(o)].proxy_id = p
      BY <1>2, <1>4, <2>1
    <2>3. CASE p \in LeasableIds(pool.proxies)
      <3>1. PICK j \in DOMAIN pool.proxies :
               IsLeasable(pool.proxies[j]) /\ pool.proxies[j].proxy_id = p
        BY <2>3 DEF LeasableIds
      <3>2. j = At(o)
        BY <1>1, <2>1, <3>1
      <3>3. passedOver[p] + o < n
        BY <2>1, <3>1, <3>2 DEF ProxiesInv, TurnsInTime
      <3> QED
        BY <1>7, <2>1, <2>2, <2>3, <3>3
    <2>4. CASE p \notin LeasableIds(pool.proxies)
      <3>1. passedOver'[p] = 0
        BY <1>7, <2>1, <2>4
      <3> QED
        BY <1>2, <2>2, <3>1
    <2> QED
      BY <2>3, <2>4
  <1>9. \A j, k \in DOMAIN proxies : proxies[j].proxy_id = proxies[k].proxy_id => j = k
    BY <1>1, <1>2, <1>4
  <1>10. pool.rotation_cursor < n \/ pool.rotation_cursor = 0
    BY DEF ProxiesInv
  <1> QED
    BY <1>1, <1>4, <1>5, <1>6, <1>7, <1>8, <1>9, <1>10 DEF ProxiesInv

\* The first live proxy from the cursor on: none before it is live.
LEMMA FirstLive ==
    ASSUME ProxiesInv, LiveOffsets # {}
    PROVE  \E s \in LiveOffsets : /\ SelectLive = At(s)
                                  /\ \A other \in LiveOffsets : s <= other
  <1>1. LiveOffsets \subseteq Nat
    <2>1. Len(pool.proxies) \in Nat
      BY ItemsOf DEF ProxiesInv
    <2> QED
      BY <2>1 DEF LiveOffsets
  <1>2. \E s \in LiveOffsets : \A other \in LiveOffsets : s <= other
    BY <1>1, LeastNat
  <1> QED
    BY <1>2 DEF SelectLive

\* lease_proxy: those that come later were passed over once more and are nearer.
LEMMA ProxyLeased ==
    ASSUME ProxiesInv, NEW accepted \in BOOLEAN, LeaseProxy(accepted)
    PROVE  ProxiesInv'
  <1> DEFINE n == Len(pool.proxies)
             c == pool.rotation_cursor
  <1>1. PICK s \in LiveOffsets : /\ SelectLive = At(s)
                                /\ \A other \in LiveOffsets : s <= other
    BY FirstLive DEF LeaseProxy
  <1>2. s \in 0 .. n - 1
    BY <1>1 DEF LiveOffsets
  <1>3. /\ n \in Nat /\ n > 0 /\ c \in 0 .. n - 1 /\ DOMAIN pool.proxies = 1 .. n
        /\ At(s) = Turn(c, s, n) /\ At(s) \in DOMAIN pool.proxies
        /\ pool.proxies[At(s)].proxy_id \in ConfiguredIds
    BY <1>2, PlaceNamed
  <1> DEFINE id == pool.proxies[At(s)].proxy_id
             next == Turn(c, s, n) % n
  <1>4. /\ pool' = [pool EXCEPT !.rotation_cursor = next]
        /\ leaseAudit' = Append(leaseAudit, id)
        /\ passedOver' = [p \in ConfiguredIds |->
               IF p = id \/ p \notin LeasableIds(pool.proxies) THEN 0 ELSE passedOver[p] + 1]
        /\ leaseEvents' = IF accepted THEN leaseEvents + 1 ELSE leaseEvents
    BY <1>1, <1>3 DEF LeaseProxy
  <1>5. next \in 0 .. n - 1
    BY <1>2, <1>3, TurnsAfterLease
  <1>6. /\ pool \in [revision : 0 .. MaxPoolRevision, rotation_cursor : Nat, proxies : Seq(ProxyStates)]
        /\ \A i, j \in DOMAIN pool.proxies :
               pool.proxies[i].proxy_id = pool.proxies[j].proxy_id => i = j
        /\ leaseAudit \in Seq(ConfiguredIds) /\ leaseEvents \in 0 .. Len(leaseAudit)
        /\ passedOver \in [ConfiguredIds -> Nat]
        /\ TurnsInTime(pool.proxies, c, passedOver)
    BY DEF ProxiesInv
  <1> HIDE DEF next, id
  <1>7. /\ pool' \in [revision : 0 .. MaxPoolRevision, rotation_cursor : Nat, proxies : Seq(ProxyStates)]
        /\ pool'.proxies = pool.proxies /\ pool'.rotation_cursor = next
    <2>1. next \in Nat
      BY <1>3, <1>5
    <2>2. DOMAIN pool = {"revision", "rotation_cursor", "proxies"}
      BY <1>6
    <2>3. /\ pool'.revision = pool.revision /\ pool'.rotation_cursor = next
          /\ pool'.proxies = pool.proxies
          /\ pool' = [revision |-> pool'.revision, rotation_cursor |-> pool'.rotation_cursor,
                      proxies |-> pool'.proxies]
      BY <1>4, <1>6
    <2> QED
      BY <1>6, <2>1, <2>3
  <1>8. leaseAudit' \in Seq(ConfiguredIds) /\ leaseEvents' \in 0 .. Len(leaseAudit')
    <2>1. id \in ConfiguredIds
      BY <1>3 DEF id
    <2>2. /\ Append(leaseAudit, id) \in Seq(ConfiguredIds) /\ Len(leaseAudit) \in Nat
          /\ Len(Append(leaseAudit, id)) = Len(leaseAudit) + 1
      BY <1>6, <2>1, OneMore
    <2> QED
      BY <1>4, <1>6, <2>2
  <1>9. passedOver' \in [ConfiguredIds -> Nat]
    BY <1>4, <1>6
  <1>10. TurnsInTime(pool.proxies, next, passedOver')
    <2> SUFFICES ASSUME NEW o \in 0 .. n - 1, IsLeasable(pool.proxies[Turn(next, o, n)])
                 PROVE  passedOver'[pool.proxies[Turn(next, o, n)].proxy_id] + o < n
      BY DEF TurnsInTime
    <2>1. /\ o + s + 1 < n => Turn(next, o, n) = Turn(c, o + s + 1, n)
          /\ o + s + 1 >= n => Turn(next, o, n) = Turn(c, o + s + 1 - n, n)
      BY <1>2, <1>3, TurnsAfterLease DEF next
    <2>2. CASE o + s + 1 < n
      <3> DEFINE p == pool.proxies[Turn(next, o, n)].proxy_id
      <3>1. o + s + 1 \in 0 .. n - 1
        BY <1>2, <1>3, <2>2
      <3>2. p \in ConfiguredIds
        BY <2>1, <2>2, <3>1, PlaceNamed
      <3>3. passedOver[p] + (o + s + 1) < n
        BY <1>6, <2>1, <2>2, <3>1 DEF TurnsInTime
      <3>4. passedOver'[p] \in Nat /\ passedOver'[p] <= passedOver[p] + 1
        BY <1>4, <1>6, <3>2, SMTT(30)
      <3> HIDE DEF p
      <3>5. passedOver[p] \in Nat
        BY <1>6, <3>2
      <3>6. passedOver'[p] + o < n
        BY <1>2, <1>3, <3>3, <3>4, <3>5, SMTT(30)
      <3> QED
        BY <3>6 DEF p
    <2>3. CASE o + s + 1 >= n
      <3> DEFINE before == o + s + 1 - n
      <3>1. before \in 0 .. n - 1 /\ before <= s
        BY <1>2, <1>3, <2>3
      <3>2. Turn(next, o, n) = At(before)
        BY <2>1, <2>3, <3>1, PlaceNamed
      <3>3. before \in LiveOffsets
        BY <3>1, <3>2 DEF LiveOffsets
      <3>4. before = s
        <4>1. s <= before
          BY <1>1, <3>3
        <4> HIDE DEF before
        <4> QED
          BY <1>2, <1>3, <3>1, <4>1
      <3>5. passedOver'[pool.proxies[Turn(next, o, n)].proxy_id] = 0
        <4>1. pool.proxies[Turn(next, o, n)].proxy_id = id
          BY <3>2, <3>4 DEF id
        <4> QED
          BY <1>3, <1>4, <4>1 DEF id
      <3> QED
        BY <1>3, <3>5
    <2> QED
      BY <1>2, <1>3, <2>2, <2>3
  <1> QED
    BY <1>5, <1>6, <1>7, <1>8, <1>9, <1>10 DEF ProxiesInv

LEMMA ProxiesStep == ProxiesInv /\ [ProxiesNext]_proxyVars => ProxiesInv'
  <1> SUFFICES ASSUME ProxiesInv, [ProxiesNext]_proxyVars PROVE ProxiesInv'
    OBVIOUS
  <1>1. CASE UNCHANGED proxyVars
    BY <1>1 DEF proxyVars, ProxiesInv, TurnsInTime
  <1>2. CASE ProxiesNext
    BY <1>2, PoolUpserted, PoolChecked, ProxyLeased DEF ProxiesNext
  <1> QED
    BY <1>1, <1>2

\* A proxy that can be leased is passed over at most as often as there are others in
\* its pool, for any pools, health checks and leases in between.
THEOREM ProxiesInTurn == ProxiesSpec => []ProxiesTakeTurns
  <1>1. ProxiesInv => ProxiesTakeTurns
    <2> SUFFICES ASSUME ProxiesInv PROVE ProxiesTakeTurns
      OBVIOUS
    <2>1. /\ pool.proxies \in Seq(ProxyStates) /\ pool.rotation_cursor \in Nat
          /\ pool.revision \in 0 .. MaxPoolRevision
      BY DEF ProxiesInv
    <2>2. /\ Len(pool.proxies) \in Nat /\ DOMAIN pool.proxies = 1 .. Len(pool.proxies)
          /\ \A i \in DOMAIN pool.proxies : pool.proxies[i] \in ProxyStates
      BY <2>1, ItemsOf
    <2>3. ToSet(leaseAudit) \subseteq ConfiguredIds
      BY ItemsOf DEF ProxiesInv, ToSet
    <2>4. ProxiesTypeOK
      BY <2>1, <2>2, <2>3 DEF ProxiesInv, ProxiesTypeOK
    <2>5. ASSUME NEW p \in LeasableIds(pool.proxies)
          PROVE  passedOver[p] < Len(pool.proxies)
      <3>1. PICK i \in DOMAIN pool.proxies :
               IsLeasable(pool.proxies[i]) /\ pool.proxies[i].proxy_id = p
        BY <2>5 DEF LeasableIds
      <3>2. Len(pool.proxies) > 0 /\ pool.rotation_cursor \in 0 .. Len(pool.proxies) - 1
        BY <2>1, <2>2, <3>1 DEF ProxiesInv
      <3>3. PICK o \in 0 .. Len(pool.proxies) - 1 :
               Turn(pool.rotation_cursor, o, Len(pool.proxies)) = i
        BY <2>2, <3>1, <3>2, EveryTurnComes
      <3>4. passedOver[p] + o < Len(pool.proxies)
        BY <3>1, <3>3 DEF ProxiesInv, TurnsInTime
      <3>5. passedOver[p] \in Nat
        BY <2>2, <3>1 DEF ProxiesInv, ProxyStates
      <3> QED
        BY <2>2, <3>4, <3>5
    <2> QED
      BY <2>4, <2>5 DEF ProxiesTakeTurns
  <1> QED
    BY <1>1, ProxiesFirst, ProxiesStep, PTL DEF ProxiesSpec

----------------------------------------------------------------------------
\* The Telegram bridge.

MemberRefs == MembersLinked \cup {Unlinked}
Exchanges == [poll : Polls, message : Nat, member : MemberRefs, proxy : 0 .. RotatorSize]
PollIdle == [at : {"idle"}]
PollReads == [at : {"reading", "done"}, reply_to_messages : BOOLEAN, yielded : SUBSET Nat,
              ignored : SUBSET Nat, handled : SUBSET Nat, failed : SUBSET Nat]
PollTalks == [at : {"announcing", "replying"}, exchange : Exchanges,
              reply_to_messages : BOOLEAN, yielded : SUBSET Nat,
              ignored : SUBSET Nat, handled : SUBSET Nat, failed : SUBSET Nat]
Rotators == [registered : BOOLEAN, cursor : 0 .. RotatorSize - 1, healthy : SUBSET (1 .. RotatorSize)]
Talks(q) == q.at \in {"announcing", "replying"}
Current(q) == IF Talks(q) THEN {q.exchange.message} ELSE {}

Announced(p, m) == \E x \in commandEvents : x.poll = p /\ x.message = m
AnsweredOnce(p, m) == \E x \in commandEvents, i \in DOMAIN replies :
    /\ x.poll = p /\ x.message = m
    /\ RepliesTo(p, m) = {i} /\ replies[i].member = x.member

\* The books of a poll: the message it is answering is in none of them yet.
Accounted(p, q) ==
    /\ q.yielded = q.ignored \cup q.handled \cup q.failed \cup Current(q)
    /\ q.handled \cap (q.failed \cup q.ignored) = {}
    /\ Current(q) \cap (q.ignored \cup q.handled \cup q.failed) = {}
    /\ Talks(q) => q.exchange.poll = p /\ q.exchange \in commandAudit
    /\ q.at = "replying" => q.exchange \in commandEvents
    /\ \A m \in q.handled : Announced(p, m) /\ (q.reply_to_messages => AnsweredOnce(p, m))

BridgeTyped ==
    /\ linkByAccount \in [Accounts -> MemberRefs]
    /\ inbox \in Seq(Accounts \cup {NoSender})
    /\ rotator \in Rotators
    /\ commandEvents \subseteq commandAudit
    /\ replies \in Seq([poll : Polls, message : Nat, member : MemberRefs])

BooksKept ==
    /\ polling \in [Polls -> PollIdle \cup PollReads \cup PollTalks]
    /\ \A p \in Polls : polling[p].at # "idle" => Accounted(p, polling[p])
    /\ \A i \in DOMAIN replies :
          /\ polling[replies[i].poll].at # "idle" /\ polling[replies[i].poll].reply_to_messages
          /\ replies[i].message \in polling[replies[i].poll].handled

UpdatesInv == BridgeTyped /\ BooksKept

LEMMA UpdatesFirst == UpdatesInit => UpdatesInv
  BY RotatorAssumption DEF UpdatesInit, UpdatesInv, BridgeTyped, BooksKept, MemberRefs, PollIdle, Rotators

LEMMA ReplyFields ==
    ASSUME UpdatesInv
    PROVE  /\ Len(replies) \in Nat /\ DOMAIN replies = 1 .. Len(replies)
           /\ \A i \in DOMAIN replies : /\ replies[i].poll \in Polls
                                        /\ replies[i].message \in Nat
  <1>1. replies \in Seq([poll : Polls, message : Nat, member : MemberRefs])
    BY DEF UpdatesInv, BridgeTyped
  <1>2. /\ Len(replies) \in Nat /\ DOMAIN replies = 1 .. Len(replies)
        /\ \A i \in DOMAIN replies :
               replies[i] \in [poll : Polls, message : Nat, member : MemberRefs]
    BY <1>1, ItemsOf
  <1> QED
    BY <1>2

\* Where a poll stands tells what its record holds.
LEMMA PollShapes ==
    ASSUME BooksKept, NEW p \in Polls
    PROVE  /\ polling[p].at = "idle" <=> polling[p] \in PollIdle
           /\ polling[p].at \in {"reading", "done"} <=> polling[p] \in PollReads
           /\ Talks(polling[p]) <=> polling[p] \in PollTalks
           /\ polling[p].at \in {"idle", "reading", "announcing", "replying", "done"}
  BY DEF BooksKept, PollIdle, PollReads, PollTalks, Talks

\* One poll goes on and no reply is sent, as what it handles now asks for none: the books
\* of the others stay kept.
LEMMA PollGoesOn ==
    ASSUME UpdatesInv, NEW p \in Polls, NEW q \in PollReads \cup PollTalks,
           polling' = [polling EXCEPT ![p] = q], replies' = replies,
           commandAudit \subseteq commandAudit', commandEvents \subseteq commandEvents',
           polling[p].at # "idle" => /\ polling[p].handled \subseteq q.handled
                                     /\ q.reply_to_messages = polling[p].reply_to_messages,
           \A m \in q.handled :
              \/ (polling[p].at # "idle" /\ m \in polling[p].handled)
              \/ (~q.reply_to_messages /\ Announced(p, m)),
           q.yielded = q.ignored \cup q.handled \cup q.failed \cup Current(q),
           q.handled \cap (q.failed \cup q.ignored) = {},
           Current(q) \cap (q.ignored \cup q.handled \cup q.failed) = {},
           Talks(q) => q.exchange.poll = p /\ q.exchange \in commandAudit',
           q.at = "replying" => q.exchange \in commandEvents'
    PROVE  BooksKept'
  <1>1. /\ polling \in [Polls -> PollIdle \cup PollReads \cup PollTalks]
        /\ \A r \in Polls : polling[r].at # "idle" => Accounted(r, polling[r])
        /\ \A i \in DOMAIN replies :
              /\ polling[replies[i].poll].at # "idle" /\ polling[replies[i].poll].reply_to_messages
              /\ replies[i].message \in polling[replies[i].poll].handled
        /\ \A i \in DOMAIN replies : replies[i].poll \in Polls
    BY ReplyFields DEF UpdatesInv, BooksKept
  <1>2. /\ polling' \in [Polls -> PollIdle \cup PollReads \cup PollTalks] /\ polling'[p] = q
        /\ \A r \in Polls : r # p => polling'[r] = polling[r]
    <2> DEFINE States == PollIdle \cup PollReads \cup PollTalks
    <2>1. q \in States /\ polling \in [Polls -> States]
      BY <1>1
    <2> HIDE DEF States
    <2>2. /\ polling' \in [Polls -> States] /\ polling'[p] = q
          /\ \A r \in Polls : r # p => polling'[r] = polling[r]
      BY <2>1
    <2> QED
      BY <2>2 DEF States
  <1>3. ASSUME NEW r \in Polls, NEW m
        PROVE  (AnsweredOnce(r, m) => AnsweredOnce(r, m)') /\ (Announced(r, m) => Announced(r, m)')
    BY DEF AnsweredOnce, RepliesTo, Announced
  <1>4. q.at # "idle"
    BY DEF PollReads, PollTalks
  <1>5. ASSUME NEW r \in Polls, polling'[r].at # "idle" PROVE Accounted(r, polling[r])'
    <2>1. CASE r = p
      <3>1. \A m \in q.handled : Announced(p, m) /\ (q.reply_to_messages => AnsweredOnce(p, m))
        BY <1>1 DEF Accounted
      <3>2. \A m \in q.handled : Announced(p, m)' /\ (q.reply_to_messages => AnsweredOnce(p, m)')
        BY <1>3, <3>1
      <3> QED
        BY <1>2, <2>1, <3>2 DEF Accounted, Current, Talks
    <2>2. CASE r # p
      <3>1. polling'[r] = polling[r] /\ Accounted(r, polling[r])
        BY <1>1, <1>2, <1>5, <2>2
      <3>2. \A m \in polling[r].handled :
               Announced(r, m)' /\ (polling[r].reply_to_messages => AnsweredOnce(r, m)')
        BY <1>3, <3>1 DEF Accounted
      <3> QED
        BY <3>1, <3>2 DEF Accounted, Current, Talks
    <2> QED
      BY <2>1, <2>2
  <1>6. ASSUME NEW i \in DOMAIN replies
        PROVE  /\ polling'[replies[i].poll].at # "idle" /\ polling'[replies[i].poll].reply_to_messages
               /\ replies[i].message \in polling'[replies[i].poll].handled
    BY <1>1, <1>2, <1>4
  <1> QED
    BY <1>2, <1>5, <1>6 DEF BooksKept

\* The endpoint that is leased is one of the healthy ones.
LEMMA LeasedIsHealthy ==
    ASSUME UpdatesInv, rotator.healthy # {}
    PROVE  /\ LeasedEndpoint \in rotator.healthy /\ LeasedEndpoint \in 1 .. RotatorSize
           /\ LeasedEndpoint % RotatorSize \in 0 .. RotatorSize - 1
  <1> DEFINE n == RotatorSize
             alive == {o \in 0 .. n - 1 : EndpointAt(o) \in rotator.healthy}
  <1>1. /\ n \in Nat /\ n > 0 /\ rotator.cursor \in 0 .. n - 1
        /\ rotator.healthy \subseteq 1 .. n
    BY RotatorAssumption DEF UpdatesInv, BridgeTyped, Rotators
  <1>2. \A o : EndpointAt(o) = Turn(rotator.cursor, o, n)
    BY DEF EndpointAt, Turn
  <1>3. PICK e \in 1 .. n : e \in rotator.healthy
    BY <1>1
  <1>4. \E o \in 0 .. n - 1 : EndpointAt(o) = e
    BY <1>1, <1>2, EveryTurnComes
  <1>5. alive # {} /\ alive \subseteq Nat
    BY <1>3, <1>4
  <1>6. PICK o \in alive : \A other \in alive : o <= other
    <2> HIDE DEF alive
    <2> QED
      BY <1>5, LeastNat
  <1>7. /\ o \in 0 .. n - 1 /\ EndpointAt(o) \in rotator.healthy
        /\ \A earlier \in 0 .. o - 1 : EndpointAt(earlier) \notin rotator.healthy
    <2>1. o \in 0 .. n - 1 /\ EndpointAt(o) \in rotator.healthy
      BY <1>6
    <2>2. ASSUME NEW earlier \in 0 .. o - 1, EndpointAt(earlier) \in rotator.healthy
          PROVE  FALSE
      <3>1. earlier \in 0 .. n - 1 /\ ~(o <= earlier)
        BY <1>1, <2>1
      <3>2. earlier \in alive
        BY <2>2, <3>1
      <3> QED
        BY <1>6, <3>1, <3>2
    <2> QED
      BY <2>1, <2>2
  <1>8. LeasedEndpoint \in rotator.healthy
    BY <1>7 DEF LeasedEndpoint
  <1>9. LeasedEndpoint \in 1 .. n
    BY <1>1, <1>8
  <1> HIDE DEF alive
  <1>10. \A x \in 1 .. n : x % n \in 0 .. n - 1
    BY <1>1
  <1> QED
    BY <1>8, <1>9, <1>10

\* The steps that neither answer nor talk: messages, links, health.
LEMMA ChatStep ==
    ASSUME UpdatesInv,
           \/ \E sender \in Accounts \cup {NoSender} : ReceiveMessage(sender)
           \/ \E account \in Accounts, member \in MembersLinked : LinkAccount(account, member)
           \/ RegisterPool
           \/ \E endpoint \in 1 .. RotatorSize, healthy \in BOOLEAN : MarkHealth(endpoint, healthy)
    PROVE  UpdatesInv'
  <1>0. /\ BridgeTyped /\ BooksKept
        /\ polling' = polling /\ replies' = replies
        /\ commandAudit' = commandAudit /\ commandEvents' = commandEvents
    BY DEF UpdatesInv, ReceiveMessage, LinkAccount, RegisterPool, MarkHealth
  <1>1. BooksKept'
    BY <1>0 DEF BooksKept, Accounted, Current, Talks, AnsweredOnce, Announced, RepliesTo
  <1>2. CASE \E sender \in Accounts \cup {NoSender} : ReceiveMessage(sender)
    <2>1. inbox' \in Seq(Accounts \cup {NoSender})
      BY <1>0, <1>2, OneMore DEF ReceiveMessage, BridgeTyped
    <2> QED
      BY <1>0, <1>1, <1>2, <2>1 DEF ReceiveMessage, BridgeTyped, UpdatesInv
  <1>3. CASE \E account \in Accounts, member \in MembersLinked : LinkAccount(account, member)
    <2>1. linkByAccount' \in [Accounts -> MemberRefs]
      BY <1>0, <1>3 DEF LinkAccount, BridgeTyped, MemberRefs
    <2> QED
      BY <1>0, <1>1, <1>3, <2>1 DEF LinkAccount, BridgeTyped, UpdatesInv
  <1>4. CASE \E endpoint \in 1 .. RotatorSize, healthy \in BOOLEAN : MarkHealth(endpoint, healthy)
    <2>1. rotator' \in Rotators
      BY <1>0, <1>4 DEF MarkHealth, BridgeTyped, Rotators
    <2> QED
      BY <1>0, <1>1, <1>4, <2>1 DEF MarkHealth, BridgeTyped, UpdatesInv
  <1>5. CASE RegisterPool
    <2>1. rotator' \in Rotators
      BY <1>5, RotatorAssumption DEF RegisterPool, Rotators
    <2> QED
      BY <1>0, <1>1, <1>5, <2>1 DEF RegisterPool, BridgeTyped, UpdatesInv
  <1> QED
    BY <1>2, <1>3, <1>4, <1>5

\* A poll begins, ends, or passes over a message without an exchange.
LEMMA PollReadsOn ==
    ASSUME UpdatesInv, NEW p \in Polls,
           \/ BeginPoll(p, p \notin Silent)
           \/ EndPoll(p)
           \/ \E m \in 1 .. MaxMessages : ReadIgnored(p, m) \/ UpdateRefused(p, m)
    PROVE  UpdatesInv'
  <1>0. /\ BridgeTyped /\ BooksKept
        /\ polling \in [Polls -> PollIdle \cup PollReads \cup PollTalks]
        /\ replies' = replies /\ inbox' = inbox /\ linkByAccount' = linkByAccount
        /\ rotator' = rotator
        /\ commandAudit' = commandAudit /\ commandEvents' = commandEvents
    BY DEF UpdatesInv, BooksKept, BeginPoll, EndPoll, ReadIgnored, UpdateRefused
  <1>1. BridgeTyped'
    BY <1>0 DEF BridgeTyped
  <1>2. ASSUME NEW wanted \in BOOLEAN, BeginPoll(p, wanted) PROVE UpdatesInv'
    <2> DEFINE q == [at |-> "reading", reply_to_messages |-> wanted, yielded |-> {}, ignored |-> {}, handled |-> {}, failed |-> {}]
    <2>1. /\ q \in PollReads /\ ~Talks(q) /\ q.at # "replying" /\ q.yielded = {} /\ q.ignored = {}
          /\ q.handled = {} /\ q.failed = {}
      BY DEF PollReads, Talks
    <2>2. polling' = [polling EXCEPT ![p] = q] /\ polling[p].at = "idle"
      BY <1>2 DEF BeginPoll
    <2> HIDE DEF q
    <2>3. BooksKept'
      BY <1>0, <2>1, <2>2, PollGoesOn DEF Current
    <2> QED
      BY <1>1, <2>3 DEF UpdatesInv
  <1>3. CASE EndPoll(p)
    <2> DEFINE old == polling[p]
               q == [at |-> "done", reply_to_messages |-> old.reply_to_messages,
                     yielded |-> old.yielded, ignored |-> old.ignored,
                     handled |-> old.handled, failed |-> old.failed]
    <2>1. old.at = "reading" /\ old \in PollReads /\ Accounted(p, old)
      BY <1>0, <1>3, PollShapes DEF EndPoll, BooksKept
    <2>2. /\ q \in PollReads /\ ~Talks(q) /\ q.at # "replying" /\ q.yielded = old.yielded
          /\ q.ignored = old.ignored /\ q.handled = old.handled /\ q.failed = old.failed
          /\ q.reply_to_messages = old.reply_to_messages
      BY <2>1 DEF PollReads, Talks
    <2>3. polling' = [polling EXCEPT ![p] = q]
      <3>1. [old EXCEPT !.at = "done"] = q
        BY <2>1 DEF PollReads
      <3> QED
        BY <1>3, <3>1 DEF EndPoll
    <2> HIDE DEF q
    <2>4. BooksKept'
      BY <1>0, <2>1, <2>2, <2>3, PollGoesOn DEF Current, Accounted, Talks
    <2> QED
      BY <1>1, <2>4 DEF UpdatesInv
  <1>4. ASSUME NEW m \in 1 .. MaxMessages, ReadIgnored(p, m) \/ UpdateRefused(p, m)
        PROVE  UpdatesInv'
    <2> DEFINE old == polling[p]
    <2>1. /\ old.at = "reading" /\ old \in PollReads /\ Accounted(p, old) /\ m \notin old.yielded
          /\ m \in Nat
      BY <1>0, <1>4, PollShapes, RotatorAssumption DEF ReadIgnored, UpdateRefused, BooksKept
    <2>2. ASSUME NEW ignored \in SUBSET {m}, NEW failed \in SUBSET {m},
                 ignored \cup failed = {m},
                 polling' = [polling EXCEPT ![p] = Counted(p, ignored, {}, failed)]
          PROVE  BooksKept'
      <3> DEFINE q == Counted(p, ignored, {}, failed)
      <3>1. /\ q \in PollReads /\ ~Talks(q) /\ q.at # "replying" /\ q.yielded = old.yielded \cup {m}
            /\ q.ignored = old.ignored \cup ignored /\ q.handled = old.handled
            /\ q.failed = old.failed \cup failed /\ q.reply_to_messages = old.reply_to_messages
        BY <2>1, <2>2 DEF PollReads, Talks, Counted
      <3>2. polling' = [polling EXCEPT ![p] = q]
        BY <2>2
      <3> HIDE DEF q
      <3>3. /\ q.yielded = q.ignored \cup q.handled \cup q.failed \cup Current(q)
            /\ q.handled \cap (q.failed \cup q.ignored) = {}
            /\ Current(q) = {}
        BY <2>1, <2>2, <3>1 DEF Accounted, Current, Talks
      <3> QED
        BY <1>0, <2>1, <3>1, <3>2, <3>3, PollGoesOn
    <2>3. CASE ReadIgnored(p, m)
      <3>1. {m} \in SUBSET {m} /\ {} \in SUBSET {m} /\ {m} \cup {} = {m}
        OBVIOUS
      <3>2. polling' = [polling EXCEPT ![p] = Counted(p, {m}, {}, {})]
        BY <2>3 DEF ReadIgnored
      <3>3. BooksKept'
        BY <2>2, <3>1, <3>2
      <3> QED
        BY <1>1, <3>3 DEF UpdatesInv
    <2>4. CASE UpdateRefused(p, m)
      <3>1. {m} \in SUBSET {m} /\ {} \in SUBSET {m} /\ {} \cup {m} = {m}
        OBVIOUS
      <3>2. polling' = [polling EXCEPT ![p] = Counted(p, {}, {}, {m})]
        BY <2>4 DEF UpdateRefused
      <3>3. BooksKept'
        BY <2>2, <3>1, <3>2
      <3> QED
        BY <1>1, <3>3 DEF UpdatesInv
    <2> QED
      BY <1>4, <2>3, <2>4
  <1> QED
    BY <1>2, <1>3, <1>4

\* handle_update up to the announcement: the exchange names the poll, the message
\* and the member as they are now, and is on record.
LEMMA ExchangeBegins ==
    ASSUME UpdatesInv, NEW p \in Polls, NEW m \in 1 .. MaxMessages, HandleUpdate(p, m)
    PROVE  UpdatesInv'
  <1> DEFINE old == polling[p]
             x == [poll |-> p, message |-> m, member |-> linkByAccount[inbox[m]],
                   proxy |-> LeasedProxy]
             q == [at |-> "announcing", exchange |-> x,
                   reply_to_messages |-> old.reply_to_messages, yielded |-> old.yielded \cup {m},
                   ignored |-> old.ignored, handled |-> old.handled, failed |-> old.failed]
  <1>0. BridgeTyped /\ BooksKept
    BY DEF UpdatesInv
  <1>1. /\ old.at = "reading" /\ old \in PollReads /\ Accounted(p, old) /\ m \notin old.yielded
        /\ m \in Nat /\ m \in DOMAIN inbox /\ inbox[m] # NoSender
        /\ rotator.registered => rotator.healthy # {}
    BY <1>0, PollShapes, RotatorAssumption DEF HandleUpdate, MayHandle, BooksKept
  <1>2. linkByAccount[inbox[m]] \in MemberRefs
    <2>1. inbox[m] \in Accounts
      BY <1>0, <1>1, ItemsOf DEF BridgeTyped
    <2> QED
      BY <1>0, <2>1 DEF BridgeTyped
  <1>3. /\ LeasedProxy \in 0 .. RotatorSize
        /\ rotator.registered => LeasedEndpoint % RotatorSize \in 0 .. RotatorSize - 1
    BY <1>1, LeasedIsHealthy, RotatorAssumption DEF LeasedProxy, NoProxy
  <1>4. x \in Exchanges /\ x.poll = p /\ x.message = m
    BY <1>1, <1>2, <1>3 DEF Exchanges
  <1>5. /\ commandAudit' = commandAudit \cup {x} /\ polling' = [polling EXCEPT ![p] = q]
        /\ rotator' = [rotator EXCEPT !.cursor = IF rotator.registered
                                                  THEN LeasedEndpoint % RotatorSize ELSE @]
        /\ UNCHANGED <<linkByAccount, inbox, commandEvents, replies, linkChanges>>
    BY <1>0 DEF HandleUpdate, BooksKept
  <1> HIDE DEF x
  <1>6. /\ q \in PollTalks /\ q.at = "announcing" /\ q.exchange = x /\ q.yielded = old.yielded \cup {m}
        /\ q.ignored = old.ignored /\ q.handled = old.handled /\ q.failed = old.failed
        /\ q.reply_to_messages = old.reply_to_messages
    BY <1>1, <1>4 DEF PollReads, PollTalks
  <1> HIDE DEF q
  <1>7. BooksKept'
    <2>1. Talks(q) /\ Current(q) = {m} /\ ~Talks(old) /\ Current(old) = {}
      BY <1>1, <1>4, <1>6 DEF Talks, Current
    <2>2. /\ q.yielded = q.ignored \cup q.handled \cup q.failed \cup Current(q)
          /\ q.handled \cap (q.failed \cup q.ignored) = {}
          /\ Current(q) \cap (q.ignored \cup q.handled \cup q.failed) = {}
      BY <1>1, <1>6, <2>1 DEF Accounted
    <2> QED
      BY <1>1, <1>4, <1>5, <1>6, <2>2, PollGoesOn
  <1>8. rotator' \in Rotators
    <2> DEFINE next == IF rotator.registered THEN LeasedEndpoint % RotatorSize ELSE rotator.cursor
    <2>1. next \in 0 .. RotatorSize - 1
      BY <1>0, <1>3 DEF BridgeTyped, Rotators
    <2>2. rotator' = [rotator EXCEPT !.cursor = next]
      BY <1>5
    <2> HIDE DEF next
    <2> QED
      BY <1>0, <2>1, <2>2 DEF BridgeTyped, Rotators
  <1> QED
    BY <1>0, <1>5, <1>7, <1>8 DEF BridgeTyped, UpdatesInv

\* The exchange is announced.
LEMMA ExchangeAnnounced ==
    ASSUME UpdatesInv, NEW p \in Polls, AnnounceCommand(p)
    PROVE  UpdatesInv'
  <1> DEFINE old == polling[p]
             q == [at |-> "replying", exchange |-> old.exchange,
                   reply_to_messages |-> old.reply_to_messages, yielded |-> old.yielded,
                   ignored |-> old.ignored, handled |-> old.handled, failed |-> old.failed]
  <1>0. BridgeTyped /\ BooksKept
    BY DEF UpdatesInv
  <1>1. old.at = "announcing" /\ Talks(old) /\ old \in PollTalks /\ Accounted(p, old)
    BY <1>0, PollShapes DEF AnnounceCommand, BooksKept, Talks
  <1>2. /\ commandEvents' = commandEvents \cup {old.exchange} /\ polling' = [polling EXCEPT ![p] = q]
        /\ UNCHANGED <<linkByAccount, inbox, commandAudit, replies, rotator, linkChanges>>
    <2>1. [old EXCEPT !.at = "replying"] = q
      BY <1>1 DEF PollTalks
    <2> QED
      BY <2>1 DEF AnnounceCommand
  <1>3. /\ q \in PollTalks /\ q.at = "replying" /\ q.exchange = old.exchange /\ q.yielded = old.yielded
        /\ q.ignored = old.ignored /\ q.handled = old.handled /\ q.failed = old.failed
        /\ q.reply_to_messages = old.reply_to_messages
    BY <1>1 DEF PollTalks
  <1> HIDE DEF q
  <1>4. Current(q) = Current(old) /\ Talks(q)
    BY <1>1, <1>3 DEF Current, Talks
  <1>5. BooksKept'
    BY <1>1, <1>2, <1>3, <1>4, PollGoesOn DEF Accounted
  <1>6. old.exchange \in commandAudit
    BY <1>1 DEF Accounted
  <1> QED
    BY <1>0, <1>2, <1>5, <1>6 DEF BridgeTyped, UpdatesInv

\* The announcement or the reply fails: the message is in the book of failures.
LEMMA ExchangeFailed ==
    ASSUME UpdatesInv, NEW p \in Polls, ExchangeFails(p)
    PROVE  UpdatesInv'
  <1> DEFINE old == polling[p]
             m == old.exchange.message
             q == Counted(p, {}, {}, {m})
  <1>0. BridgeTyped /\ BooksKept
    BY DEF UpdatesInv
  <1>1. Talks(old) /\ old \in PollTalks /\ Accounted(p, old)
    BY <1>0, PollShapes DEF ExchangeFails, BooksKept, Talks
  <1>2. /\ polling' = [polling EXCEPT ![p] = q]
        /\ UNCHANGED <<linkByAccount, inbox, commandAudit, commandEvents, replies, rotator, linkChanges>>
    BY DEF ExchangeFails
  <1>3. m \in Nat
    BY <1>1 DEF PollTalks, Exchanges
  <1>4. /\ q \in PollReads /\ q.at = "reading" /\ q.yielded = old.yielded \cup {m}
        /\ q.ignored = old.ignored /\ q.handled = old.handled /\ q.failed = old.failed \cup {m}
        /\ q.reply_to_messages = old.reply_to_messages
    BY <1>1, <1>3 DEF PollTalks, PollReads, Counted
  <1> HIDE DEF q
  <1>5. Current(q) = {} /\ ~Talks(q) /\ Current(old) = {m} /\ old.at # "idle"
    BY <1>1, <1>4 DEF Current, Talks
  <1>6. /\ q.yielded = q.ignored \cup q.handled \cup q.failed \cup Current(q)
        /\ q.handled \cap (q.failed \cup q.ignored) = {}
    BY <1>1, <1>4, <1>5 DEF Accounted
  <1>7. BooksKept'
    BY <1>2, <1>4, <1>5, <1>6, PollGoesOn
  <1> QED
    BY <1>0, <1>2, <1>7 DEF BridgeTyped, UpdatesInv

\* The reply of the exchange is sent: it is the only one to its message. Or nothing is
\* sent, as the request asks for none, and the message is handled.
LEMMA ReplySent ==
    ASSUME UpdatesInv, NEW p \in Polls, SendReply(p)
    PROVE  UpdatesInv'
  <1> DEFINE old == polling[p]
             m == old.exchange.message
             q == Counted(p, {}, {m}, {})
             r == [poll |-> p, message |-> m, member |-> old.exchange.member]
  <1>0. BridgeTyped /\ BooksKept
    BY DEF UpdatesInv
  <1>1. old.at = "replying" /\ Talks(old) /\ old \in PollTalks /\ Accounted(p, old)
    BY <1>0, PollShapes DEF SendReply, ReplyTo, BooksKept, Talks
  <1>2. /\ polling' = [polling EXCEPT ![p] = q]
        /\ replies' = IF old.reply_to_messages THEN Append(replies, r) ELSE replies
        /\ UNCHANGED <<linkByAccount, inbox, commandAudit, commandEvents, rotator, linkChanges>>
    BY DEF SendReply, ReplyTo
  <1>3. /\ m \in Nat /\ old.exchange.member \in MemberRefs
        /\ r \in [poll : Polls, message : Nat, member : MemberRefs]
        /\ r.poll = p /\ r.message = m /\ r.member = old.exchange.member
    BY <1>1 DEF PollTalks, Exchanges
  <1> HIDE DEF r
  <1>4. /\ q \in PollReads /\ q.at = "reading" /\ q.yielded = old.yielded \cup {m}
        /\ q.ignored = old.ignored /\ q.handled = old.handled \cup {m} /\ q.failed = old.failed
        /\ q.reply_to_messages = old.reply_to_messages
    BY <1>1, <1>3 DEF PollTalks, PollReads, Counted
  <1> HIDE DEF q
  <1>5. Current(q) = {} /\ ~Talks(q) /\ Current(old) = {m} /\ old.at # "idle"
    BY <1>1, <1>4 DEF Current, Talks
  <1>6. m \notin old.handled
    BY <1>1, <1>5 DEF Accounted
  <1>b. old.exchange \in commandEvents /\ old.exchange.poll = p
    BY <1>1 DEF Accounted
  <1>c. Announced(p, m)
    BY <1>b DEF Announced
  <1>d. /\ q.yielded = q.ignored \cup q.handled \cup q.failed \cup Current(q)
        /\ q.handled \cap (q.failed \cup q.ignored) = {}
    BY <1>1, <1>4, <1>5 DEF Accounted
  <1>e. CASE ~old.reply_to_messages
    <2>1. replies' = replies /\ ~q.reply_to_messages
      BY <1>2, <1>4, <1>e
    <2>2. BooksKept'
      BY <1>1, <1>2, <1>4, <1>5, <1>c, <1>d, <2>1, PollGoesOn
    <2> QED
      BY <1>0, <1>2, <2>1, <2>2 DEF BridgeTyped, UpdatesInv
  <1>f. SUFFICES ASSUME old.reply_to_messages PROVE UpdatesInv'
    BY <1>e
  <1> DEFINE last == Len(replies) + 1
  <1>7. /\ replies' \in Seq([poll : Polls, message : Nat, member : MemberRefs])
        /\ Len(replies) \in Nat /\ DOMAIN replies = 1 .. Len(replies)
        /\ DOMAIN replies' = DOMAIN replies \cup {last} /\ last \notin DOMAIN replies
        /\ \A i \in DOMAIN replies : replies'[i] = replies[i]
        /\ replies'[last] = r
    <2>1. replies \in Seq([poll : Polls, message : Nat, member : MemberRefs])
      BY <1>0 DEF BridgeTyped
    <2> DEFINE Replies == [poll : Polls, message : Nat, member : MemberRefs]
    <2>2. replies \in Seq(Replies) /\ r \in Replies
      BY <1>3, <2>1
    <2> HIDE DEF Replies
    <2>3. /\ Append(replies, r) \in Seq(Replies)
          /\ Len(replies) \in Nat /\ DOMAIN replies = 1 .. Len(replies)
          /\ DOMAIN Append(replies, r) = DOMAIN replies \cup {last}
          /\ \A i \in 1 .. Len(replies) : Append(replies, r)[i] = replies[i]
          /\ Append(replies, r)[last] = r
      BY <2>2, OneMore
    <2> QED
      BY <1>2, <1>f, <2>3 DEF Replies
  <1> HIDE DEF last
  <1> HIDE DEF m
  <1>8. PICK k \in Nat : k = m
    BY <1>3
  <1>a. \A i \in DOMAIN replies : replies[i].poll = p => replies[i].message # k
    BY <1>8, <1>0, <1>6 DEF BooksKept
  <1>9. RepliesTo(p, k)' = {last}
    BY <1>3, <1>7, <1>8, <1>a DEF RepliesTo
  <1>10. AnsweredOnce(p, k)'
    BY <1>2, <1>3, <1>7, <1>8, <1>9, <1>b DEF AnsweredOnce, m
  <1>11. ASSUME NEW s \in Polls, NEW n, AnsweredOnce(s, n), s # p \/ n # k
         PROVE  AnsweredOnce(s, n)'
    <2>1. RepliesTo(s, n)' = RepliesTo(s, n)
      BY <1>3, <1>7, <1>8, <1>11 DEF RepliesTo
    <2> QED
      BY <1>2, <1>7, <1>11, <2>1 DEF AnsweredOnce
  <1>12. /\ polling' \in [Polls -> PollIdle \cup PollReads \cup PollTalks] /\ polling'[p] = q
         /\ \A s \in Polls : s # p => polling'[s] = polling[s]
    <2> DEFINE States == PollIdle \cup PollReads \cup PollTalks
    <2>1. q \in States /\ polling \in [Polls -> States]
      BY <1>0, <1>4 DEF BooksKept
    <2> HIDE DEF States
    <2>2. /\ polling' \in [Polls -> States] /\ polling'[p] = q
          /\ \A s \in Polls : s # p => polling'[s] = polling[s]
      BY <1>2, <2>1
    <2> QED
      BY <2>2 DEF States
  <1>13. ASSUME NEW s \in Polls, polling'[s].at # "idle" PROVE Accounted(s, polling[s])'
    <2>1. CASE s = p
      <3>1. \A n \in q.handled : Announced(p, n)' /\ AnsweredOnce(p, n)'
        <4>1. \A n \in q.handled : Announced(p, n)'
          BY <1>1, <1>2, <1>4, <1>c DEF Accounted, Announced
        <4>2. \A n \in q.handled : AnsweredOnce(p, n)'
          BY <1>1, <1>4, <1>8, <1>10, <1>11, <1>f DEF Accounted
        <4> QED
          BY <4>1, <4>2
      <3>2. /\ q.yielded = q.ignored \cup q.handled \cup q.failed \cup Current(q)
            /\ q.handled \cap (q.failed \cup q.ignored) = {}
        BY <1>d
      <3>3. polling'[s] = q /\ q.at # "replying"
        BY <1>4, <1>12, <2>1
      <3> QED
        BY <1>5, <2>1, <3>1, <3>2, <3>3 DEF Accounted, Current, Talks
    <2>2. CASE s # p
      <3>1. polling'[s] = polling[s] /\ Accounted(s, polling[s])
        BY <1>0, <1>12, <1>13, <2>2 DEF BooksKept
      <3>2. \A n \in polling[s].handled :
               Announced(s, n)' /\ (polling[s].reply_to_messages => AnsweredOnce(s, n)')
        BY <1>2, <1>11, <2>2, <3>1 DEF Accounted, Announced
      <3> QED
        BY <1>2, <3>1, <3>2 DEF Accounted, Current, Talks
    <2> QED
      BY <2>1, <2>2
  <1>14. ASSUME NEW i \in DOMAIN replies'
         PROVE  /\ polling'[replies'[i].poll].at # "idle" /\ polling'[replies'[i].poll].reply_to_messages
                /\ replies'[i].message \in polling'[replies'[i].poll].handled
    <2>1. CASE i = last
      BY <1>3, <1>4, <1>7, <1>12, <1>f, <2>1
    <2>2. CASE i # last
      <3>1. i \in DOMAIN replies /\ replies'[i] = replies[i] /\ replies[i].poll \in Polls
        BY <1>7, <2>2, ReplyFields
      <3>2. /\ polling[replies[i].poll].at # "idle" /\ polling[replies[i].poll].reply_to_messages
            /\ replies[i].message \in polling[replies[i].poll].handled
        BY <1>0, <3>1 DEF BooksKept
      <3> QED
        BY <1>4, <1>12, <3>1, <3>2
    <2> QED
      BY <2>1, <2>2
  <1>15. BooksKept'
    BY <1>12, <1>13, <1>14 DEF BooksKept
  <1>16. BridgeTyped'
    BY <1>0, <1>2, <1>7 DEF BridgeTyped
  <1> QED
    BY <1>15, <1>16 DEF UpdatesInv

LEMMA UpdatesStep == UpdatesInv /\ [UpdatesNext]_updateVars => UpdatesInv'
  <1> SUFFICES ASSUME UpdatesInv, [UpdatesNext]_updateVars PROVE UpdatesInv'
    OBVIOUS
  <1>1. CASE UNCHANGED updateVars
    <2>1. BridgeTyped'
      BY <1>1 DEF updateVars, UpdatesInv, BridgeTyped
    <2>2. /\ polling' = polling /\ replies' = replies
          /\ commandAudit' = commandAudit /\ commandEvents' = commandEvents
      BY <1>1 DEF updateVars
    <2>3. BooksKept'
      BY <2>2 DEF UpdatesInv, BooksKept, Accounted, Current, Talks, AnsweredOnce, Announced, RepliesTo
    <2> QED
      BY <2>1, <2>3 DEF UpdatesInv
  <1>2. CASE UpdatesNext
    BY <1>2, ChatStep, PollReadsOn, ExchangeBegins, ExchangeAnnounced, ExchangeFailed, ReplySent
       DEF UpdatesNext
  <1> QED
    BY <1>1, <1>2

\* A poll accounts for every message it was given; what it calls handled was announced and,
\* if its request asks for replies, answered once, for the member that was announced; nobody
\* was answered if it does not: for any accounts, polls, links and proxies.
THEOREM PollsAccounted == UpdatesSpec => []PolledIsAccounted
  <1>1. UpdatesInv => PolledIsAccounted
    <2> SUFFICES ASSUME UpdatesInv PROVE PolledIsAccounted
      OBVIOUS
    <2>1. UpdatesTypeOK
      <3>1. \A p \in Polls : polling[p].at \in {"idle", "reading", "announcing", "replying", "done"}
        <4>1. BooksKept
          BY DEF UpdatesInv
        <4> QED
          BY <4>1, PollShapes
      <3> QED
        BY <3>1 DEF UpdatesInv, BridgeTyped, UpdatesTypeOK, MemberRefs, Rotators
    <2>2. ASSUME NEW p \in Polls, polling[p].at = "done"
          PROVE  Accounted(p, polling[p]) /\ Current(polling[p]) = {}
      BY <2>2 DEF UpdatesInv, BooksKept, Current, Talks
    <2>3. ASSUME NEW p \in Polls, polling[p].at = "done", ~polling[p].reply_to_messages, NEW m
          PROVE  RepliesTo(p, m) = {}
      <3>1. \A i \in DOMAIN replies : replies[i].poll \in Polls /\ polling[replies[i].poll].reply_to_messages
        BY ReplyFields DEF UpdatesInv, BooksKept
      <3> QED
        BY <2>3, <3>1 DEF RepliesTo
    <2>4. ASSUME NEW p \in Polls, polling[p].at = "done", NEW m \in polling[p].handled
          PROVE  \E x \in commandEvents :
                     /\ x.poll = p /\ x.message = m
                     /\ IF polling[p].reply_to_messages
                        THEN \E i \in DOMAIN replies :
                                RepliesTo(p, m) = {i} /\ replies[i].member = x.member
                        ELSE RepliesTo(p, m) = {}
      <3>1. Announced(p, m) /\ (polling[p].reply_to_messages => AnsweredOnce(p, m))
        BY <2>2, <2>4 DEF Accounted
      <3>2. CASE polling[p].reply_to_messages
        BY <3>1, <3>2 DEF AnsweredOnce
      <3>3. CASE ~polling[p].reply_to_messages
        BY <2>3, <2>4, <3>1, <3>3 DEF Announced
      <3> QED
        BY <3>2, <3>3
    <2> QED
      BY <2>1, <2>2, <2>4 DEF PolledIsAccounted, Accounted
  <1> QED
    BY <1>1, UpdatesFirst, UpdatesStep, PTL DEF UpdatesSpec

----------------------------------------------------------------------------
(***************************************************************************)
(* Requests of data subjects in the web cabinet.  A thread writes back a   *)
(* copy it read before, so the invariant says of every copy what it says   *)
(* of the collections: it has whatever nobody asked to erase, and consents *)
(* in it are granted unless their member asked otherwise.                  *)
(***************************************************************************)

Consent == [member : Members, key : ConsentKeys, granted : BOOLEAN]

Requested == [type : RequestTypes, actor : Members \cup Governors,
              member : Members, keys : SUBSET ConsentKeys, request_id : Threads]

HoldsRecords(found) ==
    found \subseteq Members /\ \A m \in Members : ~AskedFor(m, "erasure") => m \in found

HoldsConsents(found) ==
    /\ found \subseteq Consent
    /\ \A m \in Members :
          /\ ~AskedFor(m, "erasure") =>
                \A k \in ConsentKeys : \E r \in found : r.member = m /\ r.key = k
          /\ ~AskedFor(m, "processing_restriction") =>
                \A r \in found : r.member = m => r.granted
    /\ \A r \in found : r.key \in RequiredConsents => r.granted

HoldsEntries(found) ==
    \A e \in found : e.member \in Members /\ e.request_id \in Threads

Collections == Lists \cup Dicts
ConsentReads == {"onboarding_consents", "consents_to_withdraw"}
Stages == {"idle", "forbidden", "reading", "copied", "failed", "answered"}
Places == Collections \cup ConsentReads \cup {"none", "journal"}

\* A thread goes through the collections of the request it was allowed to make.
ThreadsAllowed ==
    \A t \in Threads : pc[t].at \in {"reading", "copied"} =>
        /\ asked[t] # NoRequest
        /\ pc[t].of \in Collections \cup {"onboarding_consents"} =>
              asked[t].type = "erasure" /\ MayAsk(asked[t].actor, asked[t].member)
        /\ pc[t].of = "consents_to_withdraw" =>
              asked[t].type = "processing_restriction" /\ MayAsk(asked[t].actor, asked[t].member)

CopiesHold ==
    \A t \in Threads : pc[t].at = "copied" =>
        /\ pc[t].of \in Collections => HoldsRecords(copied[t])
        /\ pc[t].of \in ConsentReads => HoldsConsents(copied[t])
        /\ pc[t].of = "journal" => HoldsEntries(copied[t])

CollectionsHold ==
    /\ DOMAIN records = Collections
    /\ \A c \in Collections : HoldsRecords(records[c])
    /\ HoldsConsents(consents)
    /\ HoldsEntries(journal)

PrivacyTyped ==
    /\ asked \in [Threads -> {NoRequest} \cup Requested]
    /\ pc \in [Threads -> [at : Stages, of : Places]]
    /\ DOMAIN copied = Threads
    /\ records \in [Collections -> SUBSET Members]

PrivacyInv == PrivacyTyped /\ ThreadsAllowed /\ CopiesHold /\ CollectionsHold

LEMMA PrivacyInitially == PrivacyInit => PrivacyInv
  <1> SUFFICES ASSUME PrivacyInit PROVE PrivacyInv
    OBVIOUS
  <1>1. PrivacyTyped
    <2>1. asked \in [Threads -> {NoRequest} \cup Requested]
      BY DEF PrivacyInit
    <2>2. pc \in [Threads -> [at : Stages, of : Places]]
      <3>1. Step("idle", "none") \in [at : Stages, of : Places]
        BY DEF Step, Stages, Places
      <3> QED
        BY <3>1 DEF PrivacyInit
    <2>3. DOMAIN copied = Threads /\ records \in [Collections -> SUBSET Members]
      BY DEF PrivacyInit, Collections
    <2> QED
      BY <2>1, <2>2, <2>3 DEF PrivacyTyped
  <1>2. ThreadsAllowed /\ CopiesHold
    BY DEF PrivacyInit, ThreadsAllowed, CopiesHold, Step
  <1>3. HoldsConsents(consents)
    <2>1. ASSUME NEW m \in Members, NEW k \in ConsentKeys
          PROVE  \E r \in consents : r.member = m /\ r.key = k
      <3> DEFINE r == [member |-> m, key |-> k, granted |-> TRUE]
      <3>1. r \in consents /\ r.member = m /\ r.key = k
        BY DEF PrivacyInit
      <3> QED
        BY <3>1
    <2>2. consents \subseteq Consent /\ \A r \in consents : r.granted
      BY DEF PrivacyInit, Consent
    <2> QED
      BY <2>1, <2>2 DEF HoldsConsents
  <1>4. CollectionsHold
    BY <1>3 DEF PrivacyInit, CollectionsHold, HoldsRecords, HoldsEntries, Collections
  <1> QED
    BY <1>1, <1>2, <1>4 DEF PrivacyInv

\* A request stays what it was.
LEMMA AskedStays ==
    ASSUME PrivacyInv, NEW t \in Threads, RequestStep(t)
    PROVE  /\ asked' \in [Threads -> {NoRequest} \cup Requested]
           /\ \A s \in Threads : asked[s] # NoRequest => asked'[s] = asked[s]
           /\ \A m \in Members, type \in RequestTypes : AskedFor(m, type) => AskedFor(m, type)'
  <1>0. asked \in [Threads -> {NoRequest} \cup Requested]
    BY DEF PrivacyInv, PrivacyTyped
  <1>1. /\ asked' \in [Threads -> {NoRequest} \cup Requested]
        /\ \A s \in Threads : asked[s] # NoRequest => asked'[s] = asked[s]
    <2>1. CASE asked' = asked
      BY <1>0, <2>1
    <2>2. ASSUME NEW actor \in Members \cup Governors, NEW member \in Members,
                 NEW type \in RequestTypes, NEW keys \in SUBSET ConsentKeys, NEW id \in Threads,
                 BeginRequest(t, actor, member, type, keys, id)
          PROVE  /\ asked' \in [Threads -> {NoRequest} \cup Requested]
                 /\ \A s \in Threads : asked[s] # NoRequest => asked'[s] = asked[s]
      BY <1>0, <2>2 DEF BeginRequest, Requested
    <2> QED
      BY <2>1, <2>2 DEF RequestStep, ReadCollection, EraseCollection, IterationBreaks,
         ReadConsents, EraseConsents, WithdrawConsents, ReadJournal, SaveJournal
  <1>2. ASSUME NEW m \in Members, NEW type \in RequestTypes, AskedFor(m, type)
        PROVE  AskedFor(m, type)'
    <2>1. PICK s \in Threads : /\ asked[s].type = type /\ asked[s].member = m
                               /\ MayAsk(asked[s].actor, m)
      BY <1>2 DEF AskedFor
    <2>2. asked[s] # NoRequest
      BY <2>1 DEF NoRequest, RequestTypes
    <2> QED
      BY <1>1, <2>1, <2>2 DEF AskedFor
  <1> QED
    BY <1>1, <1>2

\* What a collection or a copy holds, it holds after any request.
LEMMA HoldingStays ==
    ASSUME PrivacyInv, NEW t \in Threads, RequestStep(t), NEW found
    PROVE  /\ HoldsRecords(found) => HoldsRecords(found)'
           /\ HoldsConsents(found) => HoldsConsents(found)'
           /\ HoldsEntries(found) => HoldsEntries(found)'
  <1>1. \A m \in Members : /\ AskedFor(m, "erasure") => AskedFor(m, "erasure")'
                           /\ AskedFor(m, "processing_restriction") =>
                                 AskedFor(m, "processing_restriction")'
    BY AskedStays DEF RequestTypes
  <1> QED
    BY <1>1 DEF HoldsRecords, HoldsConsents, HoldsEntries

\* A thread that goes through collections does so for its own request.
LEMMA OwnErasure ==
    ASSUME PrivacyInv, NEW t \in Threads, pc[t].at = "copied",
           pc[t].of \in Collections \cup {"onboarding_consents"}
    PROVE  asked[t].member \in Members /\ AskedFor(asked[t].member, "erasure")
  BY DEF PrivacyInv, PrivacyTyped, ThreadsAllowed, Requested, AskedFor

\* A write of the collections takes nothing that nobody asked to erase.
LEMMA RecordWrites ==
    ASSUME PrivacyInv, NEW t \in Threads, RequestStep(t)
    PROVE  /\ records' \in [Collections -> SUBSET Members]
           /\ \A c \in Collections : records'[c] = records[c] \/ HoldsRecords(records'[c])
  <1>0. records \in [Collections -> SUBSET Members] /\ CollectionsHold
    BY DEF PrivacyInv, PrivacyTyped
  <1>1. CASE records' = records
    BY <1>0, <1>1
  <1>2. ASSUME EraseCollection(t)
        PROVE  /\ records' \in [Collections -> SUBSET Members]
               /\ \A c \in Collections : records'[c] = records[c] \/ HoldsRecords(records'[c])
    <2>1. PICK c \in Collections :
             /\ pc[t] = Step("copied", c)
             /\ records' = [records EXCEPT ![c] =
                   (IF c \in Lists THEN copied[t] ELSE @) \ {asked[t].member}]
      BY <1>2 DEF EraseCollection, Collections
    <2>2. pc[t].at = "copied" /\ pc[t].of = c
      BY <2>1 DEF Step
    <2>3. HoldsRecords(copied[t]) /\ HoldsRecords(records[c])
      BY <1>0, <2>2 DEF PrivacyInv, CopiesHold, CollectionsHold
    <2>4. asked[t].member \in Members /\ AskedFor(asked[t].member, "erasure")
      BY <2>2, OwnErasure
    <2> DEFINE left == (IF c \in Lists THEN copied[t] ELSE records[c]) \ {asked[t].member}
    <2>5. HoldsRecords(left)
      BY <2>3, <2>4 DEF HoldsRecords
    <2>6. records' = [records EXCEPT ![c] = left]
      BY <2>1
    <2> HIDE DEF left
    <2>7. left \in SUBSET Members
      BY <2>5 DEF HoldsRecords
    <2> QED
      BY <1>0, <2>5, <2>6, <2>7
  <1> QED
    BY <1>1, <1>2 DEF RequestStep, BeginRequest, ReadCollection, IterationBreaks,
       ReadConsents, EraseConsents, WithdrawConsents, ReadJournal, SaveJournal

\* A write of the consents takes none that nobody asked to erase, and withdraws
\* what the member of the request, or a governor for it, asked to withdraw.
LEMMA ConsentWrites ==
    ASSUME PrivacyInv, NEW t \in Threads, RequestStep(t)
    PROVE  consents' = consents \/ HoldsConsents(consents')
  <1>1. ASSUME EraseConsents(t) PROVE HoldsConsents(consents')
    <2>1. /\ pc[t].at = "copied" /\ pc[t].of = "onboarding_consents"
          /\ consents' = {r \in copied[t] : r.member # asked[t].member}
      BY <1>1 DEF EraseConsents, Step
    <2>2. HoldsConsents(copied[t])
      BY <2>1 DEF PrivacyInv, CopiesHold, ConsentReads
    <2>3. asked[t].member \in Members /\ AskedFor(asked[t].member, "erasure")
      BY <2>1, OwnErasure
    <2> DEFINE m0 == asked[t].member
               left == {r \in copied[t] : r.member # m0}
    <2>4. /\ left \subseteq Consent
          /\ \A r \in left : r \in copied[t] /\ r.key \in RequiredConsents => r.granted
      BY <2>2 DEF HoldsConsents
    <2>5. ASSUME NEW m \in Members, ~AskedFor(m, "erasure"), NEW k \in ConsentKeys
          PROVE  \E r \in left : r.member = m /\ r.key = k
      <3>1. PICK r \in copied[t] : r.member = m /\ r.key = k
        BY <2>2, <2>5 DEF HoldsConsents
      <3>2. m # m0
        BY <2>3, <2>5
      <3> QED
        BY <3>1, <3>2
    <2>6. ASSUME NEW m \in Members, ~AskedFor(m, "processing_restriction"),
                 NEW r \in left, r.member = m
          PROVE  r.granted
      BY <2>2, <2>6 DEF HoldsConsents
    <2>7. HoldsConsents(left)
      BY <2>4, <2>5, <2>6 DEF HoldsConsents
    <2> QED
      BY <2>1, <2>7
  <1>2. ASSUME WithdrawConsents(t) PROVE HoldsConsents(consents')
    <2> DEFINE After(r) == [r EXCEPT !.granted = @ /\ ~Withdrawable(t, r)]
    <2>1. /\ pc[t].at = "copied" /\ pc[t].of = "consents_to_withdraw"
          /\ consents' = {After(r) : r \in copied[t]}
      BY <1>2 DEF WithdrawConsents, Step
    <2>2. HoldsConsents(copied[t])
      BY <2>1 DEF PrivacyInv, CopiesHold, ConsentReads
    <2>3. /\ asked[t].member \in Members
          /\ AskedFor(asked[t].member, "processing_restriction")
      BY <2>1 DEF PrivacyInv, PrivacyTyped, ThreadsAllowed, Requested, AskedFor
    <2>4. ASSUME NEW r \in copied[t]
          PROVE  /\ After(r) \in Consent
                 /\ After(r).member = r.member /\ After(r).key = r.key
                 /\ After(r).granted <=> r.granted /\ ~Withdrawable(t, r)
      <3>1. r \in Consent
        BY <2>2 DEF HoldsConsents
      <3>2. (r.granted /\ ~Withdrawable(t, r)) \in BOOLEAN
        OBVIOUS
      <3> DEFINE g == r.granted /\ ~Withdrawable(t, r)
      <3>3. After(r) = [r EXCEPT !.granted = g]
        OBVIOUS
      <3> HIDE DEF g, After
      <3>4. After(r) = [member |-> r.member, key |-> r.key, granted |-> g]
        BY <3>1, <3>3 DEF Consent
      <3>5. g \in BOOLEAN /\ (g <=> r.granted /\ ~Withdrawable(t, r))
        BY <3>2 DEF g
      <3> QED
        BY <3>1, <3>4, <3>5 DEF Consent
    <2> HIDE DEF After
    <2> DEFINE left == {After(r) : r \in copied[t]}
    <2>5. left \subseteq Consent
      BY <2>4
    <2>6. ASSUME NEW m \in Members, ~AskedFor(m, "erasure"), NEW k \in ConsentKeys
          PROVE  \E r \in left : r.member = m /\ r.key = k
      <3>1. PICK r \in copied[t] : r.member = m /\ r.key = k
        BY <2>2, <2>6 DEF HoldsConsents
      <3> QED
        BY <2>4, <3>1
    <2>7. ASSUME NEW m \in Members, ~AskedFor(m, "processing_restriction"),
                 NEW q \in left, q.member = m
          PROVE  q.granted
      <3>1. PICK r \in copied[t] : q = After(r)
        OBVIOUS
      <3>2. r.member = m /\ r.granted /\ m # asked[t].member
        BY <2>2, <2>3, <2>4, <2>7, <3>1 DEF HoldsConsents
      <3>3. ~Withdrawable(t, r)
        BY <3>2 DEF Withdrawable
      <3> QED
        BY <2>4, <3>1, <3>2, <3>3
    <2>8. ASSUME NEW q \in left, q.key \in RequiredConsents PROVE q.granted
      <3>1. PICK r \in copied[t] : q = After(r)
        OBVIOUS
      <3>2. r.key \in RequiredConsents /\ r.granted
        BY <2>2, <2>4, <2>8, <3>1 DEF HoldsConsents
      <3>3. ~Withdrawable(t, r)
        BY <3>2 DEF Withdrawable
      <3> QED
        BY <2>4, <3>1, <3>2, <3>3
    <2>9. HoldsConsents(left)
      BY <2>5, <2>6, <2>7, <2>8 DEF HoldsConsents
    <2> QED
      BY <2>1, <2>9
  <1> QED
    BY <1>1, <1>2 DEF RequestStep, BeginRequest, ReadCollection, EraseCollection,
       IterationBreaks, ReadConsents, ReadJournal, SaveJournal

LEMMA JournalWrites ==
    ASSUME PrivacyInv, NEW t \in Threads, RequestStep(t)
    PROVE  journal' = journal \/ HoldsEntries(journal')
  <1>1. ASSUME SaveJournal(t) PROVE HoldsEntries(journal')
    <2>1. /\ pc[t].at = "copied" /\ pc[t].of = "journal"
          /\ journal' = copied[t] \cup {JournalEntry(t)}
      BY <1>1 DEF SaveJournal, Step
    <2>2. asked[t].member \in Members /\ asked[t].request_id \in Threads
      BY <2>1 DEF PrivacyInv, PrivacyTyped, ThreadsAllowed, Requested
    <2>3. HoldsEntries(copied[t])
      BY <2>1 DEF PrivacyInv, CopiesHold
    <2>4. JournalEntry(t).member \in Members /\ JournalEntry(t).request_id \in Threads
      BY <2>2 DEF JournalEntry
    <2> QED
      BY <2>1, <2>3, <2>4 DEF HoldsEntries
  <1> QED
    BY <1>1 DEF RequestStep, BeginRequest, ReadCollection, EraseCollection, IterationBreaks,
       ReadConsents, EraseConsents, WithdrawConsents, ReadJournal

LEMMA CollectionsStep ==
    ASSUME PrivacyInv, NEW t \in Threads, RequestStep(t) PROVE CollectionsHold'
  <1>0. CollectionsHold
    BY DEF PrivacyInv
  <1>1. ASSUME NEW c \in Collections PROVE HoldsRecords(records[c])'
    <2>1. PICK f : f = records'[c]
      OBVIOUS
    <2>2. HoldsRecords(f)
      BY <1>0, <2>1, RecordWrites DEF CollectionsHold
    <2>3. HoldsRecords(f)'
      BY <2>2, HoldingStays
    <2> QED
      BY <2>1, <2>3 DEF HoldsRecords
  <1>2. HoldsConsents(consents)'
    <2>1. PICK f : f = consents'
      OBVIOUS
    <2>2. HoldsConsents(f)
      BY <1>0, <2>1, ConsentWrites DEF CollectionsHold
    <2>3. HoldsConsents(f)'
      BY <2>2, HoldingStays
    <2> QED
      BY <2>1, <2>3 DEF HoldsConsents
  <1>3. HoldsEntries(journal)'
    BY <1>0, JournalWrites DEF CollectionsHold, HoldsEntries
  <1>4. DOMAIN records' = Collections
    BY RecordWrites
  <1> QED
    BY <1>1, <1>2, <1>3, <1>4 DEF CollectionsHold

\* A thread that has just copied a collection.
LEMMA CopiesStep ==
    ASSUME PrivacyInv, NEW t \in Threads, RequestStep(t) PROVE CopiesHold'
  <1>0. /\ CollectionsHold /\ CopiesHold /\ DOMAIN copied = Threads
        /\ pc \in [Threads -> [at : Stages, of : Places]]
    BY DEF PrivacyInv, PrivacyTyped
  <1> SUFFICES ASSUME NEW s \in Threads, pc'[s].at = "copied"
               PROVE  /\ pc'[s].of \in Collections => HoldsRecords(copied[s])'
                      /\ pc'[s].of \in ConsentReads => HoldsConsents(copied[s])'
                      /\ pc'[s].of = "journal" => HoldsEntries(copied[s])'
    BY DEF CopiesHold
  <1>1. PICK f : f = copied'[s]
    OBVIOUS
  <1>2. /\ pc'[s].of \in Collections => HoldsRecords(f)
        /\ pc'[s].of \in ConsentReads => HoldsConsents(f)
        /\ pc'[s].of = "journal" => HoldsEntries(f)
    <2>1. CASE pc'[s] = pc[s] /\ copied'[s] = copied[s]
      BY <1>0, <1>1, <2>1 DEF CopiesHold
    <2>2. CASE s = t /\ ReadCollection(t)
      BY <1>0, <1>1, <2>2 DEF ReadCollection, CollectionsHold, Collections, ConsentReads, Lists, Dicts
    <2>3. CASE s = t /\ ReadConsents(t)
      BY <1>0, <1>1, <2>3 DEF ReadConsents, CollectionsHold, Collections, ConsentReads, Lists, Dicts
    <2>4. CASE s = t /\ ReadJournal(t)
      BY <1>0, <1>1, <2>4 DEF ReadJournal, CollectionsHold, HoldsEntries, Step,
         Collections, ConsentReads, Lists, Dicts
    <2>5. CASE s # t
      BY <1>0, <2>1, <2>5 DEF RequestStep, BeginRequest, ReadCollection, EraseCollection,
         IterationBreaks, ReadConsents, EraseConsents, WithdrawConsents, ReadJournal, SaveJournal
    <2>6. ASSUME s = t, \/ EraseCollection(t) \/ IterationBreaks(t)
                        \/ EraseConsents(t) \/ WithdrawConsents(t) \/ SaveJournal(t)
                        \/ \E actor \in Members \cup Governors, member \in Members,
                              type \in RequestTypes, keys \in SUBSET ConsentKeys, id \in Threads :
                                 BeginRequest(t, actor, member, type, keys, id)
          PROVE  FALSE
      <3>1. pc'[t].at # "copied"
        BY <1>0, <2>6 DEF EraseCollection, IterationBreaks, EraseConsents, WithdrawConsents,
           SaveJournal, BeginRequest, Step
      <3> QED
        BY <2>6, <3>1
    <2> QED
      BY <2>2, <2>3, <2>4, <2>5, <2>6 DEF RequestStep
  <1>3. /\ pc'[s].of \in Collections => HoldsRecords(f)'
        /\ pc'[s].of \in ConsentReads => HoldsConsents(f)'
        /\ pc'[s].of = "journal" => HoldsEntries(f)'
    BY <1>2, HoldingStays
  <1> QED
    BY <1>1, <1>3 DEF HoldsRecords, HoldsConsents, HoldsEntries

Allowed(at, of, request) ==
    at \in {"reading", "copied"} =>
        /\ request # NoRequest
        /\ of \in Collections \cup {"onboarding_consents"} =>
              request.type = "erasure" /\ MayAsk(request.actor, request.member)
        /\ of = "consents_to_withdraw" =>
              request.type = "processing_restriction" /\ MayAsk(request.actor, request.member)

\* A step of a thread is within a collection, or on to the next.
LEMMA StepsOn ==
    ASSUME NEW t \in Threads, pc \in [Threads -> [at : Stages, of : Places]],
           NEW at \in Stages, NEW of \in Places,
           \/ pc' = [pc EXCEPT ![t] = Step(at, of)]
           \/ pc' = [pc EXCEPT ![t].at = at] /\ of = pc[t].of,
           Allowed(at, of, asked'[t])
    PROVE  /\ pc' \in [Threads -> [at : Stages, of : Places]]
           /\ Allowed(pc'[t].at, pc'[t].of, asked'[t])
           /\ \A s \in Threads \ {t} : pc'[s] = pc[s]
  <1>1. CASE pc' = [pc EXCEPT ![t] = Step(at, of)]
    BY <1>1 DEF Step
  <1>2. CASE pc' = [pc EXCEPT ![t].at = at] /\ of = pc[t].of
    <2> DEFINE there == [pc[t] EXCEPT !.at = at]
    <2>1. pc' = [pc EXCEPT ![t] = there]
      BY <1>2
    <2>2. there \in [at : Stages, of : Places] /\ there.at = at /\ there.of = pc[t].of
      OBVIOUS
    <2> HIDE DEF there
    <2> QED
      BY <1>2, <2>1, <2>2
  <1> QED
    BY <1>1, <1>2

LEMMA ThreadsStep ==
    ASSUME PrivacyInv, NEW t \in Threads, RequestStep(t)
    PROVE  /\ ThreadsAllowed'
           /\ pc' \in [Threads -> [at : Stages, of : Places]] /\ DOMAIN copied' = Threads
  <1>0. /\ \A s \in Threads : Allowed(pc[s].at, pc[s].of, asked[s])
        /\ DOMAIN copied = Threads
        /\ pc \in [Threads -> [at : Stages, of : Places]]
        /\ asked \in [Threads -> {NoRequest} \cup Requested]
    BY DEF PrivacyInv, PrivacyTyped, ThreadsAllowed, Allowed
  <1> DEFINE Goal == /\ pc' \in [Threads -> [at : Stages, of : Places]]
                     /\ Allowed(pc'[t].at, pc'[t].of, asked'[t])
                     /\ \A s \in Threads \ {t} : pc'[s] = pc[s] /\ asked'[s] = asked[s]
                     /\ DOMAIN copied' = Threads
  <1>1. Goal
    <2>1. ASSUME NEW actor \in Members \cup Governors, NEW member \in Members,
                 NEW type \in RequestTypes, NEW keys \in SUBSET ConsentKeys, NEW id \in Threads,
                 BeginRequest(t, actor, member, type, keys, id)
          PROVE  Goal
      <3> DEFINE ask == [type |-> type, actor |-> actor, member |-> member, keys |-> keys,
                      request_id |-> id]
      <3>1. asked' = [asked EXCEPT ![t] = ask] /\ copied' = copied
        BY <2>1 DEF BeginRequest
      <3>2. ask.type = type /\ ask.actor = actor /\ ask.member = member /\ ask # NoRequest
        BY DEF NoRequest, RequestTypes
      <3> HIDE DEF ask
      <3>3. asked'[t] = ask /\ \A s \in Threads \ {t} : asked'[s] = asked[s]
        BY <1>0, <3>1
      <3>4. CASE ~MayAsk(actor, member)
        <4>1. pc' = [pc EXCEPT ![t] = Step("forbidden", "none")]
          BY <2>1, <3>4 DEF BeginRequest
        <4>2. Allowed("forbidden", "none", ask)
          BY DEF Allowed
        <4> QED
          BY <1>0, <3>1, <3>3, <4>1, <4>2, StepsOn DEF Stages, Places, Collections, Lists, ConsentReads
      <3>5. CASE MayAsk(actor, member) /\ type = "erasure"
        <4>1. pc' = [pc EXCEPT ![t] = Step("reading", "cabinet_content")]
          BY <2>1, <3>5 DEF BeginRequest
        <4>2. Allowed("reading", "cabinet_content", ask)
          BY <3>2, <3>5 DEF Allowed
        <4> QED
          BY <1>0, <3>1, <3>3, <4>1, <4>2, StepsOn DEF Stages, Places, Collections, Lists, ConsentReads
      <3>6. CASE MayAsk(actor, member) /\ type = "processing_restriction"
        <4>1. pc' = [pc EXCEPT ![t] = Step("reading", "consents_to_withdraw")]
          BY <2>1, <3>6 DEF BeginRequest
        <4>2. Allowed("reading", "consents_to_withdraw", ask)
          BY <3>2, <3>6 DEF Allowed, Collections, Lists, Dicts
        <4> QED
          BY <1>0, <3>1, <3>3, <4>1, <4>2, StepsOn DEF Stages, Places, Collections, Lists, ConsentReads
      <3>7. CASE MayAsk(actor, member) /\ type \notin {"erasure", "processing_restriction"}
        <4>1. pc' = [pc EXCEPT ![t] = Step("reading", "journal")]
          BY <2>1, <3>7 DEF BeginRequest
        <4>2. Allowed("reading", "journal", ask)
          BY <3>2 DEF Allowed, Collections, Lists, Dicts
        <4> QED
          BY <1>0, <3>1, <3>3, <4>1, <4>2, StepsOn DEF Stages, Places, Collections, Lists, ConsentReads
      <3> QED
        BY <3>4, <3>5, <3>6, <3>7
    <2>2. ASSUME ReadCollection(t) \/ ReadConsents(t) \/ ReadJournal(t) PROVE Goal
      <3>1. /\ pc[t].at = "reading" /\ pc' = [pc EXCEPT ![t].at = "copied"]
            /\ asked' = asked /\ DOMAIN copied' = Threads /\ pc[t].of \in Places
        BY <1>0, <2>2 DEF ReadCollection, ReadConsents, ReadJournal, Step
      <3>2. Allowed("copied", pc[t].of, asked[t])
        BY <1>0, <3>1 DEF Allowed
      <3> QED
        BY <1>0, <3>1, <3>2, StepsOn DEF Stages
    <2>3. ASSUME EraseCollection(t) PROVE Goal
      <3>1. PICK c \in Collections : /\ pc[t] = Step("copied", c)
                                     /\ pc' = [pc EXCEPT ![t] = Step("reading", Following(c))]
        BY <2>3 DEF EraseCollection, Collections
      <3>2. Following(c) \in Places /\ Following(c) # "consents_to_withdraw"
        BY <3>1 DEF Following, Places, Collections, ConsentReads, Lists, Dicts
      <3>3. Allowed("reading", Following(c), asked[t])
        BY <1>0, <3>1, <3>2 DEF Allowed, Step
      <3>4. asked' = asked /\ copied' = copied
        BY <2>3 DEF EraseCollection
      <3> QED
        BY <1>0, <3>1, <3>2, <3>3, <3>4, StepsOn DEF Stages
    <2>4. ASSUME EraseConsents(t) \/ WithdrawConsents(t) PROVE Goal
      <3>1. /\ pc[t].at = "copied" /\ pc' = [pc EXCEPT ![t] = Step("reading", "journal")]
            /\ asked' = asked /\ copied' = copied
        BY <2>4 DEF EraseConsents, WithdrawConsents, Step
      <3>2. Allowed("reading", "journal", asked[t])
        BY <1>0, <3>1 DEF Allowed, Collections, Lists, Dicts
      <3> QED
        BY <1>0, <3>1, <3>2, StepsOn DEF Stages, Places
    <2>5. ASSUME IterationBreaks(t) \/ SaveJournal(t) PROVE Goal
      <3>1. /\ \/ pc' = [pc EXCEPT ![t].at = "failed"] \/ pc' = [pc EXCEPT ![t].at = "answered"]
            /\ asked' = asked /\ copied' = copied /\ pc[t].of \in Places
        BY <1>0, <2>5 DEF IterationBreaks, SaveJournal
      <3>2. /\ Allowed("failed", pc[t].of, asked[t])
            /\ Allowed("answered", pc[t].of, asked[t])
        BY DEF Allowed
      <3> QED
        BY <1>0, <3>1, <3>2, StepsOn DEF Stages
    <2> HIDE DEF Goal
    <2> QED
      BY <2>1, <2>2, <2>3, <2>4, <2>5 DEF RequestStep
  <1>4. ASSUME NEW s \in Threads PROVE Allowed(pc'[s].at, pc'[s].of, asked'[s])
    <2>1. CASE s = t
      BY <1>1, <2>1
    <2>2. CASE s # t
      BY <1>0, <1>1, <2>2
    <2> QED
      BY <2>1, <2>2
  <1>5. ThreadsAllowed'
    BY <1>4 DEF ThreadsAllowed, Allowed
  <1> QED
    BY <1>1, <1>5

LEMMA PrivacyStep ==
    ASSUME PrivacyInv, NEW t \in Threads, RequestStep(t) PROVE PrivacyInv'
  BY AskedStays, RecordWrites, CollectionsStep, CopiesStep, ThreadsStep
     DEF PrivacyInv, PrivacyTyped

LEMMA PrivacyKept == PrivacyInv => OthersAreUntouched
  <1> SUFFICES ASSUME PrivacyInv PROVE OthersAreUntouched
    OBVIOUS
  <1>1. \A t \in Threads : asked[t] = NoRequest \/ asked[t].type \in RequestTypes
    BY DEF PrivacyInv, PrivacyTyped, Requested
  <1>2. PrivacyTypeOK
    BY <1>1 DEF PrivacyInv, PrivacyTyped, CollectionsHold, HoldsConsents, HoldsEntries,
       PrivacyTypeOK, Collections, Consent
  <1> QED
    BY <1>2 DEF PrivacyInv, CollectionsHold, HoldsRecords, HoldsConsents,
       OthersAreUntouched, Collections

\* However requests of data subjects write their copies over each other, no
\* record disappears and no consent is withdrawn unless its member, or a governor
\* for it, asked for just that.
THEOREM RecordsKeptApart == PrivacySpec => []OthersAreUntouched
  <1>1. PrivacyInv /\ UNCHANGED privacyVars => PrivacyInv'
    BY DEF privacyVars, PrivacyInv, PrivacyTyped, ThreadsAllowed, CopiesHold, CollectionsHold,
           HoldsRecords, HoldsConsents, HoldsEntries, AskedFor
  <1>2. PrivacyInv /\ [PrivacyNext]_privacyVars => PrivacyInv'
    BY <1>1, PrivacyStep DEF PrivacyNext
  <1> QED
    BY <1>2, PrivacyInitially, PrivacyKept, PTL DEF PrivacySpec

----------------------------------------------------------------------------
(***************************************************************************)
(* The pages of the cabinet.  What a page has read of a member's steps can *)
(* be gone only when an erasure was asked for, which stays true, and the   *)
(* consents it has read are as the requests leave them.                    *)
(***************************************************************************)

OwnConsents(found, member) ==
    /\ found \subseteq Consent
    /\ \A c \in found : c.member = member /\ (c.key \in RequiredConsents => c.granted)

StepsRead(found, member) ==
    found \in BOOLEAN /\ (found \/ AskedFor(member, "erasure"))

OnboardingRead(found, member) ==
    /\ found \in Seq(BOOLEAN \cup SUBSET Consent) /\ Len(found) <= 3
    /\ Len(found) >= 2 => StepsRead(found[2], member)
    /\ Len(found) >= 3 => OwnConsents(found[3], member)

ShownRightly(s) ==
    /\ s.readiness.ready => s.member \in Completed \/ AskedFor(s.member, "erasure")
    /\ s.readiness.ready => s.progress = 100
    /\ s.progress = 100 => s.readiness.ready \/ s.readiness.required >= 200
    /\ s.member \in Completed /\ ~AskedFor(s.member, "erasure") => s.readiness.ready

PagesInv ==
    /\ page \in [Readers -> {NoPage} \cup [kind : DOMAIN Reads, member : Members]]
    /\ DOMAIN readSoFar = Readers /\ DOMAIN shown = Readers
    /\ \A r \in Readers :
          /\ page[r] = NoPage => readSoFar[r] = <<>>
          /\ page[r].kind = "onboarding" => OnboardingRead(readSoFar[r], page[r].member)
          /\ shown[r].kind = "onboarding" => shown[r].member \in Members /\ ShownRightly(shown[r])

LEMMA OnboardingOrder ==
    /\ Len(Reads["onboarding"]) = 3
    /\ Reads["onboarding"][1] = "onboarding_profile"
    /\ Reads["onboarding"][2] = "onboarding_steps"
    /\ Reads["onboarding"][3] = "consents"
  <1>1. Reads["onboarding"] = <<"onboarding_profile", "onboarding_steps", "consents">>
    BY DEF Reads
  <1> QED
    BY <1>1

LEMMA OfThree ==
    ASSUME NEW n \in Nat
    PROVE  /\ n < 3 => n \in 0 .. 2 /\ (n = 0 \/ n = 1 \/ n = 2)
           /\ n <= 3 /\ ~(n < 3) => n = 3
  OBVIOUS

LEMMA PagesInitially == PagesInit => PagesInv
  BY DEF PagesInit, PagesInv, NoPage, NothingShown

\* A full bar: as many done as are required.
LEMMA FullPercent ==
    ASSUME NEW n \in Nat, NEW m \in Nat, 0 < n, m <= n
    PROVE  /\ m = n => Rounded(m * 100, n) = 100
           /\ Rounded(m * 100, n) = 100 => m = n \/ n >= 200
  <1>1. CASE m = n
    <2>1. (m * 100) \div n = 100 /\ (m * 100) % n = 0
      BY <1>1
    <2> QED
      BY <1>1, <2>1 DEF Rounded
  <1>2. CASE m < n
    <2> DEFINE q == (m * 100) \div n
               rest == (m * 100) % n
    <2>1. q \in Nat /\ rest \in Nat /\ rest < n /\ m * 100 = q * n + rest
      OBVIOUS
    <2>2. Rounded(m * 100, n) = q \/ (Rounded(m * 100, n) = q + 1 /\ 2 * rest >= n)
      BY <2>1 DEF Rounded
    <2> HIDE DEF q, rest
    <2>3. q < 100
      BY <1>2, <2>1
    <2>4. ASSUME q = 99, 2 * rest >= n PROVE n >= 200
      BY <1>2, <2>1, <2>4
    <2> QED
      BY <1>2, <2>1, <2>2, <2>3, <2>4
  <1> QED
    BY <1>1, <1>2

\* The consents that a page counts are finitely many, as the required ones are.
LEMMA RequiredAreFinite ==
    ASSUME IsFiniteSet(RequiredConsents), NEW member, NEW found, OwnConsents(found, member)
    PROVE  Cardinality(Required(found)) \in Nat
  <1> DEFINE KeyOf == [c \in Required(found) |-> c.key]
  <1>1. ASSUME NEW c \in Required(found)
        PROVE  c = [member |-> member, key |-> c.key, granted |-> TRUE] /\ c.key \in RequiredConsents
    <2>1. c \in Consent /\ c.member = member /\ c.key \in RequiredConsents /\ c.granted
      BY DEF OwnConsents, Required
    <2>2. c.granted = TRUE
      BY <2>1, Zenon DEF Consent
    <2>3. c = [member |-> c.member, key |-> c.key, granted |-> c.granted]
      BY <2>1 DEF Consent
    <2> QED
      BY <2>1, <2>2, <2>3
  <1>2. KeyOf \in Injection(Required(found), RequiredConsents)
    <2>1. KeyOf \in [Required(found) -> RequiredConsents]
      BY <1>1
    <2>2. ASSUME NEW c \in Required(found), NEW d \in Required(found), KeyOf[c] = KeyOf[d]
          PROVE  c = d
      BY <1>1, <2>2
    <2> QED
      BY <2>1, <2>2 DEF Injection, IsInjective
  <1> QED
    BY <1>2, FS_Injection, FS_CardinalityType

LEMMA ReadinessRight ==
    ASSUME IsFiniteSet(RequiredConsents), NEW member \in Members, NEW profile,
           NEW steps, StepsRead(steps, member), NEW found, OwnConsents(found, member)
    PROVE  ShownRightly(OnboardingOverview(member, profile, steps, found))
  <1> DEFINE readiness == Readiness(member, steps, found)
             n == Cardinality(Required(found))
             a == RequiredSteps(steps)
             b == CompletedSteps(steps, member)
             s == OnboardingOverview(member, profile, steps, found)
  <1>1. GrantedRequired(found) = Required(found)
    BY DEF GrantedRequired, Required, OwnConsents
  <1>2. n \in Nat /\ a \in {0, 1} /\ b \in {0, 1} /\ b <= a
    BY RequiredAreFinite DEF RequiredSteps, CompletedSteps
  <1>3. /\ readiness.required = a + n /\ readiness.done = b + n
        /\ readiness.ready <=> a + n > 0 /\ b >= a
    BY <1>1 DEF Readiness
  <1>4. /\ s.member = member /\ s.readiness = readiness
        /\ s.progress = ProgressPercent(readiness)
    BY DEF OnboardingOverview
  <1>5. /\ member \in Completed => b = a
        /\ b >= a => member \in Completed \/ AskedFor(member, "erasure")
        /\ ~AskedFor(member, "erasure") => a = 1
    BY DEF RequiredSteps, CompletedSteps, StepsRead
  <1> HIDE DEF readiness, n, a, b, s
  <1>6. /\ readiness.ready => ProgressPercent(readiness) = 100
        /\ ProgressPercent(readiness) = 100 => readiness.ready \/ readiness.required >= 200
    <2>1. CASE a + n = 0
      BY <1>2, <1>3, <2>1 DEF ProgressPercent
    <2>2. CASE a + n > 0
      <3>1. a + n \in Nat /\ b + n \in Nat /\ b + n <= a + n
        BY <1>2
      <3>2. /\ b + n = a + n => Rounded((b + n) * 100, a + n) = 100
            /\ Rounded((b + n) * 100, a + n) = 100 => b + n = a + n \/ a + n >= 200
        BY <2>2, <3>1, FullPercent
      <3>3. ProgressPercent(readiness) = Rounded((b + n) * 100, a + n)
        BY <1>2, <1>3, <2>2 DEF ProgressPercent
      <3> QED
        BY <1>2, <1>3, <2>2, <3>2, <3>3
    <2> QED
      BY <1>2, <2>1, <2>2
  <1>7. ShownRightly(s)
    BY <1>2, <1>3, <1>4, <1>5, <1>6 DEF ShownRightly
  <1> QED
    BY <1>7 DEF s

\* What a page has read, or shows, stays right whatever is asked for meanwhile.
LEMMA PagesUnderRequests ==
    ASSUME PrivacyInv, PagesInv, UNCHANGED pageVars,
           \A m \in Members : AskedFor(m, "erasure") => AskedFor(m, "erasure")'
    PROVE  PagesInv'
  <1>1. page' = page /\ readSoFar' = readSoFar /\ shown' = shown
    BY DEF pageVars
  <1>2. ASSUME NEW r \in Readers, page[r].kind = "onboarding"
        PROVE  OnboardingRead(readSoFar[r], page[r].member)'
    <2>1. OnboardingRead(readSoFar[r], page[r].member) /\ page[r].member \in Members
      BY <1>2 DEF PagesInv, NoPage
    <2> QED
      BY <1>1, <2>1 DEF OnboardingRead, StepsRead, OwnConsents
  <1>3. ASSUME NEW r \in Readers, shown[r].kind = "onboarding"
        PROVE  shown[r].member \in Members /\ ShownRightly(shown[r])'
    <2>1. ShownRightly(shown[r]) /\ shown[r].member \in Members
      BY <1>3 DEF PagesInv
    <2> QED
      BY <1>1, <2>1 DEF ShownRightly
  <1> QED
    BY <1>1, <1>2, <1>3 DEF PagesInv

ReaderStep(r) ==
    \/ \E actor \in Members \cup Governors, member \in Members, kind \in DOMAIN Reads :
          OpenPage(r, actor, member, kind)
    \/ ListOfMember(r) \/ ListReferralLinks(r) \/ ListConsents(r) \/ FindRequest(r)
    \/ ShowCabinet(r) \/ ShowOnboarding(r) \/ ShowRegistry(r) \/ ShowRequest(r)

LEMMA ReaderStays ==
    ASSUME PrivacyInv, PagesInv, IsFiniteSet(RequiredConsents),
           NEW r \in Readers, ReaderStep(r)
    PROVE  PagesInv' /\ UNCHANGED privacyVars
  <1>0. /\ page \in [Readers -> {NoPage} \cup [kind : DOMAIN Reads, member : Members]]
        /\ DOMAIN readSoFar = Readers /\ DOMAIN shown = Readers
    BY DEF PagesInv
  <1>1. UNCHANGED privacyVars
    BY DEF ReaderStep, OpenPage, ListOfMember, ListReferralLinks, ListConsents, FindRequest,
       ShowCabinet, ShowOnboarding, ShowRegistry, ShowRequest, Reading, Shows
  <1>2. \A m \in Members : AskedFor(m, "erasure")' = AskedFor(m, "erasure")
    BY <1>1 DEF privacyVars, AskedFor
  <1> DEFINE Right(q) ==
        /\ page[q] = NoPage => readSoFar[q] = <<>>
        /\ page[q].kind = "onboarding" => OnboardingRead(readSoFar[q], page[q].member)
        /\ shown[q].kind = "onboarding" => shown[q].member \in Members /\ ShownRightly(shown[q])
  <1>3. ASSUME NEW q \in Readers, page'[q] = page[q], readSoFar'[q] = readSoFar[q],
               shown'[q] = shown[q]
        PROVE  Right(q)'
    <2>1. Right(q) /\ page[q] \in {NoPage} \cup [kind : DOMAIN Reads, member : Members]
      BY <1>0 DEF PagesInv
    <2>2. page[q].kind = "onboarding" => page[q].member \in Members
      BY <2>1 DEF NoPage
    <2> QED
      BY <1>2, <1>3, <2>1, <2>2 DEF OnboardingRead, StepsRead, OwnConsents, ShownRightly
  <1>4. ASSUME NEW actor \in Members \cup Governors, NEW member \in Members,
               NEW kind \in DOMAIN Reads, OpenPage(r, actor, member, kind)
        PROVE  PagesInv'
    <2> DEFINE asks == [kind |-> kind, member |-> member]
    <2>1. /\ page' = [page EXCEPT ![r] = asks] /\ readSoFar' = readSoFar /\ shown' = shown
          /\ readSoFar[r] = <<>>
      BY <1>4 DEF OpenPage, PagesInv
    <2>2. asks \in [kind : DOMAIN Reads, member : Members] /\ asks # NoPage
      BY DEF NoPage
    <2> HIDE DEF asks
    <2>3. \A m \in Members : OnboardingRead(<<>>, m)'
      BY DEF OnboardingRead
    <2>4. page'[r] = asks /\ \A q \in Readers \ {r} : page'[q] = page[q]
      BY <1>0, <2>1
    <2>5. shown[r].kind = "onboarding" => shown[r].member \in Members /\ ShownRightly(shown[r])'
      BY <1>2, <2>1 DEF PagesInv, ShownRightly
    <2>6. Right(r)'
      <3>1. readSoFar'[r] = <<>> /\ page'[r] # NoPage /\ page'[r].member \in Members
        BY <2>1, <2>2, <2>4
      <3>2. OnboardingRead(readSoFar[r], page[r].member)'
        BY <2>3, <3>1 DEF OnboardingRead, StepsRead, OwnConsents
      <3> QED
        BY <2>1, <2>5, <3>1, <3>2
    <2>7. page' \in [Readers -> {NoPage} \cup [kind : DOMAIN Reads, member : Members]]
      BY <1>0, <2>1, <2>2
    <2> HIDE DEF Right
    <2>8. \A q \in Readers : Right(q)'
      BY <1>3, <2>1, <2>4, <2>6
    <2> QED
      BY <1>0, <2>1, <2>7, <2>8 DEF PagesInv, Right
  <1>5. ASSUME NEW found, Reading(r, found), page[r] # NoPage,
               page[r].kind = "onboarding" =>
                   OnboardingRead(Append(readSoFar[r], found), page[r].member)
        PROVE  PagesInv'
    <2>0. PICK so : so = Append(readSoFar[r], found)
      OBVIOUS
    <2>1. /\ readSoFar' = [readSoFar EXCEPT ![r] = so]
          /\ page' = page /\ shown' = shown
      BY <1>5, <2>0 DEF Reading
    <2>2. page[r].member \in Members
      BY <1>0, <1>5
    <2>3. page[r].kind = "onboarding" => OnboardingRead(readSoFar[r], page[r].member)'
      <3>1. readSoFar'[r] = so
        BY <1>0, <2>1
      <3> QED
        BY <1>2, <1>5, <2>0, <2>1, <2>2, <3>1 DEF OnboardingRead, StepsRead, OwnConsents
    <2>4. shown[r].kind = "onboarding" => shown[r].member \in Members /\ ShownRightly(shown[r])'
      BY <1>2, <2>1 DEF PagesInv, ShownRightly
    <2>5. Right(r)'
      BY <1>5, <2>1, <2>3, <2>4
    <2> HIDE DEF Right
    <2>6. \A q \in Readers : Right(q)'
      BY <1>0, <1>3, <2>1, <2>5
    <2> QED
      BY <1>0, <2>1, <2>6 DEF PagesInv, Right
  <1>6. ASSUME NEW what, Shows(r, what),
               what.kind = "onboarding" => what.member \in Members /\ ShownRightly(what)
        PROVE  PagesInv'
    <2>1. shown' = [shown EXCEPT ![r] = what] /\ page' = page /\ readSoFar' = readSoFar
      BY <1>6 DEF Shows
    <2>2. what.kind = "onboarding" => ShownRightly(what)'
      BY <1>2, <1>6 DEF ShownRightly
    <2>3. page[r].kind = "onboarding" => OnboardingRead(readSoFar[r], page[r].member)'
      <3>1. page[r].kind = "onboarding" => page[r].member \in Members
        BY <1>0 DEF NoPage
      <3> QED
        BY <1>2, <2>1, <3>1 DEF PagesInv, OnboardingRead, StepsRead, OwnConsents
    <2>4. Right(r)'
      BY <1>0, <1>6, <2>1, <2>2, <2>3 DEF PagesInv
    <2> HIDE DEF Right
    <2>5. \A q \in Readers : Right(q)'
      BY <1>0, <1>3, <2>1, <2>4
    <2> QED
      BY <1>0, <2>1, <2>5 DEF PagesInv, Right
  <1>7. CASE ListOfMember(r) \/ ListReferralLinks(r) \/ ListConsents(r) \/ FindRequest(r)
    <2>0. /\ page[r] # NoPage /\ page[r].member \in Members
          /\ Len(readSoFar[r]) < Len(Reads[page[r].kind])
          /\ page[r].kind = "onboarding" => OnboardingRead(readSoFar[r], page[r].member)
      BY <1>0, <1>7 DEF PagesInv, ListOfMember, ListReferralLinks, ListConsents, FindRequest,
         Remaining
    <2>a. page[r].kind = "onboarding" =>
             /\ Len(readSoFar[r]) \in 0 .. 2
             /\ Len(readSoFar[r]) = 0 => NextRead(r) = "onboarding_profile"
             /\ Len(readSoFar[r]) = 1 => NextRead(r) = "onboarding_steps"
             /\ Len(readSoFar[r]) = 2 => NextRead(r) = "consents"
      <3> SUFFICES ASSUME page[r].kind = "onboarding"
                   PROVE  /\ Len(readSoFar[r]) \in 0 .. 2
                          /\ Len(readSoFar[r]) = 0 => NextRead(r) = "onboarding_profile"
                          /\ Len(readSoFar[r]) = 1 => NextRead(r) = "onboarding_steps"
                          /\ Len(readSoFar[r]) = 2 => NextRead(r) = "consents"
        OBVIOUS
      <3>1. readSoFar[r] \in Seq(BOOLEAN \cup SUBSET Consent)
        BY <2>0 DEF OnboardingRead
      <3>2. Len(readSoFar[r]) \in Nat
        BY <3>1, ItemsOf
      <3>3. Reads[page[r].kind] = Reads["onboarding"]
        OBVIOUS
      <3>4. Len(readSoFar[r]) < 3
        BY <2>0, <3>3, OnboardingOrder
      <3>5. NextRead(r) = Reads["onboarding"][Len(readSoFar[r]) + 1]
        BY <3>3 DEF NextRead
      <3>6. PICK n : n = Len(readSoFar[r])
        OBVIOUS
      <3>7. n \in 0 .. 2 /\ (n = 0 \/ n = 1 \/ n = 2)
        <4>1. n \in Nat /\ n < 3
          BY <3>2, <3>4, <3>6, Zenon
        <4> QED
          BY <4>1, OfThree
      <3>9. NextRead(r) = Reads["onboarding"][n + 1]
        BY <3>5, <3>6
      <3>8. /\ n = 0 => NextRead(r) = "onboarding_profile"
            /\ n = 1 => NextRead(r) = "onboarding_steps"
            /\ n = 2 => NextRead(r) = "consents"
        BY <3>9, OnboardingOrder
      <3> QED
        BY <3>6, <3>7, <3>8
    <2>b. ASSUME page[r].kind = "onboarding", NEW found \in BOOLEAN \cup SUBSET Consent,
                 NextRead(r) = "onboarding_steps" => StepsRead(found, page[r].member),
                 NextRead(r) = "consents" => OwnConsents(found, page[r].member)
          PROVE  OnboardingRead(Append(readSoFar[r], found), page[r].member)
      <3>1. /\ Append(readSoFar[r], found) \in Seq(BOOLEAN \cup SUBSET Consent)
            /\ Len(Append(readSoFar[r], found)) = Len(readSoFar[r]) + 1
            /\ Append(readSoFar[r], found)[Len(readSoFar[r]) + 1] = found
            /\ \A i \in 1 .. Len(readSoFar[r]) :
                  Append(readSoFar[r], found)[i] = readSoFar[r][i]
        BY <2>0, <2>b, OneMore DEF OnboardingRead
      <3>2. CASE Len(readSoFar[r]) = 0
        BY <3>1, <3>2 DEF OnboardingRead
      <3>3. CASE Len(readSoFar[r]) = 1
        BY <2>a, <2>b, <3>1, <3>3 DEF OnboardingRead
      <3>4. CASE Len(readSoFar[r]) = 2
        BY <2>0, <2>a, <2>b, <3>1, <3>4 DEF OnboardingRead
      <3> QED
        BY <2>a, <2>b, <3>2, <3>3, <3>4
    <2>1. CASE ListOfMember(r)
      <3>0. PICK found : found = (page[r].member \in records[NextRead(r)])
        OBVIOUS
      <3>1. Reading(r, found) /\ NextRead(r) \in Collections
        BY <2>1, <3>0 DEF ListOfMember, Collections
      <3>a. found \in BOOLEAN
        <4>1. (page[r].member \in records[NextRead(r)]) \in BOOLEAN
          OBVIOUS
        <4> QED
          BY <3>0, <4>1, Zenon
      <3>b. \A m \in Members : ~AskedFor(m, "erasure") => m \in records[NextRead(r)]
        BY <3>1 DEF PrivacyInv, CollectionsHold, HoldsRecords
      <3>c. found \/ AskedFor(page[r].member, "erasure")
        BY <2>0, <3>0, <3>b
      <3>2. found \in BOOLEAN /\ StepsRead(found, page[r].member)
        BY <3>a, <3>c DEF StepsRead
      <3>3. NextRead(r) # "consents"
        BY <3>1 DEF Collections, Lists, Dicts
      <3> QED
        BY <1>1, <1>5, <2>0, <2>b, <3>1, <3>2, <3>3
    <2>2. CASE ListReferralLinks(r)
      <3>0. PICK found : found = (page[r].member \in records["cabinet_content"])
        OBVIOUS
      <3>1. Reading(r, found) /\ NextRead(r) = "referral_links"
        BY <2>2, <3>0 DEF ListReferralLinks
      <3>2. page[r].kind # "onboarding"
        BY <2>a, <3>1
      <3> QED
        BY <1>1, <1>5, <2>0, <3>1, <3>2
    <2>3. CASE ListConsents(r)
      <3>0. PICK found : found = ({c \in consents : c.member = page[r].member})
        OBVIOUS
      <3>1. Reading(r, found) /\ NextRead(r) = "consents"
        BY <2>3, <3>0 DEF ListConsents
      <3>2. found \in SUBSET Consent /\ OwnConsents(found, page[r].member)
        BY <3>0 DEF PrivacyInv, CollectionsHold, HoldsConsents, OwnConsents
      <3> QED
        BY <1>1, <1>5, <2>0, <2>b, <3>1, <3>2
    <2>4. CASE FindRequest(r)
      <3>0. PICK found : found = ({e \in journal : e.member = page[r].member})
        OBVIOUS
      <3>1. Reading(r, found) /\ NextRead(r) = "journal"
        BY <2>4, <3>0 DEF FindRequest
      <3>2. page[r].kind # "onboarding"
        BY <2>a, <3>1
      <3> QED
        BY <1>1, <1>5, <2>0, <3>1, <3>2
    <2> QED
      BY <1>7, <2>1, <2>2, <2>3, <2>4
  <1>8. CASE ShowOnboarding(r)
    <2> DEFINE what == OnboardingOverview(page[r].member, readSoFar[r][1], readSoFar[r][2], readSoFar[r][3])
    <2>1. /\ Shows(r, what) /\ page[r] # NoPage /\ page[r].kind = "onboarding"
          /\ ~(Len(readSoFar[r]) < Len(Reads["onboarding"]))
      BY <1>8 DEF ShowOnboarding, Complete, Remaining
    <2>2. /\ page[r].member \in Members
          /\ OnboardingRead(readSoFar[r], page[r].member)
      BY <1>0, <2>1 DEF PagesInv
    <2>3. Len(readSoFar[r]) = 3
      <3>1. readSoFar[r] \in Seq(BOOLEAN \cup SUBSET Consent) /\ Len(readSoFar[r]) <= 3
        BY <2>2 DEF OnboardingRead
      <3>2. Len(readSoFar[r]) \in Nat
        BY <3>1, ItemsOf
      <3>3. ~(Len(readSoFar[r]) < 3)
        BY <2>1, OnboardingOrder
      <3> QED
        BY <3>1, <3>2, <3>3, OfThree, Zenon
    <2>4. StepsRead(readSoFar[r][2], page[r].member) /\ OwnConsents(readSoFar[r][3], page[r].member)
      BY <2>2, <2>3 DEF OnboardingRead
    <2>5. ShownRightly(what)
      BY <2>2, <2>4, ReadinessRight
    <2>6. what.member = page[r].member
      BY DEF OnboardingOverview
    <2>7. PICK it : it = what
      OBVIOUS
    <2> HIDE DEF what
    <2> QED
      BY <1>1, <1>6, <2>1, <2>2, <2>5, <2>6, <2>7
  <1>9. CASE ShowCabinet(r) \/ ShowRegistry(r) \/ ShowRequest(r)
    <2>1. PICK what : Shows(r, what) /\ what.kind # "onboarding"
      <3>1. CASE ShowCabinet(r)
        BY <3>1 DEF ShowCabinet, Overview
      <3>2. CASE ShowRegistry(r)
        BY <3>2 DEF ShowRegistry
      <3>3. CASE ShowRequest(r)
        BY <3>3 DEF ShowRequest
      <3> QED
        BY <1>9, <3>1, <3>2, <3>3
    <2> QED
      BY <1>1, <1>6, <2>1
  <1> QED
    BY <1>1, <1>4, <1>7, <1>8, <1>9 DEF ReaderStep

\* The pages change nothing that requests rely on.
LEMMA PrivacyUnderPages == PrivacyInv /\ UNCHANGED privacyVars => PrivacyInv'
  BY DEF privacyVars, PrivacyInv, PrivacyTyped, ThreadsAllowed, CopiesHold, CollectionsHold,
         HoldsRecords, HoldsConsents, HoldsEntries, AskedFor

CabinetInv == PrivacyInv /\ PagesInv

LEMMA CabinetRequest ==
    ASSUME CabinetInv, NEW t \in Threads, RequestStep(t), UNCHANGED pageVars PROVE CabinetInv'
  <1>1. \A m \in Members : AskedFor(m, "erasure") => AskedFor(m, "erasure")'
    BY AskedStays DEF CabinetInv, RequestTypes
  <1> QED
    BY <1>1, PrivacyStep, PagesUnderRequests DEF CabinetInv

LEMMA CabinetPages ==
    ASSUME CabinetInv, IsFiniteSet(RequiredConsents), PagesNext PROVE CabinetInv'
  <1>1. ASSUME NEW r \in Readers, ReaderStep(r) PROVE CabinetInv'
    BY <1>1, ReaderStays, PrivacyUnderPages DEF CabinetInv
  <1>2. ASSUME NEW t \in Meanwhile, RequestStep(t), UNCHANGED pageVars PROVE CabinetInv'
    BY <1>2, CabinetRequest, PagesAssumption
  <1> QED
    BY <1>1, <1>2 DEF PagesNext, ReaderStep

LEMMA CabinetIdle ==
    CabinetInv /\ UNCHANGED <<privacyVars, pageVars>> => CabinetInv'
  <1> SUFFICES ASSUME CabinetInv, UNCHANGED <<privacyVars, pageVars>> PROVE CabinetInv'
    OBVIOUS
  <1>1. \A m \in Members : AskedFor(m, "erasure") => AskedFor(m, "erasure")'
    BY DEF privacyVars, AskedFor
  <1> QED
    BY <1>1, PrivacyUnderPages, PagesUnderRequests DEF CabinetInv

LEMMA CabinetKept == CabinetInv => OthersAreUntouched /\ ReadinessIsEarned
  <1> SUFFICES ASSUME CabinetInv PROVE ReadinessIsEarned
    BY PrivacyKept DEF CabinetInv
  <1> QED
    BY DEF CabinetInv, PagesInv, ReadinessIsEarned, OnboardingShown, ShownRightly

\* Requests of data subjects and pages side by side, for any members, threads and
\* consents of which finitely many are required: records are kept apart, and no
\* page shows a member ready who is not, save while its records are erased.
THEOREM CabinetConsistent ==
    ASSUME IsFiniteSet(RequiredConsents) PROVE Spec => []CabinetIsConsistent
  <1>1. Init => CabinetInv
    BY PrivacyInitially, PagesInitially DEF Init, CabinetInv
  <1>2. CabinetInv /\ [Next]_vars => CabinetInv'
    <2> SUFFICES ASSUME CabinetInv, [Next]_vars PROVE CabinetInv'
      OBVIOUS
    <2>1. CASE PrivacyNext /\ UNCHANGED pageVars
      BY <2>1, CabinetRequest DEF PrivacyNext
    <2>2. CASE PagesNext
      BY <2>2, CabinetPages
    <2>3. CASE UNCHANGED <<privacyVars, pageVars>>
      BY <2>3, CabinetIdle
    <2>4. \/ PrivacyNext /\ UNCHANGED pageVars
          \/ PagesNext
          \/ UNCHANGED <<privacyVars, pageVars>>
      BY Zenon DEF Next, Only, vars
    <2> QED
      BY <2>1, <2>2, <2>3, <2>4
  <1> QED
    BY <1>1, <1>2, CabinetKept, PTL DEF Spec, CabinetIsConsistent

----------------------------------------------------------------------------
(***************************************************************************)
(* Content generation.  A request that waits for the contribution logger   *)
(* has announced a content id of its own, which nobody was credited for    *)
(* yet: so the logger's records and the repository grow side by side.      *)
(***************************************************************************)

StoredContent == [content : Nat, key : GenerationKeys, request : ContentRequests,
                  l3 : {SelectL3(request) : request \in ContentRequests}]

Logging(c) == generating[c].at = "logging"

LoggedContent == [at : {"logging"}, content : Nat, key : GenerationKeys, request : ContentRequests]

ContentsTyped ==
    /\ DOMAIN generating = Callers
    /\ contentIds \in Nat
    /\ contents \in Seq(StoredContent)
    /\ credited \in Seq(Nat)
    /\ \A c \in Callers : Logging(c) => generating[c] \in LoggedContent

\* Handed out, announced, not credited, and nobody else's.
HasItsContent(c) ==
    /\ generating[c].content <= contentIds
    /\ [content |-> generating[c].content, key |-> generating[c].key] \in announced
    /\ \A i \in DOMAIN credited : credited[i] # generating[c].content
    /\ \A d \in Callers : Logging(d) /\ generating[d].content = generating[c].content => d = c

ContentsInv ==
    /\ ContentsTyped
    /\ \A c \in Callers : Logging(c) => HasItsContent(c)
    /\ \A i \in DOMAIN credited : credited[i] <= contentIds
    /\ DOMAIN credited = DOMAIN contents
    /\ \A i \in DOMAIN contents :
          /\ credited[i] = contents[i].content
          /\ [content |-> contents[i].content, key |-> contents[i].key] \in announced
    /\ \A i, j \in DOMAIN credited : credited[i] = credited[j] => i = j

LEMMA ContentsInitially == ContentsInit => ContentsInv
  BY DEF ContentsInit, ContentsInv, ContentsTyped, Logging

\* A caller that does not wait for the logger after its step disturbs nothing.
LEMMA CallerElsewhere ==
    ASSUME ContentsInv, NEW c \in Callers, NEW s, s.at # "logging",
           generating' = [generating EXCEPT ![c] = s],
           UNCHANGED <<contents, announced, credited, contentIds>>
    PROVE  ContentsInv'
  <1>1. \A d \in Callers : Logging(d)' => Logging(d) /\ generating'[d] = generating[d]
    BY DEF Logging, ContentsInv, ContentsTyped
  <1>2. \A d \in Callers : Logging(d)' => HasItsContent(d)'
    BY <1>1 DEF ContentsInv, HasItsContent
  <1> QED
    BY <1>1, <1>2 DEF ContentsInv, ContentsTyped

LEMMA AnnounceKeeps ==
    ASSUME ContentsInv, NEW c \in Callers, NEW key \in GenerationKeys,
           NEW request \in ContentRequests, AnnounceContent(c, key, request)
    PROVE  ContentsInv'
  <1> DEFINE waits == [at |-> "logging", content |-> contentIds + 1, key |-> key, request |-> request]
  <1>1. /\ generating' = [generating EXCEPT ![c] = waits] /\ contentIds' = contentIds + 1
        /\ announced' = announced \cup {[content |-> contentIds + 1, key |-> key]}
        /\ contents' = contents /\ credited' = credited
        /\ contentIds \in Nat /\ DOMAIN generating = Callers
    BY DEF AnnounceContent, ContentsInv, ContentsTyped
  <1>2. generating'[c] = waits /\ \A d \in Callers \ {c} : generating'[d] = generating[d]
    BY <1>1
  <1>3. ContentsTyped'
    <2>1. waits \in LoggedContent
      BY <1>1 DEF LoggedContent
    <2>2. \A d \in Callers : Logging(d)' => generating'[d] \in LoggedContent
      BY <1>2, <2>1 DEF Logging, ContentsInv, ContentsTyped
    <2> QED
      BY <1>1, <2>2 DEF ContentsInv, ContentsTyped
  <1>4. \A i \in DOMAIN credited : credited[i] \in Nat
    BY ItemsOf DEF ContentsInv, ContentsTyped
  <1>5. \A d \in Callers : Logging(d) => generating[d].content \in Nat
    BY DEF ContentsInv, ContentsTyped, LoggedContent
  <1>6. HasItsContent(c)'
    <2>1. \A i \in DOMAIN credited : credited[i] # contentIds + 1
      BY <1>1, <1>4 DEF ContentsInv
    <2>2. ASSUME NEW d \in Callers \ {c}, Logging(d)
          PROVE  generating[d].content # contentIds + 1
      <3>1. generating[d].content \in Nat
        BY <1>5, <2>2
      <3>2. generating[d].content <= contentIds
        BY <2>2 DEF ContentsInv, HasItsContent
      <3> QED
        BY <1>1, <3>1, <3>2
    <2> QED
      BY <1>1, <1>2, <2>1, <2>2 DEF HasItsContent, Logging
  <1>7. ASSUME NEW d \in Callers \ {c}, Logging(d)' PROVE HasItsContent(d)'
    <2>1. Logging(d) /\ HasItsContent(d) /\ generating[d].content # contentIds + 1
      BY <1>1, <1>2, <1>5, <1>7 DEF ContentsInv, Logging, HasItsContent
    <2>2. generating[d].content <= contentIds + 1
      BY <1>1, <1>5, <2>1 DEF HasItsContent
    <2> QED
      BY <1>1, <1>2, <2>1, <2>2 DEF HasItsContent, Logging
  <1>8. \A i \in DOMAIN credited : credited[i] <= contentIds + 1
    BY <1>1, <1>4 DEF ContentsInv
  <1> QED
    BY <1>1, <1>3, <1>6, <1>7, <1>8 DEF ContentsInv

LEMMA StoreKeeps ==
    ASSUME ContentsInv, NEW c \in Callers, StoreContent(c) PROVE ContentsInv'
  <1> DEFINE g == generating[c]
             made == Generation(g)
             s == [at |-> "answered", content |-> g.content]
             n == Len(contents)
  <1>1. /\ Logging(c) /\ HasItsContent(c) /\ g \in LoggedContent
        /\ DOMAIN generating = Callers /\ contentIds \in Nat
        /\ contents \in Seq(StoredContent) /\ credited \in Seq(Nat)
        /\ DOMAIN credited = DOMAIN contents
    BY DEF StoreContent, Logging, ContentsInv, ContentsTyped
  <1>2. /\ generating' = [generating EXCEPT ![c] = s]
        /\ credited' = Append(credited, g.content) /\ contents' = Append(contents, made)
        /\ announced' = announced /\ contentIds' = contentIds
    BY DEF StoreContent
  <1>3. /\ g.content \in Nat /\ made \in StoredContent
        /\ made.content = g.content /\ made.key = g.key
    BY <1>1 DEF LoggedContent, StoredContent, Generation
  <1>4. /\ contents' \in Seq(StoredContent) /\ n \in Nat /\ DOMAIN contents = 1 .. n
        /\ DOMAIN contents' = 1 .. n \cup {n + 1}
        /\ \A i \in 1 .. n : contents'[i] = contents[i]
        /\ contents'[n + 1] = made
    BY <1>1, <1>2, <1>3, OneMore
  <1>5. Len(credited) = n
    BY <1>1, <1>4, ItemsOf
  <1>6. /\ credited' \in Seq(Nat) /\ DOMAIN credited = 1 .. n
        /\ DOMAIN credited' = 1 .. n \cup {n + 1}
        /\ \A i \in 1 .. n : credited'[i] = credited[i]
        /\ credited'[n + 1] = g.content
    BY <1>1, <1>2, <1>3, <1>5, OneMore
  <1>7. \A d \in Callers : Logging(d)' => d # c /\ Logging(d) /\ generating'[d] = generating[d]
    BY <1>1, <1>2 DEF Logging
  <1> HIDE DEF g, made, s, n
  <1>8. ContentsTyped'
    BY <1>1, <1>2, <1>4, <1>6, <1>7 DEF ContentsInv, ContentsTyped
  <1>9. ASSUME NEW d \in Callers, Logging(d)' PROVE HasItsContent(d)'
    <2>1. d # c /\ Logging(d) /\ HasItsContent(d) /\ generating'[d] = generating[d]
      BY <1>7, <1>9 DEF ContentsInv
    <2>2. generating[d].content # g.content
      BY <1>1, <2>1 DEF HasItsContent, g
    <2>3. \A i \in DOMAIN credited' : credited'[i] # generating'[d].content
      BY <1>6, <2>1, <2>2 DEF HasItsContent
    <2>4. \A e \in Callers : Logging(e)' /\ generating'[e].content = generating'[d].content => e = d
      BY <1>7, <2>1 DEF HasItsContent
    <2> QED
      BY <1>2, <2>1, <2>3, <2>4 DEF HasItsContent
  <1>10. \A i \in DOMAIN credited' : credited'[i] <= contentIds'
    BY <1>1, <1>2, <1>6 DEF ContentsInv, HasItsContent, g
  <1>11. \A i \in DOMAIN contents' :
            /\ credited'[i] = contents'[i].content
            /\ [content |-> contents'[i].content, key |-> contents'[i].key] \in announced'
    BY <1>1, <1>2, <1>3, <1>4, <1>6 DEF ContentsInv, HasItsContent, g
  <1>12. \A i, j \in DOMAIN credited' : credited'[i] = credited'[j] => i = j
    BY <1>1, <1>6 DEF ContentsInv, HasItsContent, g
  <1> QED
    BY <1>4, <1>6, <1>8, <1>9, <1>10, <1>11, <1>12 DEF ContentsInv

LEMMA ContentsStep == ContentsInv /\ [ContentsNext]_contentVars => ContentsInv'
  <1> SUFFICES ASSUME ContentsInv, [ContentsNext]_contentVars PROVE ContentsInv'
    OBVIOUS
  <1>1. ASSUME NEW c \in Callers, NEW key \in GenerationKeys, NEW request \in ContentRequests,
               AnswerExisting(c, key, request)
        PROVE  ContentsInv'
    <2> DEFINE first == contents[Min({i \in DOMAIN contents : contents[i].key = key})]
    <2>1. PICK s : s = IF first.request = request THEN [at |-> "answered", content |-> first.content]
                                                 ELSE [at |-> "conflict"]
      OBVIOUS
    <2>2. /\ generating' = [generating EXCEPT ![c] = s]
          /\ UNCHANGED <<contents, announced, credited, contentIds>>
      BY <1>1, <2>1 DEF AnswerExisting
    <2>3. s.at # "logging"
      BY <2>1
    <2> QED
      BY <2>2, <2>3, CallerElsewhere
  <1>2. ASSUME NEW c \in Callers, NEW key \in GenerationKeys, NEW request \in ContentRequests,
               RefuseGeneration(c, key, request)
        PROVE  ContentsInv'
    BY <1>2, CallerElsewhere DEF RefuseGeneration
  <1>3. ASSUME NEW c \in Callers, RefuseContribution(c) PROVE ContentsInv'
    BY <1>3, CallerElsewhere DEF RefuseContribution
  <1>4. ASSUME NEW c \in Callers, NextRequest(c) PROVE ContentsInv'
    BY <1>4, CallerElsewhere DEF NextRequest
  <1>5. ASSUME UNCHANGED <<generating, contents, announced, credited, contentIds>>
        PROVE  ContentsInv'
    BY <1>5 DEF ContentsInv, ContentsTyped, Logging, HasItsContent
  <1>6. ASSUME NEW content \in 1 .. MaxContents, NEW level \in Levels, RecordClick(content, level)
        PROVE  ContentsInv'
    BY <1>5, <1>6 DEF RecordClick
  <1>7. CASE UNCHANGED contentVars
    BY <1>5, <1>7 DEF contentVars
  <1> QED
    BY <1>1, <1>2, <1>3, <1>4, <1>6, <1>7, AnnounceKeeps, StoreKeeps DEF ContentsNext

LEMMA ContentsKept == ContentsInv => CreditedContentIsReady
  <1> SUFFICES ASSUME ContentsInv PROVE CreditedContentIsReady
    OBVIOUS
  <1>1. credited = [i \in DOMAIN contents |-> contents[i].content]
    <2>1. credited = [i \in DOMAIN credited |-> credited[i]]
      BY DEF ContentsInv, ContentsTyped
    <2> QED
      BY <2>1 DEF ContentsInv
  <1>2. \A g \in ToSet(contents) : [content |-> g.content, key |-> g.key] \in announced
    BY DEF ToSet, ContentsInv
  <1>3. IsInjective(credited)
    BY DEF IsInjective, ContentsInv
  <1> QED
    BY <1>1, <1>2, <1>3 DEF CreditedContentIsReady

\* generate_content: however many requests interleave, with whatever keys, and
\* whichever contributions are refused, each credited content is stored in its
\* place, announced, and credited once.
THEOREM CreditedReady == ContentsSpec => []CreditedContentIsReady
  BY ContentsInitially, ContentsStep, ContentsKept, PTL DEF ContentsSpec

---------------------------------------------------------------------------
(* The wallet: balances run on.                                            *)

\* The numbers up to a bound, counted up from zero.
LEMMA CountedUp ==
    ASSUME NEW n \in Nat, NEW S, 0 \in S,
           \A i \in 0 .. n : i \in S /\ i < n => i + 1 \in S
    PROVE  0 .. n \subseteq S
<1> SUFFICES ASSUME (0 .. n) \ S # {}
             PROVE  FALSE
  OBVIOUS
<1> DEFINE T == (0 .. n) \ S
<1>0. T \subseteq Nat /\ T # {}
  OBVIOUS
<1> HIDE DEF T
<1>1. PICK i \in T : \A j \in T : i <= j
  BY <1>0, LeastNat
<1> USE DEF T
<1>2. i # 0 /\ i \in 0 .. n
  BY <1>1
<1> DEFINE j == i - 1
<1>3. j \in 0 .. n /\ j < n /\ ~(i <= j) /\ j + 1 = i
  BY <1>2
<1> HIDE DEF j
<1>4. j \in S
  BY <1>1, <1>3
<1>5. i \in S
  BY <1>3, <1>4
<1> QED
  BY <1>1, <1>5

\* The function that SumOf unfolds: the sums of the first entries.
SumsTo(f, s, n) ==
    /\ f \in [0 .. n -> Nat]
    /\ f[0] = 0
    /\ \A i \in 1 .. n : f[i] = f[i - 1] + s[i]

SumsExist(s, n) == \E f : SumsTo(f, s, n)

\* The sums agree as long as the entries do.
LEMMA SumsAgree ==
    ASSUME NEW s, NEW t, NEW n \in Nat, NEW m \in 0 .. n, NEW f, NEW g,
           SumsTo(f, t, n), SumsTo(g, s, m), \A i \in 1 .. m : t[i] = s[i]
    PROVE  \A i \in 0 .. m : f[i] = g[i]
<1> DEFINE S == {i \in 0 .. m : f[i] = g[i]}
<1>1. 0 \in S
  BY DEF SumsTo
<1>2. ASSUME NEW i \in 0 .. m, i \in S, i < m
      PROVE  i + 1 \in S
  <2>1. i + 1 \in 1 .. m /\ i + 1 \in 1 .. n /\ i + 1 - 1 = i
    BY <1>2
  <2>2. f[i + 1] = f[i] + t[i + 1] /\ g[i + 1] = g[i] + s[i + 1]
    BY <2>1 DEF SumsTo
  <2> QED
    BY <1>2, <2>1, <2>2
<1> HIDE DEF S
<1>3. 0 .. m \subseteq S
  BY <1>1, <1>2, CountedUp
<1> QED
  BY <1>3 DEF S

LEMMA SumsExistForAll ==
    ASSUME NEW s \in Seq(Nat)
    PROVE  SumsExist(s, Len(s))
<1> DEFINE S == {n \in 0 .. Len(s) : SumsExist(s, n)}
<1>0. Len(s) \in Nat /\ \A i \in 1 .. Len(s) : s[i] \in Nat
  OBVIOUS
<1>1. 0 \in S
  <2> DEFINE f == [i \in 0 .. 0 |-> 0]
  <2>1. SumsTo(f, s, 0)
    BY DEF SumsTo
  <2> QED
    BY <1>0, <2>1 DEF SumsExist
<1>2. ASSUME NEW n \in 0 .. Len(s), n \in S, n < Len(s)
      PROVE  n + 1 \in S
  <2>1. PICK g : SumsTo(g, s, n)
    BY <1>2 DEF SumsExist
  <2> DEFINE f == [i \in 0 .. n + 1 |-> IF i = n + 1 THEN g[n] + s[n + 1] ELSE g[i]]
  <2>2. f \in [0 .. n + 1 -> Nat] /\ f[0] = 0
    BY <1>0, <1>2, <2>1 DEF SumsTo
  <2>3. ASSUME NEW i \in 1 .. n + 1
        PROVE  f[i] = f[i - 1] + s[i]
    <3>1. CASE i = n + 1
      BY <1>2, <3>1
    <3>2. CASE i # n + 1
      <4>1. i \in 1 .. n /\ i \in 0 .. n + 1 /\ i - 1 \in 0 .. n + 1 /\ i - 1 # n + 1
        BY <1>2, <3>2
      <4>2. g[i] = g[i - 1] + s[i]
        BY <2>1, <4>1 DEF SumsTo
      <4> QED
        BY <3>2, <4>1, <4>2
    <3> QED
      BY <3>1, <3>2
  <2> HIDE DEF f
  <2>4. SumsTo(f, s, n + 1)
    BY <2>2, <2>3 DEF SumsTo
  <2> QED
    BY <1>0, <1>2, <2>4 DEF SumsExist
<1> HIDE DEF S
<1>3. 0 .. Len(s) \subseteq S
  BY <1>0, <1>1, <1>2, CountedUp
<1> QED
  BY <1>0, <1>3 DEF S

\* The function that WeightsUpTo and SumOf unfold.
LEMMA WeightsSumUp ==
    ASSUME NEW s \in Seq(Nat)
    PROVE  SumsTo(WeightsUpTo(s), s, Len(s))
<1> DEFINE Unfolds(f) == f = [i \in 0 .. Len(s) |-> IF i = 0 THEN 0 ELSE f[i - 1] + s[i]]
           sum == CHOOSE f : Unfolds(f)
<1>0. Len(s) \in Nat /\ \A i \in 1 .. Len(s) : s[i] \in Nat
  OBVIOUS
<1>1. WeightsUpTo(s) = sum
  BY DEF WeightsUpTo
<1>2. PICK g : SumsTo(g, s, Len(s))
  BY SumsExistForAll DEF SumsExist
<1>3. g = [i \in 0 .. Len(s) |-> g[i]]
  BY <1>2 DEF SumsTo
<1>4. \A i \in 0 .. Len(s) : g[i] = IF i = 0 THEN 0 ELSE g[i - 1] + s[i]
  BY <1>0, <1>2 DEF SumsTo
<1>5. Unfolds(g)
  BY <1>3, <1>4
<1>6. Unfolds(sum)
  BY <1>5
<1> HIDE DEF sum
<1> DEFINE S == {i \in 0 .. Len(s) : sum[i] = g[i]}
<1>7. 0 \in S
  BY <1>0, <1>2, <1>6 DEF SumsTo
<1>8. ASSUME NEW i \in 0 .. Len(s), i \in S, i < Len(s)
      PROVE  i + 1 \in S
  <2>1. i + 1 \in 1 .. Len(s) /\ i + 1 \in 0 .. Len(s) /\ i + 1 - 1 = i /\ i + 1 # 0
    BY <1>0, <1>8
  <2>2. sum[i + 1] = sum[i + 1 - 1] + s[i + 1]
    BY <1>6, <2>1
  <2>3. g[i + 1] = g[i + 1 - 1] + s[i + 1]
    BY <1>2, <2>1 DEF SumsTo
  <2> QED
    BY <1>8, <2>1, <2>2, <2>3
<1> HIDE DEF S
<1>9. 0 .. Len(s) \subseteq S
  BY <1>0, <1>7, <1>8, CountedUp
<1>10. \A i \in 0 .. Len(s) : sum[i] = g[i]
  BY <1>9 DEF S
<1>11. sum = [i \in 0 .. Len(s) |-> sum[i]]
  BY <1>6
<1>12. sum = g
  BY <1>3, <1>10, <1>11
<1> QED
  BY <1>1, <1>2, <1>12

\* What SumOf returns is the last of those sums.
LEMMA SumIsLast ==
    ASSUME NEW s \in Seq(Nat)
    PROVE  \E f : SumsTo(f, s, Len(s)) /\ SumOf(s) = f[Len(s)]
<1>1. SumOf(s) = WeightsUpTo(s)[Len(s)]
  BY DEF SumOf, WeightsUpTo
<1> QED
  BY <1>1, WeightsSumUp

LEMMA SumOfAppend ==
    ASSUME NEW s, s \in Seq(Nat), NEW e \in Nat
    PROVE  SumOf(s) \in Nat /\ SumOf(Append(s, e)) = SumOf(s) + e
<1> SUFFICES ASSUME NEW t, t = Append(s, e), NEW n, n = Len(s), NEW k, k = n + 1
             PROVE  SumOf(s) \in Nat /\ SumOf(t) = SumOf(s) + e
  OBVIOUS
<1>1. /\ n \in Nat /\ k \in Nat /\ n \in 0 .. k /\ n \in 0 .. n /\ k \in 1 .. k /\ k - 1 = n
      /\ t \in Seq(Nat) /\ Len(t) = k /\ t[k] = e
      /\ \A i \in 1 .. n : t[i] = s[i]
  OBVIOUS
<1>2. PICK f : SumsTo(f, t, k) /\ SumOf(t) = f[k]
  BY <1>1, SumIsLast
<1>3. PICK g : SumsTo(g, s, n) /\ SumOf(s) = g[n]
  BY SumIsLast
<1>4. \A i \in 0 .. n : f[i] = g[i]
  <2>1. /\ k \in Nat /\ n \in 0 .. k /\ SumsTo(f, t, k) /\ SumsTo(g, s, n)
        /\ \A i \in 1 .. n : t[i] = s[i]
    BY <1>1, <1>2, <1>3
  <2> QED
    BY ONLY <2>1, SumsAgree
<1>5. f[k] = f[n] + e /\ g[n] \in Nat
  BY <1>1, <1>2, <1>3 DEF SumsTo
<1> QED
  BY <1>1, <1>2, <1>3, <1>4, <1>5


WalletEntry == [key : WalletKeys, request : WalletRequests, balance_after : Int]

LEMMA SumOfNone == SumOf(<<>>) = 0
<1>1. <<>> \in Seq(Nat) /\ Len(<<>>) = 0
  OBVIOUS
<1>2. PICK f : SumsTo(f, <<>>, 0) /\ SumOf(<<>>) = f[0]
  BY <1>1, SumIsLast
<1> QED
  BY <1>2 DEF SumsTo

\* The amounts of a member are numbers, one for each operation.
LEMMA AmountsType ==
    ASSUME operations \in Seq(WalletEntry), NEW m, NEW sign \in {1, -1}
    PROVE  AmountsOf(m, sign) \in Seq(Nat) /\ Len(AmountsOf(m, sign)) = Len(operations)
<1>1. \A i \in DOMAIN operations : operations[i].request.amount \in Int
  <2>1. \A i \in DOMAIN operations : operations[i] \in WalletEntry
    OBVIOUS
  <2> QED
    BY <2>1, AmountsAssumption DEF WalletEntry
<1>2. \A i \in DOMAIN operations : AmountsOf(m, sign)[i] \in Nat
  BY <1>1 DEF AmountsOf
<1>3. AmountsOf(m, sign) \in [1 .. Len(operations) -> Nat] /\ Len(operations) \in Nat
  BY <1>2 DEF AmountsOf
<1> QED
  BY <1>3

\* What a recorded operation adds to the balances.
LEMMA BalanceMoves ==
    ASSUME operations \in Seq(WalletEntry), NEW entry \in WalletEntry,
           operations' = Append(operations, entry), NEW m
    PROVE  /\ BalanceForMember(m) \in Int
           /\ BalanceForMember(m)' = BalanceForMember(m)
                  + (IF entry.request.member_id = m THEN entry.request.amount ELSE 0)
<1> DEFINE amount == entry.request.amount
           Part(sign) == IF entry.request.member_id = m /\ sign * amount > 0 THEN sign * amount ELSE 0
<1>0. amount \in Int
  BY AmountsAssumption DEF WalletEntry
<1>1. ASSUME NEW sign \in {1, -1}
      PROVE  /\ SumOf(AmountsOf(m, sign)) \in Nat
             /\ SumOf(AmountsOf(m, sign)') = SumOf(AmountsOf(m, sign)) + Part(sign)
  <2> DEFINE e == Part(sign)
             s == AmountsOf(m, sign)
             n == Len(operations)
  <2>1. e \in Nat
    BY <1>0
  <2>2. s \in Seq(Nat) /\ Len(s) = n /\ n \in Nat
    BY AmountsType
  <2>3. /\ DOMAIN operations' = 1 .. n + 1 /\ DOMAIN operations = 1 .. n
        /\ \A i \in 1 .. n : operations'[i] = operations[i]
        /\ operations'[n + 1] = entry
    BY OneMore
  <2>4. AmountsOf(m, sign)' = [i \in 1 .. n + 1 |-> IF i = n + 1 THEN e ELSE s[i]]
    <3>1. \A i \in 1 .. n : s[i] =
             IF operations[i].request.member_id = m /\ sign * operations[i].request.amount > 0
             THEN sign * operations[i].request.amount ELSE 0
      BY <2>3 DEF AmountsOf
    <3>2. AmountsOf(m, sign)' = [i \in 1 .. n + 1 |->
             IF operations'[i].request.member_id = m /\ sign * operations'[i].request.amount > 0
             THEN sign * operations'[i].request.amount ELSE 0]
      BY <2>3 DEF AmountsOf
    <3>3. \A i \in 1 .. n + 1 : i # n + 1 => i \in 1 .. n
      BY <2>2
    <3>4. e = IF operations'[n + 1].request.member_id = m /\ sign * operations'[n + 1].request.amount > 0
              THEN sign * operations'[n + 1].request.amount ELSE 0
      BY <2>3
    <3> HIDE DEF s, n, e
    <3>5. \A i \in 1 .. n + 1 :
             (IF operations'[i].request.member_id = m /\ sign * operations'[i].request.amount > 0
              THEN sign * operations'[i].request.amount ELSE 0)
             = IF i = n + 1 THEN e ELSE s[i]
      BY <2>3, <3>1, <3>3, <3>4
    <3> QED
      BY ONLY <3>2, <3>5
  <2> HIDE DEF e, s, n
  <2>5. Append(s, e) = [i \in 1 .. n + 1 |-> IF i = n + 1 THEN e ELSE s[i]]
    <3>1. /\ Append(s, e) \in Seq(Nat) /\ Len(Append(s, e)) = n + 1
          /\ \A i \in 1 .. n : Append(s, e)[i] = s[i]
          /\ Append(s, e)[n + 1] = e
      <4>1. s \in Seq(Nat) /\ e \in Nat
        BY <2>1, <2>2
      <4>2. /\ Append(s, e) \in Seq(Nat) /\ Len(Append(s, e)) = Len(s) + 1
            /\ \A i \in 1 .. Len(s) : Append(s, e)[i] = s[i]
            /\ Append(s, e)[Len(s) + 1] = e
        BY ONLY <4>1, OneMore
      <4>3. Len(s) = n
        BY <2>2
      <4> QED
        BY ONLY <4>2, <4>3, Zenon
    <3> DEFINE t == Append(s, e)
    <3>2. t \in Seq(Nat) /\ Len(t) = n + 1 /\ \A i \in 1 .. n + 1 : t[i] = IF i = n + 1 THEN e ELSE s[i]
      BY <2>2, <3>1
    <3> HIDE DEF t
    <3>3. t = [i \in 1 .. n + 1 |-> t[i]]
      BY <3>2
    <3> QED
      BY <3>2, <3>3 DEF t
  <2>6. SumOf(s) \in Nat /\ SumOf(Append(s, e)) = SumOf(s) + e
    BY <2>1, <2>2, SumOfAppend
  <2>7. AmountsOf(m, sign)' = Append(s, e)
    BY <2>4, <2>5
  <2> QED
    BY <2>6, <2>7 DEF s, e
<1>2. SumOf(AmountsOf(m, 1)) \in Nat /\ SumOf(AmountsOf(m, 1)') = SumOf(AmountsOf(m, 1)) + Part(1)
  BY <1>1
<1>3. SumOf(AmountsOf(m, -1)) \in Nat /\ SumOf(AmountsOf(m, -1)') = SumOf(AmountsOf(m, -1)) + Part(-1)
  BY <1>1
<1>4. Part(1) - Part(-1) = IF entry.request.member_id = m THEN amount ELSE 0
  BY <1>0
<1>5. BalanceForMember(m)' = SumOf(AmountsOf(m, 1)') - SumOf(AmountsOf(m, -1)')
  BY DEF BalanceForMember, SumOf
<1>6. Part(1) \in Int /\ Part(-1) \in Int
  BY <1>0
<1> HIDE DEF Part, amount
<1> QED
  BY <1>2, <1>3, <1>4, <1>5, <1>6 DEF BalanceForMember, amount

\* A set of places in a sequence has a last one.
LEMMA LastPlace ==
    ASSUME NEW n \in Nat, NEW S \in SUBSET (1 .. n), S # {}
    PROVE  Max(S) \in S /\ \A i \in S : Max(S) >= i
<1> DEFINE T == {n - i : i \in S}
<1>1. \A i \in S : i \in Nat /\ n - i \in Nat
  OBVIOUS
<1>2. T \subseteq Nat /\ T # {}
  BY <1>1
<1>3. PICK d \in T : \A e \in T : d <= e
  BY <1>2, LeastNat
<1>4. PICK x \in S : d = n - x
  BY <1>3
<1>5. \A y \in S : x >= y
  BY <1>1, <1>3, <1>4
<1> QED
  BY <1>5 DEF Max

\* What the statement showed after n operations it shows whatever follows.
LEMMA StatementStays ==
    ASSUME operations \in Seq(WalletEntry), NEW entry \in WalletEntry,
           operations' = Append(operations, entry), NEW m, NEW n \in 0 .. Len(operations)
    PROVE  BalanceAfter(operations', m, n) = BalanceAfter(operations, m, n)
<1>1. n \in Nat /\ \A i \in 1 .. n : operations'[i] = operations[i]
  <2>1. Len(operations) \in Nat /\ \A i \in 1 .. Len(operations) : operations'[i] = operations[i]
    BY OneMore
  <2> QED
    BY <2>1
<1>2. OperationsOf(operations', m, n) = OperationsOf(operations, m, n)
  BY <1>1 DEF OperationsOf
<1>3. OperationsOf(operations, m, n) \in SUBSET (1 .. n)
  BY DEF OperationsOf
<1>4. OperationsOf(operations, m, n) # {} => Max(OperationsOf(operations, m, n)) \in 1 .. n
  BY <1>1, <1>3, LastPlace
<1> QED
  BY <1>1, <1>2, <1>4 DEF BalanceAfter



LEMMA WalletInitially == WalletInit => StatementAddsUp
<1> SUFFICES ASSUME WalletInit PROVE StatementAddsUp
  OBVIOUS
<1>1. operations = <<>> /\ walletAudit = <<>> /\ walletEvents = {} /\ walletAnswers = {}
  BY DEF WalletInit
<1>2. WalletTypeOK
  BY <1>1 DEF WalletTypeOK
<1>3. \A m, sign : AmountsOf(m, sign) = <<>>
  BY <1>1 DEF AmountsOf
<1>4. \A m : BalanceForMember(m) = 0
  BY <1>3, SumOfNone DEF BalanceForMember
<1>5. \A m : BalanceAfter(operations, m, 0) = 0
  BY DEF BalanceAfter, OperationsOf
<1>6. DOMAIN operations = {} /\ Len(operations) = 0
  BY <1>1
<1>7. walletAudit = [i \in DOMAIN operations |->
           [id |-> operations[i].request.operation_id, balance |-> operations[i].balance_after]]
  BY <1>1
<1>8. BalancesRun /\ RecordedOnce
  BY <1>4, <1>5, <1>6 DEF BalancesRun, RecordedOnce
<1> QED
  BY <1>1, <1>2, <1>7, <1>8 DEF StatementAddsUp

\* Recording an operation: the balance that is shown gains its amount and is what
\* the operation says.
LEMMA WalletRecords ==
    ASSUME StatementAddsUp, NEW key \in WalletKeys, NEW request \in WalletRequests,
           NEW accepted \in BOOLEAN, RecordOperation(key, request, accepted)
    PROVE  StatementAddsUp'
<1> DEFINE mine == request.member_id
           balance == BalanceForMember(mine) + request.amount
           entry == [key |-> key, request |-> request, balance_after |-> balance]
           figures == [id |-> request.operation_id, balance |-> balance]
           n == Len(operations)
<1>1. operations \in Seq(WalletEntry) /\ WalletTypeOK
  BY DEF StatementAddsUp, WalletTypeOK, WalletEntry
<1>2. /\ operations' = Append(operations, entry)
      /\ walletAudit' = Append(walletAudit, figures)
      /\ walletEvents' = walletEvents \cup (IF accepted THEN {request.operation_id} ELSE {})
      /\ walletAnswers' = walletAnswers \cup
             (IF accepted THEN {[key |-> key, operation |-> entry]} ELSE {})
      /\ WithKey(key) = {} /\ ~OperationExists(request.operation_id)
  BY DEF RecordOperation
<1>3. request.amount \in Int /\ BalanceForMember(mine) \in Int /\ entry \in WalletEntry
  <2>1. request.amount \in Int
    BY AmountsAssumption
  <2>2. BalanceForMember(mine) \in Int
    <3>1. SumOf(AmountsOf(mine, 1)) \in Nat /\ SumOf(AmountsOf(mine, -1)) \in Nat
      <4>1. AmountsOf(mine, 1) \in Seq(Nat) /\ AmountsOf(mine, -1) \in Seq(Nat)
        BY <1>1, AmountsType
      <4> QED
        BY <4>1, SumOfAppend
    <3> QED
      BY <3>1 DEF BalanceForMember
  <2> QED
    BY <2>1, <2>2 DEF WalletEntry
<1>4. /\ entry.key = key /\ entry.request = request /\ entry.balance_after = balance
      /\ balance \in Int
  BY <1>3
<1> HIDE DEF entry
<1>5. /\ operations' \in Seq(WalletEntry) /\ n \in Nat /\ DOMAIN operations = 1 .. n
      /\ Len(operations') = n + 1 /\ DOMAIN operations' = 1 .. n + 1
      /\ \A i \in 1 .. n : operations'[i] = operations[i]
      /\ operations'[n + 1] = entry
  BY <1>1, <1>2, <1>3, OneMore
<1>6. \A i \in 1 .. n : operations[i] \in WalletEntry
  BY <1>1
<1>7. \A m : /\ BalanceForMember(m)' = BalanceForMember(m)
                    + (IF mine = m THEN request.amount ELSE 0)
             /\ BalanceForMember(m) \in Int
             /\ \A i \in 0 .. n : BalanceAfter(operations', m, i) = BalanceAfter(operations, m, i)
  BY <1>1, <1>2, <1>3, <1>4, BalanceMoves, StatementStays
<1>8. \A m \in MembersOfWallet : BalanceForMember(m) = BalanceAfter(operations, m, n)
  BY DEF StatementAddsUp, BalancesRun
<1>9. mine \in MembersOfWallet
  BY DEF MembersOfWallet
<1>10. WalletTypeOK'
  <2>1. /\ walletAudit \in Seq([id : {r.operation_id : r \in WalletRequests}, balance : Int])
        /\ figures \in [id : {r.operation_id : r \in WalletRequests}, balance : Int]
    BY <1>1, <1>4 DEF WalletTypeOK
  <2>2. walletAudit' \in Seq([id : {r.operation_id : r \in WalletRequests}, balance : Int])
    BY <1>2, <2>1, OneMore
  <2>3. walletEvents' \subseteq {r.operation_id : r \in WalletRequests}
    BY <1>1, <1>2 DEF WalletTypeOK
  <2> QED
    BY <1>5, <2>2, <2>3 DEF WalletTypeOK, WalletEntry
<1>11. BalancesRun'
  <2>1. ASSUME NEW i \in 1 .. n + 1
        PROVE  operations'[i].balance_after
                   = BalanceAfter(operations', operations'[i].request.member_id, i - 1) + operations'[i].request.amount
    <3>1. CASE i \in 1 .. n
      <4>1. operations[i].balance_after
                = BalanceAfter(operations, operations[i].request.member_id, i - 1) + operations[i].request.amount
        BY <1>5, <3>1 DEF StatementAddsUp, BalancesRun
      <4>2. i - 1 \in 0 .. n
        BY <1>5, <3>1
      <4> QED
        BY <1>5, <1>7, <3>1, <4>1, <4>2
    <3>2. CASE i = n + 1
      <4>1. i - 1 = n /\ n \in 0 .. n
        BY <1>5, <3>2
      <4>2. BalanceAfter(operations', mine, n) = BalanceForMember(mine)
        BY <1>7, <1>8, <1>9, <4>1
      <4> QED
        BY <1>4, <1>5, <3>2, <4>1, <4>2
    <3> QED
      BY <1>5, <3>1, <3>2
  <2>2. ASSUME NEW m \in MembersOfWallet
        PROVE  BalanceForMember(m)' = BalanceAfter(operations', m, n + 1)
    <3> DEFINE all == {i \in 1 .. n + 1 : operations'[i].request.member_id = m}
    <3>1. OperationsOf(operations', m, n + 1) = all
      BY DEF OperationsOf
    <3>2. CASE mine = m
      <4>1. n + 1 \in all /\ all \in SUBSET (1 .. n + 1) /\ n + 1 \in Nat
        BY <1>4, <1>5, <3>2
      <4>2. Max(all) \in all /\ Max(all) >= n + 1
        BY <4>1, LastPlace
      <4>3. Max(all) = n + 1
        BY <4>1, <4>2
      <4> HIDE DEF all
      <4>4. BalanceAfter(operations', m, n + 1) = operations'[n + 1].balance_after
        BY <3>1, <4>1, <4>3 DEF BalanceAfter
      <4> QED
        BY <1>4, <1>5, <1>7, <3>2, <4>4
    <3>3. CASE mine # m
      <4>1. all = OperationsOf(operations', m, n)
        BY <1>4, <1>5, <3>3 DEF OperationsOf
      <4>2. BalanceAfter(operations', m, n + 1) = BalanceAfter(operations', m, n)
        BY <3>1, <4>1 DEF BalanceAfter
      <4>3. BalanceAfter(operations', m, n) = BalanceAfter(operations, m, n)
        BY <1>5, <1>7
      <4> QED
        BY <1>7, <1>8, <3>3, <4>2, <4>3
    <3> QED
      BY <3>2, <3>3
  <2> QED
    BY <1>5, <2>1, <2>2 DEF BalancesRun
<1>12. RecordedOnce'
  <2>1. \A i \in 1 .. n : /\ operations[i].key # key
                          /\ operations[i].request.operation_id # request.operation_id
    BY <1>2, <1>5 DEF WithKey, OperationExists, ToSet
  <2>2. \A i, j \in 1 .. n :
            \/ operations[i].key = operations[j].key
            \/ operations[i].request.operation_id = operations[j].request.operation_id
            => i = j
    BY <1>5 DEF StatementAddsUp, RecordedOnce
  <2>3. \A i \in 1 .. n + 1 : i # n + 1 => i \in 1 .. n
    BY <1>5
  <2> QED
    BY <1>4, <1>5, <2>1, <2>2, <2>3 DEF RecordedOnce
<1>13. walletAudit' = [i \in DOMAIN operations' |->
           [id |-> operations'[i].request.operation_id, balance |-> operations'[i].balance_after]]
  <2>1. walletAudit = [i \in 1 .. n |->
             [id |-> operations[i].request.operation_id, balance |-> operations[i].balance_after]]
    BY <1>5 DEF StatementAddsUp
  <2> DEFINE Figures == [id : {r.operation_id : r \in WalletRequests}, balance : Int]
  <2>2. walletAudit \in Seq(Figures) /\ figures \in Figures
    BY <1>1, <1>4 DEF WalletTypeOK
  <2>3. Len(walletAudit) = n
    BY <1>5, <2>1, <2>2
  <2>4. /\ walletAudit' \in Seq(Figures) /\ Len(walletAudit') = Len(walletAudit) + 1
        /\ \A i \in 1 .. Len(walletAudit) : walletAudit'[i] = walletAudit[i]
        /\ walletAudit'[Len(walletAudit) + 1] = figures
    BY <1>2, <2>2, OneMore
  <2> HIDE DEF Figures
  <2>5. walletAudit' = [i \in 1 .. n + 1 |-> walletAudit'[i]]
    BY <2>3, <2>4
  <2>6. \A i \in 1 .. n + 1 : walletAudit'[i] =
             [id |-> operations'[i].request.operation_id, balance |-> operations'[i].balance_after]
    BY <1>4, <1>5, <2>1, <2>3, <2>4
  <2> QED
    BY <1>5, <2>5, <2>6
<1>14. \A a \in walletAnswers' : "operation" \in DOMAIN a => a.operation \in ToSet(operations')
  <2>1. \A o \in ToSet(operations) : o \in ToSet(operations')
    BY <1>5 DEF ToSet
  <2>2. entry \in ToSet(operations')
    BY <1>5 DEF ToSet
  <2> QED
    BY <1>2, <2>1, <2>2 DEF StatementAddsUp
<1> QED
  BY <1>10, <1>11, <1>12, <1>13, <1>14 DEF StatementAddsUp

LEMMA WalletStep == StatementAddsUp /\ [WalletNext]_walletVars => StatementAddsUp'
<1> SUFFICES ASSUME StatementAddsUp, [WalletNext]_walletVars PROVE StatementAddsUp'
  OBVIOUS
<1>1. ASSUME UNCHANGED <<operations, walletAudit, walletEvents>>,
             \A a \in walletAnswers' : "operation" \in DOMAIN a => a.operation \in ToSet(operations)
      PROVE  StatementAddsUp'
  <2>1. \A m : BalanceForMember(m)' = BalanceForMember(m)
    BY <1>1 DEF BalanceForMember, AmountsOf, SumOf
  <2>2. BalancesRun'
    BY <1>1, <2>1 DEF StatementAddsUp, BalancesRun
  <2> QED
    BY <1>1, <2>2 DEF StatementAddsUp, WalletTypeOK, RecordedOnce
<1>2. ASSUME NEW key \in WalletKeys, NEW request \in WalletRequests,
             AnswerRecorded(key, request) \/ RefuseOperation(key, request)
      PROVE  StatementAddsUp'
  <2>1. UNCHANGED <<operations, walletAudit, walletEvents>>
    BY <1>2 DEF AnswerRecorded, RefuseOperation
  <2>2. \A a \in walletAnswers' : "operation" \in DOMAIN a => a.operation \in ToSet(operations)
    <3>1. CASE AnswerRecorded(key, request)
      <4>1. PICK o \in WithKey(key) :
                walletAnswers' = walletAnswers \cup
                    {IF o.request = request THEN [key |-> key, operation |-> o]
                                            ELSE [key |-> key, conflict |-> TRUE]}
        BY <3>1 DEF AnswerRecorded
      <4>2. o \in ToSet(operations)
        BY DEF WithKey
      <4> QED
        BY <4>1, <4>2 DEF StatementAddsUp
    <3>2. CASE RefuseOperation(key, request)
      BY <3>2 DEF RefuseOperation, StatementAddsUp
    <3> QED
      BY <1>2, <3>1, <3>2
  <2> QED
    BY <1>1, <2>1, <2>2
<1>3. CASE UNCHANGED walletVars
  BY <1>1, <1>3 DEF walletVars, StatementAddsUp
<1> QED
  BY <1>2, <1>3, WalletRecords DEF WalletNext

\* Whatever is recorded, repeated or refused, the statement of each member adds up
\* (record_wallet_operation, balance_for_member).
THEOREM StatementKept == WalletSpec => []StatementAddsUp
BY WalletInitially, WalletStep, PTL DEF WalletSpec

---------------------------------------------------------------------------
(* The partner of the third level: chosen by weight.                       *)

\* Sums of weights do not descend.
LEMMA SumsAscend ==
    ASSUME NEW f, NEW s, NEW n \in Nat, SumsTo(f, s, n), \A i \in 1 .. n : s[i] \in Nat,
           NEW i \in 0 .. n, NEW j \in 0 .. n, i <= j
    PROVE  f[i] <= f[j]
<1> DEFINE S == {k \in 0 .. n : i <= k => f[i] <= f[k]}
<1>0. \A k \in 0 .. n : f[k] \in Nat
  BY DEF SumsTo
<1>1. 0 \in S
  BY <1>0
<1>2. ASSUME NEW k \in 0 .. n, k \in S, k < n
      PROVE  k + 1 \in S
  <2>1. k + 1 \in 1 .. n /\ k + 1 - 1 = k
    BY <1>2
  <2>2. f[k + 1] = f[k] + s[k + 1] /\ s[k + 1] \in Nat
    BY <2>1 DEF SumsTo
  <2>3. CASE i = k + 1
    BY <1>0, <2>1, <2>3
  <2>4. CASE i <= k
    <3>1. f[i] <= f[k]
      BY <1>2, <2>4
    <3> QED
      BY <1>0, <2>1, <2>2, <3>1
  <2> QED
    BY <1>2, <2>1, <2>3, <2>4
<1> HIDE DEF S
<1>3. 0 .. n \subseteq S
  BY <1>1, <1>2, CountedUp
<1> QED
  BY <1>3 DEF S

\* An offset belongs to one place, and a place to as many offsets as it weighs.
LEMMA PlacesWeigh ==
    ASSUME NEW s \in Seq(Nat)
    PROVE  /\ TotalWeight(s) \in Nat
           /\ \A o \in 0 .. TotalWeight(s) - 1 :
                  PlaceAt(s, o) \in DOMAIN s /\ s[PlaceAt(s, o)] > 0
           /\ \A i \in DOMAIN s :
                  Cardinality({o \in 0 .. (TotalWeight(s) - 1) : PlaceAt(s, o) = i}) = s[i]
<1> DEFINE f == WeightsUpTo(s)
           n == Len(s)
           total == TotalWeight(s)
<1>1. SumsTo(f, s, n) /\ n \in Nat /\ DOMAIN s = 1 .. n /\ \A i \in 1 .. n : s[i] \in Nat
  BY WeightsSumUp
<1>2. total = f[n]
  BY DEF TotalWeight
<1> HIDE DEF f, n, total
<1>3. /\ f[0] = 0
      /\ \A i \in 0 .. n : f[i] \in Nat
      /\ \A i \in 1 .. n : f[i] = f[i - 1] + s[i] /\ i - 1 \in 0 .. n
  BY <1>1 DEF SumsTo
<1>4. \A i, j \in 0 .. n : i <= j => f[i] <= f[j]
  BY <1>1, SumsAscend
<1>5. total \in Nat
  BY <1>1, <1>2, <1>3
<1>6. ASSUME NEW o \in 0 .. total - 1
      PROVE  LET p == PlaceAt(s, o)
             IN  /\ p \in 1 .. n /\ o < f[p]
                 /\ \A i \in 1 .. n : o < f[i] => p <= i
  <2> DEFINE T == {i \in 1 .. n : o < f[i]}
  <2>1. n # 0
    BY <1>1, <1>2, <1>3, <1>5
  <2>2. n \in T
    BY <1>1, <1>2, <1>5, <2>1
  <2>3. \E p \in T : \A i \in T : p <= i
    <3>1. T \subseteq Nat /\ T # {}
      BY <2>2
    <3> HIDE DEF T
    <3> QED
      BY <3>1, LeastNat
  <2>4. PlaceAt(s, o) = Min(T)
    BY <1>1 DEF PlaceAt, f
  <2>5. Min(T) \in T /\ \A i \in T : Min(T) <= i
    BY <2>3 DEF Min
  <2> QED
    BY <2>4, <2>5
<1>7. ASSUME NEW i \in 1 .. n, NEW o \in 0 .. total - 1
      PROVE  PlaceAt(s, o) = i <=> o \in f[i - 1] .. f[i] - 1
  <2> DEFINE p == PlaceAt(s, o)
  <2>1. p \in 1 .. n /\ o < f[p] /\ \A k \in 1 .. n : o < f[k] => p <= k
    BY <1>6
  <2> HIDE DEF p
  <2>2. f[i] \in Nat /\ f[i - 1] \in Nat /\ f[p] \in Nat /\ i - 1 \in 0 .. n /\ o \in Nat /\ i \in 0 .. n
    BY <1>1, <1>3, <2>1
  <2>3. ASSUME p = i PROVE o \in f[i - 1] .. f[i] - 1
    <3>1. ~(o < f[i - 1])
      <4>1. CASE i = 1
        BY <4>1, <1>3, <2>2
      <4>2. CASE i # 1
        <5>1. i - 1 \in 1 .. n /\ ~(i <= i - 1)
          BY <4>2, <1>1
        <5> QED
          BY <5>1, <2>1, <2>3
      <4> QED
        BY <4>1, <4>2
    <3> QED
      BY <3>1, <2>1, <2>2, <2>3
  <2>4. ASSUME o \in f[i - 1] .. f[i] - 1 PROVE p = i
    <3>1. p <= i
      BY <2>1, <2>2, <2>4
    <3>2. ~(p <= i - 1)
      <4> SUFFICES ASSUME p <= i - 1
                   PROVE  FALSE
        OBVIOUS
      <4>1. p \in 0 .. n
        BY <2>1
      <4>2. f[p] <= f[i - 1]
        BY <4>1, <2>2, <1>4
      <4> QED
        BY <4>2, <2>1, <2>2, <2>4
    <3> QED
      BY <3>1, <3>2, <2>1
  <2> QED
    BY <2>3, <2>4 DEF p
<1>8. ASSUME NEW i \in 1 .. n
      PROVE  Cardinality({o \in 0 .. (total - 1) : PlaceAt(s, o) = i}) = s[i]
  <2>1. f[i] \in Nat /\ f[i - 1] \in Nat /\ f[i] = f[i - 1] + s[i] /\ s[i] \in Nat
    BY <1>1, <1>3
  <2>2. f[i] <= total
    BY <1>1, <1>2, <1>4
  <2>3. {o \in 0 .. (total - 1) : PlaceAt(s, o) = i} = f[i - 1] .. f[i] - 1
    BY <1>5, <1>7, <2>1, <2>2
  <2>4. Cardinality(f[i - 1] .. f[i] - 1) = s[i]
    <3> HIDE DEF f
    <3>1. f[i - 1] \in Int /\ f[i] - 1 \in Int
      BY <2>1
    <3>2. Cardinality(f[i - 1] .. f[i] - 1) = IF f[i - 1] > f[i] - 1 THEN 0 ELSE f[i] - 1 - f[i - 1] + 1
      BY <3>1, FS_Interval
    <3> QED
      BY <3>2, <2>1
  <2> QED
    BY <2>3, <2>4
<1>9. ASSUME NEW o \in 0 .. total - 1 PROVE s[PlaceAt(s, o)] > 0
  <2> DEFINE p == PlaceAt(s, o)
  <2>1. p \in 1 .. n
    BY <1>6
  <2> HIDE DEF p
  <2>2. o \in f[p - 1] .. f[p] - 1
    BY <2>1, <1>7 DEF p
  <2> QED
    BY <2>1, <2>2, <1>1, <1>3 DEF p
<1> QED
  BY <1>1, <1>5, <1>6, <1>8, <1>9 DEF total

\* Who is chosen for a request that is not refused is eligible.
LEMMA ChosenIsEligible ==
    ASSUME NEW request \in ContentRequests, ~CannotGenerate(request)
    PROVE  \E i \in Eligible(request) : SelectL3(request) = request.l3_candidates[i]
<1> DEFINE candidates == request.l3_candidates
           weights == Weights(request)
           n == Len(candidates)
<1>1. /\ candidates \in Seq(ToSet(candidates)) /\ request.seed \in Nat
      /\ \A c \in ToSet(candidates) : c.contribution_weight \in Nat
  BY ContentsAssumption
<1>2. n \in Nat /\ DOMAIN candidates = 1 .. n /\ \A i \in 1 .. n : candidates[i] \in ToSet(candidates)
  BY <1>1
<1>3. weights \in Seq(Nat) /\ DOMAIN weights = 1 .. n
  <2>1. weights = [i \in 1 .. n |-> weights[i]] /\ \A i \in 1 .. n : weights[i] \in Nat
    BY <1>1, <1>2 DEF Weights
  <2> QED
    BY <1>2, <2>1
<1>4. PICK i \in Eligible(request) : TRUE
  BY DEF CannotGenerate
<1>5. i \in 1 .. n /\ weights[i] # 0
  BY <1>2 DEF CannotGenerate, Weights, Eligible
<1>6. TotalWeight(weights) # 0
  <2> SUFFICES ASSUME TotalWeight(weights) = 0
               PROVE  FALSE
    OBVIOUS
  <2>1. {o \in 0 .. (TotalWeight(weights) - 1) : PlaceAt(weights, o) = i} = {}
    OBVIOUS
  <2>2. Cardinality({o \in 0 .. (TotalWeight(weights) - 1) : PlaceAt(weights, o) = i}) = weights[i]
    BY <1>3, <1>5, PlacesWeigh
  <2> QED
    BY <2>1, <2>2, <1>5, FS_EmptySet
<1> DEFINE offset == request.seed % TotalWeight(weights)
<1>7. TotalWeight(weights) \in Nat
  BY <1>3, PlacesWeigh
<1>8. offset \in 0 .. TotalWeight(weights) - 1
  BY <1>1, <1>6, <1>7
<1> HIDE DEF offset
<1>9. PlaceAt(weights, offset) \in 1 .. n /\ weights[PlaceAt(weights, offset)] > 0
  BY <1>3, <1>8, PlacesWeigh
<1>10. PlaceAt(weights, offset) \in Eligible(request)
  BY <1>2, <1>9 DEF Weights
<1> QED
  BY <1>10 DEF SelectL3, offset

PartnersInv ==
    /\ ContentsTypeOK
    /\ \A c \in Callers : Logging(c) => /\ generating[c].content \in 1 .. MaxContents
                                        /\ ~CannotGenerate(generating[c].request)
    /\ \A i \in DOMAIN contents : /\ ~CannotGenerate(contents[i].request)
                                  /\ contents[i].l3 = SelectL3(contents[i].request)

LEMMA PartnersInitially == ContentsInit => PartnersInv
BY ContentsAssumption DEF ContentsInit, PartnersInv, ContentsTypeOK, Logging

LEMMA PartnersStep == ContentsInv /\ PartnersInv /\ [ContentsNext]_contentVars => PartnersInv'
<1> SUFFICES ASSUME ContentsInv, PartnersInv, [ContentsNext]_contentVars
             PROVE  PartnersInv'
  OBVIOUS
<1>0. DOMAIN generating = Callers
  BY DEF ContentsInv, ContentsTyped
<1>1. ASSUME NEW c \in Callers, NEW s, generating' = [generating EXCEPT ![c] = s],
             s.at \in {"idle", "answered", "conflict", "refused"},
             UNCHANGED <<contents, announced, credited, contentIds>>
      PROVE  PartnersInv'
  BY <1>0, <1>1 DEF PartnersInv, ContentsTypeOK, Logging
<1>2. ASSUME NEW c \in Callers, NEW key \in GenerationKeys, NEW request \in ContentRequests,
             AnswerExisting(c, key, request)
      PROVE  PartnersInv'
  <2> DEFINE first == contents[Min({i \in DOMAIN contents : contents[i].key = key})]
  <2>1. PICK s : s = IF first.request = request THEN [at |-> "answered", content |-> first.content]
                                               ELSE [at |-> "conflict"]
    OBVIOUS
  <2>2. /\ generating' = [generating EXCEPT ![c] = s]
        /\ UNCHANGED <<contents, announced, credited, contentIds>>
    BY <1>2, <2>1 DEF AnswerExisting
  <2>3. s.at \in {"idle", "answered", "conflict", "refused"}
    BY <2>1
  <2> QED
    BY <2>2, <2>3, <1>1
<1>3. ASSUME NEW c \in Callers,
             \/ \E key \in GenerationKeys, request \in ContentRequests : RefuseGeneration(c, key, request)
             \/ RefuseContribution(c) \/ NextRequest(c)
      PROVE  PartnersInv'
  <2>1. PICK s \in {[at |-> "refused"], [at |-> "idle"]} :
            /\ generating' = [generating EXCEPT ![c] = s]
            /\ UNCHANGED <<contents, announced, credited, contentIds>>
    BY <1>3 DEF RefuseGeneration, RefuseContribution, NextRequest
  <2> QED
    BY <2>1, <1>1
<1>4. ASSUME NEW c \in Callers, NEW key \in GenerationKeys, NEW request \in ContentRequests,
             AnnounceContent(c, key, request)
      PROVE  PartnersInv'
  <2>1. contentIds' = contentIds + 1 /\ contentIds' \in 1 .. MaxContents
    BY <1>4, ContentsAssumption DEF AnnounceContent, PartnersInv, ContentsTypeOK
  <2> DEFINE s == [at |-> "logging", content |-> contentIds', key |-> key, request |-> request]
  <2>2. /\ generating' = [generating EXCEPT ![c] = s] /\ ~CannotGenerate(request)
        /\ announced' = announced \cup {[content |-> contentIds', key |-> key]}
        /\ UNCHANGED <<contents, credited>>
    BY <1>4 DEF AnnounceContent
  <2>3. /\ s.at = "logging" /\ s.content = contentIds' /\ s.request = request
        /\ generating'[c] = s /\ \A d \in Callers \ {c} : generating'[d] = generating[d]
    BY <1>0, <2>2
  <2> HIDE DEF s
  <2>4. ContentsTypeOK'
    BY <2>1, <2>2, <2>3 DEF PartnersInv, ContentsTypeOK
  <2>5. \A d \in Callers : Logging(d)' => /\ generating'[d].content \in 1 .. MaxContents
                                          /\ ~CannotGenerate(generating'[d].request)
    BY <2>1, <2>2, <2>3 DEF PartnersInv, Logging
  <2> QED
    BY <2>2, <2>4, <2>5 DEF PartnersInv
<1>5. ASSUME NEW c \in Callers, StoreContent(c)
      PROVE  PartnersInv'
  <2> DEFINE g == generating[c]
             made == Generation(g)
  <2>1. /\ Logging(c) /\ g \in LoggedContent /\ g.content \in 1 .. MaxContents
        /\ ~CannotGenerate(g.request) /\ g.request \in ContentRequests
    BY <1>5 DEF StoreContent, Logging, ContentsInv, ContentsTyped, PartnersInv, LoggedContent
  <2>2. /\ generating' = [generating EXCEPT ![c] = [at |-> "answered", content |-> g.content]]
        /\ credited' = Append(credited, g.content) /\ contents' = Append(contents, made)
        /\ announced' = announced /\ contentIds' = contentIds
    BY <1>5 DEF StoreContent
  <2>3. /\ made.request = g.request /\ made.l3 = SelectL3(g.request) /\ made.content = g.content
        /\ made.key = g.key
    BY DEF Generation
  <2>4. made.l3 \in UNION {ToSet(r.l3_candidates) : r \in ContentRequests}
    <3>1. PICK i \in Eligible(g.request) : made.l3 = g.request.l3_candidates[i]
      BY <2>1, <2>3, ChosenIsEligible
    <3>2. made.l3 \in ToSet(g.request.l3_candidates)
      BY <3>1 DEF Eligible, ToSet
    <3> QED
      BY <3>2, <2>1
  <2> DEFINE Filed == [content : 1 .. MaxContents, key : GenerationKeys, request : ContentRequests,
                        l3 : UNION {ToSet(r.l3_candidates) : r \in ContentRequests}]
  <2>5. made \in Filed
    BY <2>1, <2>4 DEF Generation, LoggedContent
  <2>6. contents \in Seq(Filed) /\ credited \in Seq(1 .. MaxContents)
    BY DEF PartnersInv, ContentsTypeOK
  <2> HIDE DEF Filed, made
  <2>7. /\ contents' \in Seq(Filed) /\ DOMAIN contents' = DOMAIN contents \cup {Len(contents) + 1}
        /\ \A i \in DOMAIN contents : contents'[i] = contents[i]
        /\ contents'[Len(contents) + 1] = made
    BY <2>2, <2>5, <2>6, OneMore
  <2>8. credited' \in Seq(1 .. MaxContents)
    BY <2>1, <2>2, <2>6
  <2>9. \A d \in Callers : /\ generating'[d] = generating[d] \/ generating'[d].at = "answered"
                           /\ Logging(d)' => generating'[d] = generating[d] /\ Logging(d)
    BY <1>0, <2>2 DEF Logging
  <2>10. ContentsTypeOK'
    BY <2>2, <2>7, <2>8, <2>9 DEF PartnersInv, ContentsTypeOK, Filed
  <2>11. \A i \in DOMAIN contents' : /\ ~CannotGenerate(contents'[i].request)
                                     /\ contents'[i].l3 = SelectL3(contents'[i].request)
    BY <2>1, <2>3, <2>7 DEF PartnersInv
  <2> QED
    BY <2>9, <2>10, <2>11 DEF PartnersInv
<1>6. ASSUME UNCHANGED <<generating, contents, announced, credited, contentIds>>
      PROVE  PartnersInv'
  BY <1>6 DEF PartnersInv, ContentsTypeOK, Logging
<1> QED
  BY <1>2, <1>3, <1>4, <1>5, <1>6 DEF ContentsNext, RecordClick, contentVars

LEMMA PartnersKept == PartnersInv => PartnersAreWeighed
<1> SUFFICES ASSUME PartnersInv, NEW g \in ToSet(contents)
             PROVE  /\ \E i \in Eligible(g.request) : g.l3 = g.request.l3_candidates[i]
                    /\ \A i \in DOMAIN Weights(g.request) :
                          Cardinality({o \in 0..(TotalWeight(Weights(g.request)) - 1) :
                                          PlaceAt(Weights(g.request), o) = i})
                              = Weights(g.request)[i]
  BY Zenon DEF PartnersAreWeighed
<1> DEFINE r == g.request
<1>1. r \in ContentRequests /\ ~CannotGenerate(r) /\ g.l3 = SelectL3(r)
  <2>1. PICK i \in DOMAIN contents : g = contents[i]
    BY DEF ToSet
  <2> DEFINE Filed == [content : 1 .. MaxContents, key : GenerationKeys, request : ContentRequests,
                       l3 : UNION {ToSet(q.l3_candidates) : q \in ContentRequests}]
  <2>2. contents \in Seq(Filed)
    BY DEF PartnersInv, ContentsTypeOK
  <2> HIDE DEF Filed
  <2>3. contents[i] \in Filed
    BY <2>2, ItemsOf
  <2>4. contents[i].request \in ContentRequests
    BY <2>3 DEF Filed
  <2> QED
    BY <2>1, <2>4 DEF PartnersInv
<1>2. Weights(r) \in Seq(Nat)
  <2> DEFINE candidates == r.l3_candidates
             n == Len(candidates)
  <2>1. /\ candidates \in Seq(ToSet(candidates))
        /\ \A c \in ToSet(candidates) : c.contribution_weight \in Nat
    BY <1>1, ContentsAssumption
  <2>2. n \in Nat /\ DOMAIN candidates = 1 .. n /\ \A k \in 1 .. n : candidates[k] \in ToSet(candidates)
    BY <2>1
  <2>3. Weights(r) = [k \in 1 .. n |-> Weights(r)[k]] /\ \A k \in 1 .. n : Weights(r)[k] \in Nat
    BY <2>1, <2>2 DEF Weights
  <2> QED
    BY <2>2, <2>3
<1> QED
  BY <1>1, <1>2, ChosenIsEligible, PlacesWeigh

\* generate_content as a whole: whatever requests come under whatever keys, with
\* whatever candidates, thresholds and seeds, each credited content is stored and
\* announced and credited once, and its third level is chosen by the weights.
THEOREM ContentsCredited == ContentsSpec => []ContentsAreCredited
<1> DEFINE Inv == ContentsInv /\ PartnersInv
<1>1. ContentsInit => Inv
  BY ContentsInitially, PartnersInitially
<1>2. Inv /\ [ContentsNext]_contentVars => Inv'
  BY ContentsStep, PartnersStep
<1>3. Inv => ContentsTypeOK /\ PartnersAreWeighed
  BY PartnersKept DEF PartnersInv
<1> QED
  BY <1>1, <1>2, <1>3, CreditedReady, PTL DEF ContentsSpec, ContentsAreCredited

---------------------------------------------------------------------------
(* The dashboards: figures of several listings.                            *)

\* Each type of event feeds one metric, and has that metric's category.
LEMMA MetricsHaveTypes ==
    \A k, l \in DOMAIN KPIDefinitions : KPIDefinitions[k].type = KPIDefinitions[l].type => k = l
BY DEF KPIDefinitions, KPI

LEMMA CategoryOfMetric ==
    \A k \in DOMAIN KPIDefinitions : CategoryOf(KPIDefinitions[k].type) = KPIDefinitions[k].category
<1> SUFFICES ASSUME NEW k \in DOMAIN KPIDefinitions
             PROVE  CategoryOf(KPIDefinitions[k].type) = KPIDefinitions[k].category
  OBVIOUS
<1> DEFINE key == CHOOSE l \in DOMAIN KPIDefinitions : KPIDefinitions[l].type = KPIDefinitions[k].type
<1>1. key \in DOMAIN KPIDefinitions /\ KPIDefinitions[key].type = KPIDefinitions[k].type
  OBVIOUS
<1>2. key = k
  BY <1>1, MetricsHaveTypes
<1> QED
  BY <1>2 DEF CategoryOf

LEMMA CategoryIsKnown ==
    \A e \in Earlier \cup KPIEvents : CategoryOf(e.type) \in Categories
BY KPIAssumption, CategoryOfMetric DEF Categories

LEMMA NoValues == SumValues({}) = 0
<1> DEFINE Unfolds(f) == f = [s \in SUBSET {} |->
                IF s = {} THEN 0
                ELSE (CHOOSE x \in s : TRUE).value + f[s \ {CHOOSE x \in s : TRUE}]]
           iter == CHOOSE f : Unfolds(f)
<1>1. SumValues({}) = iter[{}]
  BY DEF SumValues, FoldSet, MapThenFoldSet
<1>2. Unfolds([s \in SUBSET {} |-> 0])
  OBVIOUS
<1>3. Unfolds(iter)
  BY <1>2
<1> QED
  BY <1>1, <1>3

\* The events of several categories are those of each.
Within(events, cats) == {e \in events : CategoryOf(e.type) \in cats}

LEMMA WithinOneMore ==
    ASSUME NEW events, IsFiniteSet(events), NEW s, NEW c \in s
    PROVE  /\ Cardinality(Within(events, s)) \in Nat /\ Cardinality(Within(events, {c})) \in Nat
           /\ Cardinality(Within(events, s)) =
                  Cardinality(Within(events, {c})) + Cardinality(Within(events, s \ {c}))
<1> DEFINE one == Within(events, {c})
           rest == Within(events, s \ {c})
<1>1. IsFiniteSet(one) /\ IsFiniteSet(rest) /\ IsFiniteSet(Within(events, s))
  BY FS_Subset DEF Within
<1>2. one \cup rest = Within(events, s) /\ one \cap rest = {}
  BY DEF Within
<1>3. Cardinality(one \cup rest) = Cardinality(one) + Cardinality(rest) - Cardinality(one \cap rest)
  BY <1>1, FS_Union
<1>4. Cardinality({}) = 0 /\ Cardinality(one) \in Nat /\ Cardinality(rest) \in Nat
  BY <1>1, FS_CardinalityType, FS_EmptySet
<1>5. Cardinality(one \cap rest) = 0
  BY <1>2, <1>4, Zenon
<1>6. Cardinality(Within(events, s)) \in Nat
  BY <1>1, FS_CardinalityType
<1>7. Cardinality(one \cup rest) = Cardinality(Within(events, s))
  BY <1>2, Zenon
<1> HIDE DEF one, rest
<1>8. Cardinality(one \cup rest) = Cardinality(one) + Cardinality(rest)
  BY <1>3, <1>4, <1>5
<1> QED
  BY <1>4, <1>6, <1>7, <1>8 DEF one, rest

\* The counts of the categories add up to the events of the categories.
LEMMA CategoriesAddUp ==
    ASSUME NEW cats, IsFiniteSet(DOMAIN cats), NEW events, IsFiniteSet(events),
           \A c \in DOMAIN cats : cats[c].event_count = Cardinality(Within(events, {c}))
    PROVE  CountedIn(cats) = Cardinality(Within(events, DOMAIN cats))
<1> DEFINE D == DOMAIN cats
           v(c) == cats[c].event_count
           choice(s) == CHOOSE x \in s : TRUE
           size(s) == Cardinality(Within(events, s))
           Unfolds(f) == f = [s \in SUBSET D |->
                IF s = {} THEN 0 ELSE v(choice(s)) + f[s \ {choice(s)}]]
           iter == CHOOSE f : Unfolds(f)
<1>1. CountedIn(cats) = iter[D]
  BY DEF CountedIn, MapThenSumSet, MapThenFoldSet
<1>2. size({}) = 0
  <2>1. Within(events, {}) = {}
    BY DEF Within
  <2> QED
    BY <2>1, FS_EmptySet
<1>3. \A s \in SUBSET D : s # {} => /\ choice(s) \in s /\ s \ {choice(s)} \in SUBSET D
                                    /\ size(s) = v(choice(s)) + size(s \ {choice(s)})
  <2> TAKE s \in SUBSET D
  <2> HAVE s # {}
  <2>1. choice(s) \in s
    OBVIOUS
  <2> HIDE DEF choice
  <2>2. size(s) = size({choice(s)}) + size(s \ {choice(s)})
    BY <2>1, WithinOneMore
  <2> QED
    BY <2>1, <2>2
<1> HIDE DEF choice, size, v
<1>4. Unfolds([s \in SUBSET D |-> size(s)])
  <2> DEFINE g == [s \in SUBSET D |-> size(s)]
  <2>1. \A s \in SUBSET D : g[s] = IF s = {} THEN 0 ELSE v(choice(s)) + g[s \ {choice(s)}]
    BY <1>2, <1>3
  <2> QED
    BY <2>1
<1>5. Unfolds(iter)
  BY <1>4
<1> HIDE DEF iter
<1> DEFINE Bad == {s \in SUBSET D : iter[s] # size(s)}
           Sizes == {Cardinality(s) : s \in Bad}
<1>6. Bad = {}
  <2> SUFFICES ASSUME Bad # {}
               PROVE  FALSE
    OBVIOUS
  <2>1. \A s \in SUBSET D : IsFiniteSet(s) /\ Cardinality(s) \in Nat
    BY FS_Subset, FS_CardinalityType
  <2>2. Sizes \subseteq Nat /\ Sizes # {}
    BY <2>1
  <2>3. PICK n \in Sizes : \A m \in Sizes : n <= m
    <3> HIDE DEF Sizes
    <3> QED
      BY <2>2, LeastNat
  <2>4. PICK s \in Bad : n = Cardinality(s)
    BY <2>3
  <2>5. s \in SUBSET D /\ iter[s] # size(s)
    OBVIOUS
  <2>6. s # {}
    BY <1>2, <1>5, <2>5
  <2> DEFINE rest == s \ {choice(s)}
  <2>7. choice(s) \in s /\ rest \in SUBSET D /\ size(s) = v(choice(s)) + size(rest)
    BY <1>3, <2>5, <2>6
  <2>8. Cardinality(rest) = Cardinality(s) - 1
    BY <2>1, <2>5, <2>7, FS_RemoveElement
  <2>9. iter[s] = v(choice(s)) + iter[rest]
    BY <1>5, <2>5, <2>6
  <2>10. rest \in Bad
    BY <2>5, <2>7, <2>9
  <2>11. n <= Cardinality(rest) /\ Cardinality(rest) \in Nat /\ n \in Nat
    BY <2>1, <2>2, <2>3, <2>7, <2>10
  <2> QED
    BY <2>4, <2>8, <2>11
<1>7. iter[D] = size(D)
  BY <1>6
<1> QED
  BY <1>1, <1>7 DEF size

\* All of a set of numbers in descending order.
Descends(s, numbers) ==
    /\ s \in [1..Cardinality(numbers) -> numbers]
    /\ \A p \in numbers : \E i \in DOMAIN s : s[i] = p
    /\ \A i, j \in DOMAIN s : i < j => s[i] > s[j]

\* A finite set of numbers has such an order: the least comes last.
LEMMA Descending ==
    ASSUME NEW numbers, numbers \subseteq Nat, IsFiniteSet(numbers)
    PROVE  \E s : Descends(s, numbers)
<1> DEFINE Bad == {t \in SUBSET numbers : ~\E s : Descends(s, t)}
           Sizes == {Cardinality(t) : t \in Bad}
<1> SUFFICES ASSUME Bad # {}
             PROVE  FALSE
  OBVIOUS
<1>1. \A t \in SUBSET numbers : IsFiniteSet(t) /\ Cardinality(t) \in Nat
  BY FS_Subset, FS_CardinalityType
<1>2. Sizes \subseteq Nat /\ Sizes # {}
  BY <1>1
<1>3. PICK n \in Sizes : \A m \in Sizes : n <= m
  <2> HIDE DEF Sizes
  <2> QED
    BY <1>2, LeastNat
<1>4. PICK t \in SUBSET numbers : t \in Bad /\ n = Cardinality(t)
  BY <1>3
<1>5. t # {}
  <2> SUFFICES ASSUME t = {}
               PROVE  FALSE
    OBVIOUS
  <2>1. Descends([i \in {} |-> 0], t)
    BY FS_EmptySet DEF Descends
  <2> QED
    BY <2>1, <1>4
<1>6. PICK least \in t : \A p \in t : least <= p
  BY <1>5, LeastNat
<1> DEFINE rest == t \ {least}
<1>7. rest \in SUBSET numbers /\ Cardinality(rest) = n - 1 /\ Cardinality(rest) \in Nat /\ n \in Nat
  BY <1>1, <1>4, FS_RemoveElement
<1>8. rest \notin Bad
  <2> SUFFICES ASSUME rest \in Bad
               PROVE  FALSE
    OBVIOUS
  <2>1. Cardinality(rest) \in Sizes
    OBVIOUS
  <2> HIDE DEF Sizes, rest
  <2>2. n <= Cardinality(rest)
    BY <2>1, <1>3
  <2> QED
    BY <2>2, <1>7
<1>9. PICK s : Descends(s, rest)
  BY <1>7, <1>8
<1> DEFINE longer == [i \in 1..n |-> IF i = n THEN least ELSE s[i]]
<1>10. /\ DOMAIN s = 1..n - 1
       /\ \A i \in 1..n - 1 : s[i] \in t /\ s[i] # least
  <2>1. s \in [1..n - 1 -> rest]
    BY <1>7, <1>9 DEF Descends
  <2> QED
    BY <2>1
<1>11. longer \in [1..n -> t]
  <2>1. \A i \in 1..n : i # n => i \in 1..n - 1
    BY <1>7
  <2>2. \A i \in 1..n : longer[i] \in t
    BY <2>1, <1>10
  <2> QED
    BY <2>2
<1>12. \A p \in t : \E i \in 1..n : longer[i] = p
  <2> TAKE p \in t
  <2>1. CASE p = least
    <3>1. n \in 1..n
      BY <1>7
    <3> QED
      BY <2>1, <3>1
  <2>2. CASE p # least
    <3>1. PICK i \in 1..n - 1 : s[i] = p
      BY <2>2, <1>9, <1>10 DEF Descends
    <3> QED
      BY <3>1, <1>7
  <2> QED
    BY <2>1, <2>2
<1>13. \A i, j \in 1..n : i < j => longer[i] > longer[j]
  <2> TAKE i, j \in 1..n
  <2> HAVE i < j
  <2>1. i \in 1..n - 1 /\ s[i] \in t /\ s[i] # least /\ longer[i] = s[i]
    BY <1>7, <1>10
  <2>2. CASE j = n
    <3>1. longer[j] = least /\ least <= s[i] /\ s[i] \in Nat /\ least \in Nat
      BY <2>1, <2>2, <1>6
    <3> QED
      BY <2>1, <3>1
  <2>3. CASE j # n
    <3>1. j \in 1..n - 1 /\ longer[j] = s[j]
      BY <2>3, <1>7
    <3> QED
      BY <2>1, <3>1, <1>9, <1>10 DEF Descends
  <2> QED
    BY <2>2, <2>3
<1>14. DOMAIN longer = 1..n
  OBVIOUS
<1> HIDE DEF longer
<1>15. Descends(longer, t)
  BY <1>4, <1>11, <1>12, <1>13, <1>14 DEF Descends
<1> QED
  BY <1>4, <1>15

LEMMA NewestDescends ==
    ASSUME NEW numbers, numbers \subseteq Nat, IsFiniteSet(numbers)
    PROVE  Descends(Newest(numbers), numbers)
<1>1. \E s \in [1..Cardinality(numbers) -> numbers] :
          /\ \A p \in numbers : \E i \in DOMAIN s : s[i] = p
          /\ \A i, j \in DOMAIN s : i < j => s[i] > s[j]
  BY Descending DEF Descends
<1> QED
  BY <1>1, Zenon DEF Newest, Descends

\* What the slices show of the periods that are known.
ChosenWell(chosen, period, known, limit) ==
    /\ chosen \in Seq(Nat)
    /\ chosen # <<>> /\ chosen[1] = period
    /\ \A i, j \in 1..Len(chosen) : chosen[i] = chosen[j] => i = j
    /\ \A p \in known : \/ \E i \in 1..Len(chosen) : chosen[i] = p
                        \/ /\ Len(chosen) = limit
                           /\ \A i \in 2..Len(chosen) : chosen[i] > p

LEMMA PeriodsOf ==
    ASSUME NEW events, IsFiniteSet(events)
    PROVE  IsFiniteSet({e.period : e \in events})
<1> DEFINE f == [e \in events |-> e.period]
<1>1. f \in Surjection(events, {e.period : e \in events})
  BY DEF Surjection
<1> QED
  BY <1>1, FS_Surjection

LEMMA LeastOfTwo ==
    ASSUME NEW a \in Nat, NEW b \in Nat
    PROVE  /\ Min({a, b}) \in {a, b}
           /\ Min({a, b}) <= a /\ Min({a, b}) <= b
<1>1. \E x \in {a, b} : \A y \in {a, b} : x <= y
  OBVIOUS
<1> QED
  BY <1>1 DEF Min

LEMMA PeriodsChosenWell ==
    ASSUME NEW events, IsFiniteSet(events), \A e \in events : e.period \in Nat,
           NEW period \in Nat, NEW limit \in Nat \ {0}
    PROVE  ChosenWell(DashboardPeriods(period, events, limit), period,
                      {e.period : e \in events}, limit)
<1> DEFINE known == {e.period : e \in events}
           others == Newest(known \ {period})
           count == Cardinality(known \ {period})
           room == Min({limit, count + 1})
           chosen == DashboardPeriods(period, events, limit)
<1>1. known \ {period} \subseteq Nat /\ IsFiniteSet(known \ {period}) /\ count \in Nat
  <2>1. IsFiniteSet(known)
    BY PeriodsOf
  <2> HIDE DEF known
  <2>2. IsFiniteSet(known \ {period})
    BY <2>1, FS_RemoveElement
  <2>3. Cardinality(known \ {period}) \in Nat
    BY <2>2, FS_CardinalityType
  <2> QED
    BY <2>2, <2>3 DEF known
<1>2. /\ others \in [1..count -> known \ {period}]
      /\ \A p \in known \ {period} : \E i \in 1..count : others[i] = p
      /\ \A i, j \in 1..count : i < j => others[i] > others[j]
  BY <1>1, NewestDescends DEF Descends
<1> HIDE DEF others, count
<1>3. Len(others) = count
  BY <1>1, <1>2
<1>4. chosen = [i \in 1..room |-> IF i = 1 THEN period ELSE others[i - 1]]
  BY <1>3 DEF DashboardPeriods, others
<1>5. /\ room \in {limit, count + 1} /\ room <= limit /\ room <= count + 1
      /\ room \in Nat \ {0}
  BY <1>1, LeastOfTwo
<1> HIDE DEF chosen, room
<1>6. \A i \in 2..room : /\ i - 1 \in 1..count /\ chosen[i] = others[i - 1]
                         /\ others[i - 1] \in known \ {period} /\ others[i - 1] \in Nat
  BY <1>1, <1>2, <1>4, <1>5
<1>7. \A i \in 1..room : (i = 1 /\ chosen[i] = period) \/ i \in 2..room
  BY <1>4, <1>5
<1>8. chosen \in Seq(Nat) /\ Len(chosen) = room
  <2>1. \A i \in 1..room : chosen[i] \in Nat
    BY <1>6, <1>7
  <2>2. chosen = [i \in 1..room |-> chosen[i]]
    BY <1>4
  <2> QED
    BY <2>1, <2>2, <1>5
<1>9. chosen # <<>> /\ chosen[1] = period
  BY <1>4, <1>5, <1>8
<1>10. \A i, j \in 1..room : i < j => chosen[i] # chosen[j]
  <2> TAKE i, j \in 1..room
  <2> HAVE i < j
  <2>1. j \in 2..room
    BY <1>5
  <2>2. CASE i = 1
    BY <2>1, <2>2, <1>6, <1>7
  <2>3. CASE i \in 2..room
    <3>1. i - 1 < j - 1
      BY <2>3
    <3>2. others[i - 1] > others[j - 1]
      BY <2>1, <2>3, <3>1, <1>2, <1>6
    <3> QED
      BY <2>1, <2>3, <3>2, <1>6
  <2> QED
    BY <2>2, <2>3, <1>7
<1>11. ASSUME NEW p \in known, ~\E i \in 1..room : chosen[i] = p
       PROVE  room = limit /\ \A i \in 2..room : chosen[i] > p
  <2>1. p # period
    BY <1>11, <1>5, <1>9
  <2>2. PICK j \in 1..count : others[j] = p
    BY <2>1, <1>2
  <2>3. j + 1 \notin 1..room
    <3> SUFFICES ASSUME j + 1 \in 1..room
                 PROVE  FALSE
      OBVIOUS
    <3>1. j + 1 \in 2..room /\ (j + 1) - 1 = j
      BY <1>5
    <3>2. chosen[j + 1] = others[j]
      BY <3>1, <1>6
    <3> QED
      BY <3>2, <2>2, <1>11
  <2>4. room < j + 1 /\ room = limit
    BY <2>3, <1>1, <1>5
  <2>5. \A i \in 2..room : others[i - 1] > others[j]
    BY <2>4, <1>2, <1>6
  <2> QED
    BY <2>2, <2>4, <2>5, <1>6
<1>12. \A i, j \in 1..Len(chosen) : chosen[i] = chosen[j] => i = j
  BY <1>5, <1>8, <1>10
<1> QED
  BY <1>8, <1>9, <1>11, <1>12 DEF ChosenWell, chosen

KnownTo(events) == {e.period : e \in events}

\* What has been recorded.
RecordsInv ==
    /\ kpiRecords \subseteq Earlier \cup KPIEvents /\ IsFiniteSet(kpiRecords)
    /\ pilotRecords \in [incidents : SUBSET PilotIncidents, usage : SUBSET UsageSignals]
    /\ IsFiniteSet(pilotRecords.incidents)

\* What is asked for was recorded and is kept.
AskedInv ==
    /\ boardAsked \in [kind : {"dashboard", "report"}, period : Nat,
                       category : Categories \cup {"all"}, limit : {what.limit : what \in Boards},
                       since : SUBSET kpiRecords, incidents : SUBSET pilotRecords.incidents]
    /\ boardAsked.kind = "dashboard" => boardAsked.limit \in Nat \ {0}

\* Each listing has what an earlier one of the same period had.
ListedInv ==
    /\ listed \in Seq(SUBSET (Earlier \cup KPIEvents \cup UsageSignals \cup PilotIncidents))
    /\ listed # <<>> => /\ InPeriod(boardAsked.since, boardAsked.period) \subseteq listed[1]
                        /\ listed[1] \subseteq InPeriod(kpiRecords, boardAsked.period)
    /\ boardAsked.kind = "report" /\ Len(listed) >= 3 =>
          /\ InPeriod(boardAsked.incidents, boardAsked.period) \subseteq listed[3]
          /\ listed[3] \subseteq pilotRecords.incidents

SlicesInv ==
    slicePeriods # <<>> =>
        /\ boardAsked.kind = "dashboard"
        /\ ChosenWell(slicePeriods, boardAsked.period, KnownTo(boardAsked.since), boardAsked.limit)
        /\ Len(listed) >= 1
        /\ Len(listed) >= 2 => /\ listed[1] \subseteq listed[2]
                               /\ listed[2] \subseteq InPeriod(kpiRecords, boardAsked.period)

BoardsInv ==
    /\ RecordsInv
    /\ IF boardAsked = NotAsked THEN listed = <<>> /\ slicePeriods = <<>> /\ board = NotAsked
                                ELSE AskedInv /\ ListedInv /\ SlicesInv
    /\ DashboardsAddUp

LEMMA BoardsInitially == BoardsInit => BoardsInv
BY KPIAssumption, FS_EmptySet DEF BoardsInit, BoardsInv, RecordsInv, DashboardsAddUp, SlicesFollowSummary,
      ReportsMissNothing, NotAsked

\* Records that are added disturb nothing of what was listed or shown.
LEMMA RecordsAdded ==
    ASSUME BoardsInv, RecordsInv', kpiRecords \subseteq kpiRecords',
           pilotRecords.incidents \subseteq pilotRecords'.incidents,
           UNCHANGED <<boardAsked, listed, slicePeriods, board>>
    PROVE  BoardsInv'
<1>1. CASE boardAsked = NotAsked
  BY <1>1 DEF BoardsInv, DashboardsAddUp, SlicesFollowSummary, ReportsMissNothing, NotAsked
<1>2. CASE boardAsked # NotAsked
  <2>1. AskedInv'
    BY <1>2 DEF BoardsInv, AskedInv
  <2>2. \A p : InPeriod(kpiRecords, p) \subseteq InPeriod(kpiRecords', p)
    BY DEF InPeriod
  <2>3. ListedInv' /\ SlicesInv'
    <3>1. ListedInv'
      BY <1>2, <2>2 DEF BoardsInv, ListedInv
    <3>2. SlicesInv'
      BY <1>2, <2>2 DEF BoardsInv, SlicesInv
    <3> QED
      BY <3>1, <3>2
  <2>4. Quiet(boardAsked.period)' => Quiet(boardAsked.period)
    BY <1>2, <2>2 DEF BoardsInv, AskedInv, Quiet, InPeriod
  <2>5. DashboardsAddUp'
    <3>1. SlicesFollowSummary /\ ReportsMissNothing
      BY DEF BoardsInv, DashboardsAddUp
    <3>2. ReportsMissNothing'
      BY <3>1 DEF ReportsMissNothing
    <3>3. SlicesFollowSummary'
      BY <3>1, <2>4 DEF SlicesFollowSummary, ShownPeriods
    <3> QED
      BY <3>2, <3>3 DEF DashboardsAddUp
  <2> QED
    BY <1>2, <2>1, <2>3, <2>5 DEF BoardsInv
<1> QED
  BY <1>1, <1>2

LEMMA RecordsStep ==
    ASSUME BoardsInv,
           \/ \E e \in KPIEvents : AddEvent(e)
           \/ \E i \in PilotIncidents : AddIncident(i)
           \/ \E u \in UsageSignals : AddUsage(u)
    PROVE  BoardsInv'
<1>1. RecordsInv
  BY DEF BoardsInv
<1> DEFINE Grow == /\ RecordsInv'
                  /\ kpiRecords \subseteq kpiRecords'
                  /\ pilotRecords.incidents \subseteq pilotRecords'.incidents
<1>2. Grow
  <2>1. ASSUME NEW e \in KPIEvents, AddEvent(e)
        PROVE  Grow
    BY <2>1, <1>1, FS_AddElement DEF AddEvent, RecordsInv
  <2>2. ASSUME NEW i \in PilotIncidents, AddIncident(i)
        PROVE  Grow
    <3>1. pilotRecords'.incidents = pilotRecords.incidents \cup {i}
             /\ pilotRecords' \in [incidents : SUBSET PilotIncidents, usage : SUBSET UsageSignals]
      BY <2>2, <1>1 DEF AddIncident, RecordsInv
    <3>2. IsFiniteSet(pilotRecords.incidents \cup {i})
      BY <1>1, FS_AddElement DEF RecordsInv
    <3> QED
      BY <3>1, <3>2, <2>2, <1>1 DEF AddIncident, RecordsInv
  <2>3. ASSUME NEW u \in UsageSignals, AddUsage(u)
        PROVE  Grow
    BY <2>3, <1>1 DEF AddUsage, RecordsInv
  <2> QED
    BY <2>1, <2>2, <2>3
<1>3. UNCHANGED <<boardAsked, listed, slicePeriods, board>>
  BY DEF AddEvent, AddIncident, AddUsage
<1> QED
  BY <1>2, <1>3, RecordsAdded

LEMMA AskStep ==
    ASSUME BoardsInv, NEW what \in Boards, Ask(what)
    PROVE  BoardsInv'
<1>1. /\ listed = <<>> /\ slicePeriods = <<>> /\ board = NotAsked
      /\ UNCHANGED <<kpiRecords, pilotRecords, listed, slicePeriods, board>>
  BY DEF Ask, BoardsInv
<1>2. boardAsked' # NotAsked /\ AskedInv'
  <2>1. /\ what.kind \in {"dashboard", "report"}
        /\ what.period \in Nat /\ what.category \in Categories \cup {"all"}
        /\ what.kind = "dashboard" => what.limit \in Nat \ {0}
    BY KPIAssumption
  <2> QED
    BY <1>1, <2>1 DEF Ask, AskedInv, NotAsked
<1>3. ListedInv' /\ SlicesInv'
  BY <1>1 DEF Ask, ListedInv, SlicesInv
<1>4. DashboardsAddUp'
  BY <1>1 DEF DashboardsAddUp, SlicesFollowSummary, ReportsMissNothing, NotAsked
<1>5. RecordsInv'
  BY <1>1 DEF BoardsInv, RecordsInv
<1> QED
  BY <1>2, <1>3, <1>4, <1>5 DEF BoardsInv

\* While nothing is shown yet, a listing only has to fit the earlier ones.
LEMMA ListingAdded ==
    ASSUME BoardsInv, NEW found, ListsNext(found), boardAsked # NotAsked, ListedInv', SlicesInv'
    PROVE  BoardsInv'
<1>1. UNCHANGED <<kpiRecords, pilotRecords, boardAsked, slicePeriods, board>> /\ board = NotAsked
  BY DEF ListsNext
<1>2. DashboardsAddUp'
  BY <1>1 DEF DashboardsAddUp, SlicesFollowSummary, ReportsMissNothing, NotAsked
<1>3. RecordsInv' /\ AskedInv'
  BY <1>1 DEF BoardsInv, RecordsInv, AskedInv
<1> QED
  BY <1>1, <1>2, <1>3 DEF BoardsInv

LEMMA OneOfThem ==
    ASSUME NEW S, NEW s \in Seq(S), NEW x \in S
    PROVE  /\ Append(s, x) \in Seq(S) /\ Len(Append(s, x)) = Len(s) + 1 /\ Append(s, x) # <<>>
           /\ \A i \in 1..Len(s) : Append(s, x)[i] = s[i]
           /\ Append(s, x)[Len(s) + 1] = x
           /\ Len(s) \in Nat /\ (s = <<>> <=> Len(s) = 0)
OBVIOUS

LEMMA ListStep ==
    ASSUME BoardsInv, ListEvents \/ ListSlice \/ ListUsage \/ ListIncidents
    PROVE  BoardsInv'
<1> DEFINE All == Earlier \cup KPIEvents \cup UsageSignals \cup PilotIncidents
<1>1. boardAsked # NotAsked
  BY DEF ListEvents, ListSlice, ListUsage, ListIncidents, NotAsked, BoardsInv
<1>2. RecordsInv /\ AskedInv /\ ListedInv /\ SlicesInv
  BY <1>1 DEF BoardsInv
<1>3. /\ \A p : InPeriod(kpiRecords, p) \in SUBSET All /\ InPeriod(pilotRecords.usage, p) \in SUBSET All
                 /\ InPeriod(pilotRecords.incidents, p) \in SUBSET All
      /\ \A p : /\ InPeriod(boardAsked.since, p) \subseteq InPeriod(kpiRecords, p)
                /\ InPeriod(boardAsked.incidents, p) \subseteq InPeriod(pilotRecords.incidents, p)
                /\ InPeriod(pilotRecords.incidents, p) \subseteq pilotRecords.incidents
  BY <1>2 DEF RecordsInv, AskedInv, InPeriod
<1>4. listed \in Seq(SUBSET All)
  BY <1>2 DEF ListedInv
<1> HIDE DEF All
<1>5. CASE ListEvents
  <2> DEFINE found == InPeriod(kpiRecords, boardAsked.period)
  <2>1. ListsNext(found) /\ listed = <<>>
    BY <1>5 DEF ListEvents
  <2>2. /\ listed' = Append(listed, found)
        /\ UNCHANGED <<kpiRecords, pilotRecords, boardAsked, slicePeriods, board>>
    BY <2>1 DEF ListsNext
  <2>3. listed' \in Seq(SUBSET All) /\ Len(listed') = 1 /\ listed'[1] = found
    BY <1>3, <1>4, <2>1, <2>2, OneOfThem
  <2>4. ListedInv'
    BY <1>3, <2>2, <2>3 DEF ListedInv, All
  <2>5. SlicesInv'
    BY <1>2, <2>1, <2>2 DEF SlicesInv
  <2> QED
    BY <1>1, <2>1, <2>4, <2>5, ListingAdded
<1>6. CASE ListSlice
  <2> DEFINE found == InPeriod(kpiRecords, slicePeriods[Len(listed)])
  <2>1. ListsNext(found) /\ boardAsked.kind = "dashboard" /\ slicePeriods # <<>>
    BY <1>6 DEF ListSlice
  <2>2. /\ listed' = Append(listed, found)
        /\ UNCHANGED <<kpiRecords, pilotRecords, boardAsked, slicePeriods, board>>
    BY <2>1 DEF ListsNext
  <2>3. Len(listed) >= 1 /\ slicePeriods[1] = boardAsked.period
    BY <1>2, <2>1 DEF SlicesInv, ChosenWell
  <2>4. /\ listed' \in Seq(SUBSET All) /\ Len(listed') = Len(listed) + 1 /\ listed # <<>>
        /\ \A i \in 1..Len(listed) : listed'[i] = listed[i]
        /\ listed'[Len(listed) + 1] = found /\ Len(listed) \in Nat
    BY <1>3, <1>4, <2>2, <2>3, OneOfThem
  <2>5. listed'[1] = listed[1]
    BY <2>3, <2>4
  <2>6. ListedInv'
    BY <1>2, <2>1, <2>2, <2>4, <2>5 DEF ListedInv, All
  <2>7. listed'[1] \subseteq listed'[2] /\ listed'[2] \subseteq InPeriod(kpiRecords, boardAsked.period)
    <3>1. CASE Len(listed) = 1
      BY <3>1, <1>2, <2>3, <2>4, <2>5 DEF ListedInv
    <3>2. CASE Len(listed) >= 2
      <4>1. listed'[2] = listed[2]
        BY <3>2, <2>4
      <4> QED
        BY <3>2, <4>1, <1>2, <2>1, <2>5 DEF SlicesInv
    <3>3. Len(listed) = 1 \/ Len(listed) >= 2
      <4>1. \A n \in Nat : n >= 1 => n = 1 \/ n >= 2
        OBVIOUS
      <4> QED
        BY ONLY <4>1, <2>3, <2>4
    <3> QED
      BY <3>1, <3>2, <3>3
  <2>8. SlicesInv'
    BY <1>2, <2>1, <2>2, <2>3, <2>4, <2>7 DEF SlicesInv
  <2> QED
    BY <1>1, <2>1, <2>6, <2>8, ListingAdded
<1>7. CASE ListUsage \/ ListIncidents
  <2> PICK found \in {InPeriod(pilotRecords.usage, boardAsked.period),
                      InPeriod(pilotRecords.incidents, boardAsked.period)} :
           /\ ListsNext(found) /\ boardAsked.kind = "report" /\ Len(listed) \in {1, 2}
           /\ Len(listed) = 2 => found = InPeriod(pilotRecords.incidents, boardAsked.period)
    BY <1>7 DEF ListUsage, ListIncidents
  <2>2. /\ listed' = Append(listed, found)
        /\ UNCHANGED <<kpiRecords, pilotRecords, boardAsked, slicePeriods, board>>
    BY DEF ListsNext
  <2>3. slicePeriods = <<>>
    BY <1>2 DEF SlicesInv
  <2>4. /\ listed' \in Seq(SUBSET All) /\ Len(listed') = Len(listed) + 1 /\ listed # <<>>
        /\ \A i \in 1..Len(listed) : listed'[i] = listed[i]
        /\ listed'[Len(listed) + 1] = found /\ Len(listed) \in Nat
    BY <1>3, <1>4, <2>2, OneOfThem
  <2>5. listed'[1] = listed[1]
    BY <2>4
  <2>6. Len(listed') >= 3 => listed'[3] = InPeriod(pilotRecords.incidents, boardAsked.period)
    BY <2>4
  <2>7. ListedInv'
    BY <1>2, <1>3, <2>2, <2>4, <2>5, <2>6 DEF ListedInv, All
  <2>8. SlicesInv'
    BY <2>2, <2>3 DEF SlicesInv
  <2> QED
    BY <1>1, <2>7, <2>8, ListingAdded
<1> QED
  BY <1>5, <1>6, <1>7

LEMMA ChooseStep ==
    ASSUME BoardsInv, ChoosePeriods
    PROVE  BoardsInv'
<1>1. boardAsked # NotAsked /\ boardAsked.kind = "dashboard" /\ Len(listed) = 1
  BY DEF ChoosePeriods, NotAsked
<1>2. RecordsInv /\ AskedInv /\ ListedInv /\ DashboardsAddUp
  BY <1>1 DEF BoardsInv
<1>3. UNCHANGED <<kpiRecords, pilotRecords, boardAsked, listed, board>>
  BY DEF ChoosePeriods
<1>4. RecordsInv' /\ AskedInv' /\ ListedInv' /\ DashboardsAddUp'
  BY <1>2, <1>3 DEF RecordsInv, AskedInv, ListedInv, DashboardsAddUp, SlicesFollowSummary,
         ReportsMissNothing, ShownPeriods, Quiet
<1>5. ChosenWell(slicePeriods', boardAsked.period, {e.period : e \in kpiRecords}, boardAsked.limit)
  <2>1. /\ \A e \in kpiRecords : e.period \in Nat
        /\ IsFiniteSet(kpiRecords) /\ boardAsked.period \in Nat /\ boardAsked.limit \in Nat \ {0}
    BY <1>1, <1>2, KPIAssumption DEF RecordsInv, AskedInv
  <2> QED
    BY <2>1, PeriodsChosenWell DEF ChoosePeriods
<1>6. \A p \in KnownTo(boardAsked.since) : p \in {e.period : e \in kpiRecords}
  BY <1>2 DEF KnownTo, AskedInv
<1>7. ChosenWell(slicePeriods', boardAsked.period, KnownTo(boardAsked.since), boardAsked.limit)
  BY <1>5, <1>6 DEF ChosenWell
<1>8. SlicesInv'
  <2>1. Len(listed') = 1 /\ boardAsked' = boardAsked
    BY <1>1, <1>3
  <2> QED
    BY <1>1, <1>7, <2>1 DEF SlicesInv
<1> QED
  BY <1>1, <1>3, <1>4, <1>8 DEF BoardsInv

\* The metrics of a category are those of its own events.
LEMMA OwnEventsCount ==
    ASSUME NEW events, NEW category \in Categories \cup {"all"},
           NEW k \in DOMAIN KPIDefinitions, category \in {"all", KPIDefinitions[k].category}
    PROVE  OfType(FilterEvents(events, category), KPIDefinitions[k].type) =
               OfType(events, KPIDefinitions[k].type)
BY CategoryOfMetric DEF OfType, FilterEvents

LEMMA SummaryOfOwnEvents ==
    ASSUME NEW events, NEW category \in Categories \cup {"all"}
    PROVE  FilterMetrics(BuildMetrics(FilterEvents(events, category)), category) =
               FilterMetrics(BuildMetrics(events), category)
<1> DEFINE own == FilterEvents(events, category)
           visible == {k \in DOMAIN KPIDefinitions : category \in {"all", KPIDefinitions[k].category}}
<1>1. \A k \in visible : MetricOf(k, own) = MetricOf(k, events)
  BY OwnEventsCount DEF MetricOf
<1>2. \A k \in visible : BuildMetrics(own)[k] = BuildMetrics(events)[k]
  BY <1>1 DEF BuildMetrics
<1>3. \A es : DOMAIN BuildMetrics(es) = DOMAIN KPIDefinitions
  BY DEF BuildMetrics
<1>4. \A es : FilterMetrics(BuildMetrics(es), category) = [k \in visible |-> BuildMetrics(es)[k]]
  BY <1>3 DEF FilterMetrics
<1> HIDE DEF visible
<1>5. [k \in visible |-> BuildMetrics(own)[k]] = [k \in visible |-> BuildMetrics(events)[k]]
  BY <1>2
<1> QED
  BY <1>4, <1>5

\* The categories that are shown count the events that are shown.
LEMMA ShownCategoriesCount ==
    ASSUME NEW events, IsFiniteSet(events), \A e \in events : CategoryOf(e.type) \in Categories,
           NEW category \in Categories \cup {"all"}
    PROVE  CountedIn(FilterCategories(Aggregates(events), category)) =
               Cardinality(FilterEvents(events, category))
<1> DEFINE cats == FilterCategories(Aggregates(events), category)
           D == {c \in Categories : category \in {"all", c}}
<1>1. DOMAIN Aggregates(events) = Categories
      /\ \A c \in Categories : Aggregates(events)[c].event_count = Cardinality(Within(events, {c}))
  <2>1. \A c \in Categories : Within(events, {c}) = {e \in events : CategoryOf(e.type) = c}
    BY DEF Within
  <2> QED
    BY <2>1 DEF Aggregates
<1>2. DOMAIN cats = D /\ \A c \in D : cats[c] = Aggregates(events)[c]
  BY <1>1 DEF FilterCategories
<1>3. IsFiniteSet(D)
  <2>1. Categories \subseteq {"participation", "content", "engagement", "actions"}
    BY DEF Categories, KPIDefinitions, KPI
  <2>2. IsFiniteSet({"participation"} \cup {"content"} \cup {"engagement"} \cup {"actions"})
    <3>1. IsFiniteSet({"participation"})
      BY FS_Singleton
    <3>2. IsFiniteSet({"participation"} \cup {"content"})
      BY <3>1, FS_AddElement
    <3>3. IsFiniteSet({"participation"} \cup {"content"} \cup {"engagement"})
      BY <3>2, FS_AddElement
    <3> QED
      BY <3>3, FS_AddElement
  <2>3. D \in SUBSET ({"participation"} \cup {"content"} \cup {"engagement"} \cup {"actions"})
    BY <2>1
  <2> QED
    BY <2>2, <2>3, FS_Subset
<1>4. \A c \in DOMAIN cats : cats[c].event_count = Cardinality(Within(events, {c}))
  BY <1>1, <1>2
<1>5. Within(events, D) = FilterEvents(events, category)
  BY DEF Within, FilterEvents
<1> HIDE DEF cats, D
<1>6. CountedIn(cats) = Cardinality(Within(events, DOMAIN cats))
  <2>1. IsFiniteSet(DOMAIN cats)
    BY <1>2, <1>3
  <2> QED
    BY <2>1, <1>4, CategoriesAddUp
<1> QED
  BY <1>2, <1>5, <1>6 DEF cats

LEMMA DashboardShown ==
    ASSUME BoardsInv, ShowDashboard
    PROVE  BoardsInv'
<1> DEFINE period == boardAsked.period
           category == boardAsked.category
           n == Len(slicePeriods)
<1>1. boardAsked # NotAsked /\ slicePeriods # <<>>
  BY DEF ShowDashboard, BoardsInv
<1>2. RecordsInv /\ AskedInv /\ ListedInv /\ SlicesInv
  BY <1>1 DEF BoardsInv
<1>3. /\ ChosenWell(slicePeriods, period, KnownTo(boardAsked.since), boardAsked.limit)
      /\ n \in Nat \ {0} /\ DOMAIN slicePeriods = 1..n /\ Len(listed) = n + 1 /\ Len(listed) >= 2
  <2>1. ChosenWell(slicePeriods, period, KnownTo(boardAsked.since), boardAsked.limit)
    BY <1>1, <1>2 DEF SlicesInv
  <2>2. slicePeriods \in Seq(Nat) /\ slicePeriods # <<>>
    BY <2>1 DEF ChosenWell
  <2>3. n \in Nat \ {0} /\ DOMAIN slicePeriods = 1..n
    BY <2>2
  <2>4. Len(listed) = n + 1
    BY DEF ShowDashboard
  <2> QED
    BY <2>1, <2>3, <2>4
<1>4. UNCHANGED <<kpiRecords, pilotRecords, boardAsked, listed, slicePeriods>>
  BY DEF ShowDashboard, ShowsBoard
<1>5. /\ board'.kind = "dashboard"
      /\ board'.summary = Summary(FilterMetrics(BuildMetrics(listed[1]), category))
      /\ board'.categories = FilterCategories(Aggregates(listed[1]), category)
      /\ board'.slices = [i \in 1..n |-> Slice(slicePeriods[i], listed[i + 1], category)]
  BY <1>3 DEF ShowDashboard, ShowsBoard, PeriodSlices
<1>6. /\ listed[1] \subseteq listed[2] /\ listed[2] \subseteq InPeriod(kpiRecords, period)
      /\ InPeriod(boardAsked.since, period) \subseteq listed[1]
      /\ category \in Categories \cup {"all"} /\ slicePeriods[1] = period
  <2>1. listed # <<>>
    BY <1>2, <1>3 DEF ListedInv
  <2> QED
    BY <1>1, <1>2, <1>3, <2>1 DEF SlicesInv, ListedInv, AskedInv, ChosenWell
<1>7. /\ IsFiniteSet(listed[2]) /\ IsFiniteSet(listed[1])
      /\ \A e \in listed[1] : CategoryOf(e.type) \in Categories
  <2>1. listed[1] \in SUBSET kpiRecords /\ listed[2] \in SUBSET kpiRecords /\ IsFiniteSet(kpiRecords)
    BY <1>2, <1>6 DEF InPeriod, RecordsInv
  <2> QED
    BY <1>2, <2>1, FS_Subset, CategoryIsKnown DEF RecordsInv
<1> DEFINE own(i) == FilterEvents(listed[i], category)
<1>8. /\ board'.slices[1].period = period
      /\ board'.slices[1].event_count = Cardinality(own(2))
      /\ board'.slices[1].summary = Summary(FilterMetrics(BuildMetrics(listed[2]), category))
  <2>1. board'.slices[1] = Slice(period, listed[2], category)
    <3>1. 1 \in 1..n
      BY <1>3
    <3> QED
      BY <3>1, <1>5, <1>6
  <2> QED
    BY <2>1, <1>6, SummaryOfOwnEvents DEF Slice
<1>9. CountedIn(board'.categories) = Cardinality(own(1))
  BY <1>5, <1>6, <1>7, ShownCategoriesCount
<1>10. Cardinality(own(2)) >= Cardinality(own(1))
  <2>1. own(1) \in SUBSET own(2) /\ own(2) \in SUBSET listed[2]
    BY <1>6 DEF FilterEvents
  <2>2. IsFiniteSet(own(2))
    BY <1>7, <2>1, FS_Subset
  <2>3. Cardinality(own(1)) <= Cardinality(own(2)) /\ Cardinality(own(1)) \in Nat /\ Cardinality(own(2)) \in Nat
    BY <2>1, <2>2, FS_Subset, FS_CardinalityType
  <2> QED
    BY <2>3
<1>11. Quiet(period) => listed[2] = listed[1]
  BY <1>6 DEF Quiet
<1>12. \A i \in 1..n : board'.slices[i].period = slicePeriods[i]
  BY <1>5 DEF Slice
<1>13. DOMAIN board'.slices = 1..n /\ Len(board'.slices) = n
  BY <1>3, <1>5
<1> DEFINE visible == {board'.slices[i].period : i \in DOMAIN board'.slices}
<1>14. visible = {slicePeriods[i] : i \in 1..n}
  BY <1>12, <1>13
<1>15. Cardinality(visible) = n
  <2> DEFINE f == [i \in 1..n |-> slicePeriods[i]]
  <2>1. f \in Surjection(1..n, visible)
    BY <1>14 DEF Surjection
  <2>2. f \in Injection(1..n, visible)
    BY <2>1, <1>3 DEF Surjection, Injection, IsInjective, ChosenWell
  <2>3. IsFiniteSet(1..n) /\ Cardinality(1..n) = n
    BY <1>3, FS_Interval
  <2> HIDE DEF f, visible
  <2> QED
    BY <2>1, <2>2, <2>3, FS_Surjection
<1>16. \A p \in KnownTo(boardAsked.since) \ visible :
          n = boardAsked.limit /\ \A i \in 2..n : board'.slices[i].period > p
  <2> TAKE p \in KnownTo(boardAsked.since) \ visible
  <2>1. ~\E i \in 1..n : slicePeriods[i] = p
    BY <1>14
  <2>2. n = boardAsked.limit /\ \A i \in 2..n : slicePeriods[i] > p
    BY <2>1, <1>3 DEF ChosenWell
  <2>3. \A i \in 2..n : i \in 1..n
    BY <1>3
  <2> QED
    BY <2>2, <2>3, <1>12
<1> HIDE DEF own
<1>17. SlicesFollowSummary'
  <2>1. CountedIn(board.categories)' = Cardinality(own(1))
    BY <1>9
  <2>2. /\ board'.slices[1].period = boardAsked'.period
        /\ board'.slices[1].event_count >= CountedIn(board.categories)'
    BY <1>4, <1>8, <1>10, <2>1
  <2>3. Quiet(boardAsked.period)' => /\ board'.slices[1].event_count = CountedIn(board.categories)'
                                     /\ board'.slices[1].summary = board'.summary
    <3>1. Quiet(boardAsked.period)' => Quiet(period)
      BY <1>4 DEF Quiet
    <3> QED
      BY <3>1, <1>5, <1>8, <1>11, <2>1 DEF own
  <2>4. ShownPeriods' = visible
    BY DEF ShownPeriods
  <2>5. \A p \in {e.period : e \in boardAsked'.since} \ visible :
            n = boardAsked'.limit /\ \A i \in 2..n : board'.slices[i].period > p
    BY <1>4, <1>16 DEF KnownTo
  <2> HIDE DEF visible, n
  <2> QED
    BY <2>2, <2>3, <2>4, <2>5, <1>13, <1>15 DEF SlicesFollowSummary
<1>18. ReportsMissNothing'
  BY <1>5 DEF ReportsMissNothing
<1>19. RecordsInv' /\ AskedInv' /\ ListedInv' /\ SlicesInv'
  BY <1>2, <1>4 DEF RecordsInv, AskedInv, ListedInv, SlicesInv
<1> QED
  BY <1>1, <1>4, <1>17, <1>18, <1>19 DEF BoardsInv, DashboardsAddUp

LEMMA ReportShown ==
    ASSUME BoardsInv, ShowReport
    PROVE  BoardsInv'
<1>1. boardAsked # NotAsked /\ boardAsked.kind = "report" /\ Len(listed) = 3
  BY DEF ShowReport, NotAsked
<1>2. RecordsInv /\ AskedInv /\ ListedInv /\ SlicesInv
  BY <1>1 DEF BoardsInv
<1>3. UNCHANGED <<kpiRecords, pilotRecords, boardAsked, listed, slicePeriods>>
  BY DEF ShowReport, ShowsBoard
<1> DEFINE events == listed[1]
           incidents == listed[3]
<1>4. /\ board'.kind = "report" /\ board'.metrics = BuildMetrics(events)
      /\ board'.categories = Aggregates(events)
      /\ board'.status = IF NeedsAttention(Summary(BuildMetrics(events)), IncidentSummary(incidents))
                         THEN "needs_council_attention" ELSE "ready_for_council_review"
  BY DEF ShowReport, ShowsBoard, EngineMetrics, EngineSummary, EngineAggregates
<1>5. /\ InPeriod(boardAsked.incidents, boardAsked.period) \subseteq incidents
      /\ IsFiniteSet(incidents)
  <2>1. /\ InPeriod(boardAsked.incidents, boardAsked.period) \subseteq incidents
        /\ incidents \in SUBSET pilotRecords.incidents
    BY <1>1, <1>2 DEF ListedInv
  <2> QED
    BY <1>2, <2>1, FS_Subset DEF RecordsInv
<1>6. ASSUME NEW i \in InPeriod(boardAsked.incidents, boardAsked.period), i.status = "open"
      PROVE  board'.status = "needs_council_attention"
  <2> DEFINE open == {x \in incidents : x.status = "open"}
  <2>1. i \in open /\ IsFiniteSet(open)
    BY <1>5, <1>6, FS_Subset
  <2>2. Cardinality(open) \in Nat /\ Cardinality(open) # 0
    <3> HIDE DEF open
    <3> QED
      BY <2>1, FS_EmptySet, FS_CardinalityType
  <2>3. IncidentSummary(incidents).open = Cardinality(open)
    BY DEF IncidentSummary
  <2> HIDE DEF open
  <2>4. NeedsAttention(Summary(BuildMetrics(events)), IncidentSummary(incidents))
    BY <2>2, <2>3 DEF NeedsAttention
  <2> QED
    BY <1>4, <2>4
<1>7. ASSUME NEW k \in DOMAIN KPIDefinitions \ {"active_members", "avg_reading_minutes"}
      PROVE  LET totals == Aggregates(events)[KPIDefinitions[k].category].totals
             IN  BuildMetrics(events)[k].value =
                     IF KPIDefinitions[k].type \in DOMAIN totals
                     THEN totals[KPIDefinitions[k].type] ELSE 0
  <2> DEFINE type == KPIDefinitions[k].type
             category == KPIDefinitions[k].category
             own == {e \in events : CategoryOf(e.type) = category}
             totals == Aggregates(events)[category].totals
  <2>1. BuildMetrics(events)[k].value = SumValues(OfType(events, type))
    BY DEF BuildMetrics, MetricOf
  <2>2. totals = [t \in {e.type : e \in own} |-> SumValues(OfType(own, t))]
    BY DEF Aggregates, Categories
  <2>3. OfType(own, type) = OfType(events, type)
    BY CategoryOfMetric DEF OfType
  <2>4. CASE type \in {e.type : e \in own}
    BY <2>1, <2>2, <2>3, <2>4
  <2>5. CASE type \notin {e.type : e \in own}
    <3>1. OfType(own, type) = {}
      BY <2>5 DEF OfType
    <3> QED
      BY <3>1, <2>1, <2>2, <2>3, <2>5, NoValues
  <2> QED
    BY <2>4, <2>5
<1>8. DOMAIN BuildMetrics(events) = DOMAIN KPIDefinitions
  BY DEF BuildMetrics
<1>9. ReportsMissNothing'
  <2>1. boardAsked' = boardAsked
    BY <1>3
  <2> HIDE DEF events
  <2> QED
    BY <2>1, <1>4, <1>6, <1>7, <1>8 DEF ReportsMissNothing
<1>10. SlicesFollowSummary'
  BY <1>4 DEF SlicesFollowSummary
<1>11. RecordsInv' /\ AskedInv' /\ ListedInv' /\ SlicesInv'
  BY <1>2, <1>3 DEF RecordsInv, AskedInv, ListedInv, SlicesInv
<1> QED
  BY <1>1, <1>3, <1>9, <1>10, <1>11 DEF BoardsInv, DashboardsAddUp

LEMMA BoardsStep == BoardsInv /\ [BoardsNext]_boardVars => BoardsInv'
<1> SUFFICES ASSUME BoardsInv, [BoardsNext]_boardVars
             PROVE  BoardsInv'
  OBVIOUS
<1>1. CASE UNCHANGED boardVars
  BY <1>1 DEF boardVars, BoardsInv, RecordsInv, AskedInv, ListedInv, SlicesInv, DashboardsAddUp,
         SlicesFollowSummary, ReportsMissNothing, ShownPeriods, Quiet
<1> QED
  BY <1>1, RecordsStep, AskStep, ListStep, ChooseStep, DashboardShown, ReportShown DEF BoardsNext

\* However many records are added while a dashboard or a report lists them one
\* listing after another, its figures agree as far as they stem from the same
\* records, and what was recorded when it was asked for is not missed
\* (_build_analytics_dashboard_overview, get_pilot_council_report).
THEOREM BoardsKept == BoardsSpec => []DashboardsAddUp
<1>1. BoardsInv => DashboardsAddUp
  BY DEF BoardsInv
<1> QED
  BY <1>1, BoardsInitially, BoardsStep, PTL DEF BoardsSpec

\* The figures that are shown add up to what was recorded: those of the wallet and
\* those of the dashboards and reports, each while records are added.
THEOREM FiguresKept == Spec => []FiguresAddUp
<1> DEFINE Inv == StatementAddsUp /\ BoardsInv
<1>1. Init => Inv
  BY WalletInitially, BoardsInitially DEF Init
<1>2. Inv /\ [Next]_vars => Inv'
  <2> SUFFICES ASSUME Inv, [Next]_vars PROVE Inv'
    OBVIOUS
  <2>1. [WalletNext]_walletVars
    BY Zenon DEF Next, Only, vars
  <2>2. [BoardsNext]_boardVars
    BY Zenon DEF Next, Only, vars
  <2> QED
    BY <2>1, <2>2, WalletStep, BoardsStep
<1>3. Inv => FiguresAddUp
  BY DEF FiguresAddUp, BoardsInv
<1> QED
  BY <1>1, <1>2, <1>3, PTL DEF Spec
=============================================================================
