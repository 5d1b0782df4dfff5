---------------------------- MODULE PolicyVersions ----------------------------
(***************************************************************************)
(* The policy manager (services/policy-manager). The council updates       *)
(* policies on the event loop; applying policies is a plain function and   *)
(* runs on a worker thread, which looks up one key after another while the *)
(* council goes on. A value is stored as it comes: whether it can be       *)
(* applied turns out when it is.                                           *)
(***************************************************************************)
EXTENDS Integers, Sequences

CONSTANTS
    PolicyKeys,        \* keys that may be applied, in a sequence of the request
    PolicyValues,      \* values: [kind, operator, threshold, min, max, expected, on_violation]
    DefaultValues,     \* DEFAULT_POLICY_VALUES: a value for some of the keys
    FactValues,        \* the observed fact, the same for each policy's target
    Appliers,          \* worker threads that apply policies
    MaxVersion         \* bound: the newest version of a policy

ASSUME DefaultsAssumption ==
    /\ DOMAIN DefaultValues \subseteq PolicyKeys
    /\ \A key \in DOMAIN DefaultValues : DefaultValues[key] \in PolicyValues
    /\ MaxVersion \in Nat

VARIABLES
    history,        \* versions of each key that were saved, in order
    policyEvents,   \* policy.updated: key and version
    applying        \* what each worker thread is doing

policyVars == <<history, policyEvents, applying>>

Idle == [at |-> "idle"]

PoliciesInit ==
    /\ history = [key \in PolicyKeys |-> <<>>]
    /\ policyEvents = {}
    /\ applying = [a \in Appliers |-> Idle]

\* _default_policy_record is version 1; the first version saved follows it.
FirstSaved(key) == IF key \in DOMAIN DefaultValues THEN 2 ELSE 1
VersionOf(key) == FirstSaved(key) + Len(history[key]) - 1
IsKnown(key) == VersionOf(key) > 0
ValueOf(key, version) ==
    IF version < FirstSaved(key) THEN DefaultValues[key]
    ELSE history[key][version - FirstSaved(key) + 1]

\* update_policy: audit, save, announce. An envelope with an event id that is no
\* token is refused when the version is saved already: nothing announces it.
UpdatePolicy(key, value, accepted) ==
    /\ VersionOf(key) < MaxVersion
    /\ history' = [history EXCEPT ![key] = Append(@, value)]
    /\ policyEvents' = policyEvents \cup
           (IF accepted THEN {[key |-> key, version |-> VersionOf(key) + 1]} ELSE {})
    /\ UNCHANGED applying

Violates(value, observed) ==
    \/ value.kind = "flag" /\ observed # value.expected
    \/ /\ value.kind = "threshold"
       /\ \/ value.operator = "lte" /\ observed > value.threshold
          \/ value.operator = "lt" /\ observed >= value.threshold
          \/ value.operator = "gte" /\ observed < value.threshold
          \/ value.operator = "gt" /\ observed <= value.threshold
          \/ value.operator = "between" /\ ~(value.min <= observed /\ observed <= value.max)

\* PolicyManagerError: an operator that is unknown (a field that is missing has the same
\* effect), or a decision on violation that is neither, which only a violation shows.
Unreadable(value, observed) ==
    \/ value.kind = "threshold" /\ value.operator \notin {"lte", "lt", "gte", "gt", "between"}
    \/ Violates(value, observed) /\ value.on_violation \notin {"allow", "escalate"}

\* _policy_reasons: there is one reason per policy that is violated.
GivesReason(value, observed) ==
    Violates(value, observed) /\ value.on_violation = "escalate"

\* apply_policies begins with the keys in the order of the request.
BeginApply(a, policy_keys, fact) ==
    /\ applying[a].at = "idle"
    /\ policy_keys # <<>>
    /\ applying' = [applying EXCEPT ![a] =
           [at |-> "applying", policy_keys |-> policy_keys, turn |-> 1, fact |-> fact,
            versions |-> [key \in {} |-> 0], reasons |-> {}]]
    /\ UNCHANGED <<history, policyEvents>>

\* policy_versions is a dict: a key that is looked up again has its version replaced.
Noted(versions, key, version) ==
    [k \in DOMAIN versions \cup {key} |-> IF k = key THEN version ELSE versions[k]]

\* One turn of the loop: the version that is named and the one the reasons are from.
LookUpOf(a, named, read) ==
    /\ applying[a].at = "applying"
    /\ applying[a].turn <= Len(applying[a].policy_keys)
    /\ LET key == applying[a].policy_keys[applying[a].turn]
           value == ValueOf(key, read[key])
       IN  /\ IsKnown(key) /\ ~Unreadable(value, applying[a].fact)
           /\ applying' = [applying EXCEPT
              ![a].turn = @ + 1,
              ![a].versions = Noted(@, key, named[key]),
              ![a].reasons = @ \cup IF GivesReason(value, applying[a].fact) THEN {key} ELSE {}]
    /\ UNCHANGED <<history, policyEvents>>

LatestVersions == [key \in PolicyKeys |-> VersionOf(key)]

\* Fault: the number is looked up first, and the value once more for the reasons:
\* an update may come in between.
LookUp_Twice(a) ==
    \E named \in {LatestVersions, [key \in PolicyKeys |-> IF LatestVersions[key] > 1 THEN LatestVersions[key] - 1
                                                    ELSE LatestVersions[key]]} :
       LookUpOf(a, named, LatestVersions)

\* The policy is looked up once, for number and reasons.
LookUp(a) == LookUpOf(a, LatestVersions, LatestVersions)

\* PolicyNotFoundError or PolicyManagerError: the application has no result.
LookUpFails(a) ==
    /\ applying[a].at = "applying"
    /\ applying[a].turn <= Len(applying[a].policy_keys)
    /\ LET key == applying[a].policy_keys[applying[a].turn]
       IN  IsKnown(key) => Unreadable(ValueOf(key, VersionOf(key)), applying[a].fact)
    /\ applying' = [applying EXCEPT ![a] = Idle]
    /\ UNCHANGED <<history, policyEvents>>

Conclude(a) ==
    /\ applying[a].at = "applying"
    /\ applying[a].turn > Len(applying[a].policy_keys)
    /\ applying' = [applying EXCEPT ![a] = [
           at |-> "applied", policy_keys |-> @.policy_keys, fact |-> @.fact,
           versions |-> @.versions, reasons |-> @.reasons,
           decision |-> IF @.reasons = {} THEN "allow" ELSE "escalate"]]
    /\ UNCHANGED <<history, policyEvents>>

TakeResult(a) ==
    /\ applying[a].at = "applied"
    /\ applying' = [applying EXCEPT ![a] = Idle]
    /\ UNCHANGED <<history, policyEvents>>

KeyOrders == {<<>>} \cup {<<k>> : k \in PolicyKeys} \cup {<<k, l>> : k, l \in PolicyKeys}

PoliciesNext ==
    \/ \E key \in PolicyKeys, value \in PolicyValues, accepted \in BOOLEAN :
          UpdatePolicy(key, value, accepted)
    \/ \E a \in Appliers :
          \/ \E keys \in KeyOrders, fact \in FactValues : BeginApply(a, keys, fact)
          \/ LookUp(a) \/ LookUpFails(a) \/ Conclude(a) \/ TakeResult(a)

PoliciesSpec == PoliciesInit /\ [][PoliciesNext]_policyVars

----------------------------------------------------------------------------
PoliciesTypeOK ==
    /\ history \in [PolicyKeys -> Seq(PolicyValues)]
    /\ policyEvents \subseteq [key : PolicyKeys, version : 1..MaxVersion]
    /\ \A a \in Appliers : applying[a].at \in {"idle", "applying", "applied"}

\* What an application says of the versions it names, where the keys before turn are
\* looked up. A violated version that is named is never passed over. A reason comes from
\* the version that is named, or, where the request repeats the key, from one before it.
NamesItsGrounds(entry, turn) ==
    /\ DOMAIN entry.versions = {entry.policy_keys[i] : i \in 1 .. turn - 1}
    /\ \A key \in DOMAIN entry.versions : entry.versions[key] \in 1 .. VersionOf(key)
    /\ \A key \in DOMAIN entry.versions :
          GivesReason(ValueOf(key, entry.versions[key]), entry.fact) => entry.reasons # {}
    /\ entry.reasons # {} => \E key \in DOMAIN entry.versions :
          \E version \in 1 .. entry.versions[key] :
             /\ GivesReason(ValueOf(key, version), entry.fact)
             /\ \/ version = entry.versions[key]
                \/ \E i, j \in 1 .. turn - 1 :
                      i < j /\ entry.policy_keys[i] = key /\ entry.policy_keys[j] = key

\* However the council's updates fall between the look-ups of an application: it allows
\* only what none of the versions it names forbids, and escalates because of a version
\* that it names (or, where a key is repeated in the request, of an earlier version of
\* such a key); these stay in the history, and what is announced can be read
\* (apply_policies, update_policy, save_policy).
DecisionsAreExplained ==
    /\ PoliciesTypeOK
    /\ \A a \in Appliers : applying[a].at = "applied" =>
          /\ applying[a].decision = IF applying[a].reasons = {} THEN "allow" ELSE "escalate"
          /\ NamesItsGrounds(applying[a], Len(applying[a].policy_keys) + 1)
    /\ \A e \in policyEvents : e.version <= VersionOf(e.key)
=============================================================================
