-------------------------- MODULE TenantMarketplace --------------------------
(***************************************************************************)
(* The catalogue of tenants and the way into it                            *)
(* (libs/shared/tenant_marketplace.py): profiles published by operators,   *)
(* applications submitted by cooperatives, and the decisions of moderators,*)
(* one of which makes a tenant with a profile and a resource plan. Every   *)
(* operation holds the lock of the marketplace.                            *)
(***************************************************************************)
EXTENDS Naturals, Sequences

CONSTANTS
    Tenants, Slugs, Applications,
    ResourcePlans,      \* plans an application may request
    ProfileStatuses,    \* of TenantMarketplaceProfileStatus, those operators set
    MaxDecisions        \* bound: decisions taken on one application

NoProfile     == [slug |-> "none", status |-> "none"]
NoApplication == [slug |-> "none", status |-> "none"]
Nobody        == "nobody"

ASSUME MarketAssumption == Nobody \notin Tenants /\ "none" \notin ProfileStatuses

VARIABLES
    profiles,        \* _profiles
    tenantOfSlug,    \* _profiles_by_slug
    applications,    \* _applications, with their moderation history
    openedAs,        \* _applications_by_slug
    configured       \* plans handed to the resource manager, per tenant

marketVars == <<profiles, tenantOfSlug, applications, openedAs, configured>>

MarketInit ==
    /\ profiles = [t \in Tenants |-> NoProfile]
    /\ tenantOfSlug = [s \in Slugs |-> Nobody]
    /\ applications = [a \in Applications |-> NoApplication]
    /\ openedAs = [s \in Slugs |-> Nobody]
    /\ configured = [t \in Tenants |-> "default"]

\* Fault: only the tenant is looked at, whose slug it was.
SlugFreeForProfile_Any(s, t) == profiles[t] = NoProfile \/ tenantOfSlug[s] \in {Nobody, t}

SlugFreeForProfile(s, t) == tenantOfSlug[s] \in {Nobody, t}

\* An operator publishes or changes a profile. The old slug of a renamed
\* profile stays registered: links to it go on leading to the tenant.
PublishProfile(t, s, status) ==
    /\ SlugFreeForProfile(s, t)
    /\ profiles' = [profiles EXCEPT ![t] = [slug |-> s, status |-> status]]
    /\ tenantOfSlug' = [tenantOfSlug EXCEPT ![s] = t]
    /\ UNCHANGED <<applications, openedAs, configured>>

SlugFreeForApplication(s) ==
    /\ tenantOfSlug[s] = Nobody
    /\ openedAs[s] # Nobody => applications[openedAs[s]].status = "rejected"

Submit(a, s, plan, ready) ==
    /\ SlugFreeForApplication(s)
    /\ applications[a] = NoApplication
    /\ applications' = [applications EXCEPT ![a] =
           [slug |-> s, status |-> "submitted", plan |-> plan, ready |-> ready,
            history |-> <<>>, tenant |-> Nobody]]
    /\ openedAs' = [openedAs EXCEPT ![s] = a]
    /\ UNCHANGED <<profiles, tenantOfSlug, configured>>

Decide(a, status) ==
    [applications[a] EXCEPT !.status = status, !.history = Append(@, status)]

MayDecide(a) ==
    /\ applications[a] # NoApplication
    /\ Len(applications[a].history) < MaxDecisions

\* Approved: only while submitted and with its checklist complete.
Approve(a, t) ==
    LET application == applications[a] IN
    /\ MayDecide(a)
    /\ application.status = "submitted"
    /\ application.ready
    /\ SlugFreeForProfile(application.slug, t)
    /\ profiles[t] = NoProfile
    /\ applications' = [applications EXCEPT ![a] = [Decide(a, "provisioned") EXCEPT !.tenant = t]]
    /\ profiles' = [profiles EXCEPT ![t] = [slug |-> application.slug, status |-> "published"]]
    /\ tenantOfSlug' = [tenantOfSlug EXCEPT ![application.slug] = t]
    /\ configured' = [configured EXCEPT ![t] = application.plan]
    /\ UNCHANGED openedAs

\* Neither of these two looks at the status the application has.
RequestChanges(a) ==
    /\ MayDecide(a)
    /\ applications' = [applications EXCEPT ![a] = Decide(a, "needs_changes")]
    /\ UNCHANGED <<profiles, tenantOfSlug, openedAs, configured>>

\* Rejecting frees the slug, whichever application holds it now.
Reject(a) ==
    /\ MayDecide(a)
    /\ applications' = [applications EXCEPT ![a] = Decide(a, "rejected")]
    /\ openedAs' = [openedAs EXCEPT ![applications[a].slug] = Nobody]
    /\ UNCHANGED <<profiles, tenantOfSlug, configured>>

MarketNext ==
    \/ \E t \in Tenants, s \in Slugs, status \in ProfileStatuses : PublishProfile(t, s, status)
    \/ \E a \in Applications, s \in Slugs, plan \in ResourcePlans, ready \in BOOLEAN :
           Submit(a, s, plan, ready)
    \/ \E a \in Applications, t \in Tenants : Approve(a, t)
    \/ \E a \in Applications : RequestChanges(a) \/ Reject(a)

MarketSpec == MarketInit /\ [][MarketNext]_marketVars

----------------------------------------------------------------------------
ApplicationStatuses == {"submitted", "needs_changes", "rejected", "provisioned"}

Profiles == [slug : Slugs, status : ProfileStatuses \cup {"published"}]

Submissions == [slug : Slugs, status : ApplicationStatuses, plan : ResourcePlans, ready : BOOLEAN,
                history : Seq(ApplicationStatuses), tenant : Tenants \cup {Nobody}]

MarketTypeOK ==
    /\ profiles \in [Tenants -> {NoProfile} \cup Profiles]
    /\ tenantOfSlug \in [Slugs -> Tenants \cup {Nobody}]
    /\ applications \in [Applications -> {NoApplication} \cup Submissions]
    /\ openedAs \in [Slugs -> Applications \cup {Nobody}]
    /\ configured \in [Tenants -> ResourcePlans \cup {"default"}]

\* Whatever order operators publish and moderators approve in, a slug leads to
\* the tenant whose profile bears it, so no two tenants share one; and a tenant
\* made from an application keeps the plan that application asked for, even when
\* the application is decided on again (publish_profile, _approve_application).
SlugLeadsToItsTenant ==
    /\ MarketTypeOK
    /\ \A t \in Tenants : profiles[t] # NoProfile => tenantOfSlug[profiles[t].slug] = t
    /\ \A a \in Applications :
           applications[a] # NoApplication /\ applications[a].tenant # Nobody =>
               configured[applications[a].tenant] = applications[a].plan
=============================================================================
