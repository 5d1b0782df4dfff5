-------------------------- MODULE NotificationGateway --------------------------
(***************************************************************************)
(* The notification gateway and its e-mail outbox, for one event type of a *)
(* tenant. A dispatch takes its recipients one after another and delivers  *)
(* channel by channel; it waits at every e-mail that a provider sends,     *)
(* while members change their preferences and routes are switched.         *)
(***************************************************************************)
EXTENDS Integers, Sequences, FiniteSets, SequencesExt, TLC

CONSTANTS
    Dispatches,        \* POST /notify requests, each served once
    Recipients,        \* members that may be notified
    NotifyRequests,    \* [recipients, channels ({}: none given), template_key, template]
    SavedEarlier,      \* what each member has saved before
    PreferenceUpdates, \* some of enabled, subscribed, channels and override
    TemplateKeys,      \* template keys; a template is [channels, renders]
    EmailRoutes,       \* provider routes, in the order of priority and key
    RouteStatuses,     \* statuses a route may be switched to
    RoutesWithAdapter, \* routes whose provider has an adapter
    HasAddress,        \* recipients with an e-mail address in the payload
    MaxUpdates         \* bound: updates of preferences and routes

ASSUME RecipientsAssumption ==
    /\ IsFiniteSet(Recipients)
    /\ \A request \in NotifyRequests : request.recipients \in Seq(Recipients)

NoTemplate == [channels |-> {}, renders |-> TRUE, exists |-> FALSE]
Defaults == [enabled |-> TRUE, subscribed |-> TRUE, channels |-> {"telegram"}, override |-> "none"]

\* An update changes what it names and keeps the rest.
Coalesce(update, existing) == update @@ existing

VARIABLES
    preferences,      \* saved preferences by recipient; the defaults are not saved
    templates,        \* _templates of the repository
    routeStatus,      \* status of each provider route
    dispatching,      \* what each request is doing
    deliveries,       \* delivery records: dispatch, recipient, channel, status
    outbox,           \* e-mail messages, in order: recipient, status, attempts
    handedOver,       \* messages the provider took, in order
    dispatchEvents,   \* notification.dispatched: dispatch and delivered pairs
    preferenceEvents, \* updates of preferences, announced; and of routes
    turnsAtUpdate     \* dispatches that were at the recipient at its last update

notifyVars == <<preferences, templates, routeStatus, dispatching, deliveries, outbox,
                handedOver, dispatchEvents, preferenceEvents, turnsAtUpdate>>

NotifyInit ==
    /\ preferences = [r \in Recipients |-> Coalesce(SavedEarlier[r], Defaults)]
    /\ templates = [k \in TemplateKeys |-> NoTemplate]
    /\ routeStatus = [i \in DOMAIN EmailRoutes |-> "active"]
    /\ dispatching = [d \in Dispatches |-> [at |-> "idle"]]
    /\ deliveries = {}
    /\ outbox = <<>>
    /\ handedOver = <<>>
    /\ dispatchEvents = {}
    /\ preferenceEvents = 0
    /\ turnsAtUpdate = [r \in Recipients |-> {}]

AtRecipient(d, r) ==
    /\ dispatching[d].at \in {"delivering", "sending"}
    /\ dispatching[d].recipient = r

\* update_preferences: saved, audited and announced without waiting.
UpdatePreferences(r, update) ==
    /\ preferenceEvents < MaxUpdates
    /\ preferences' = [preferences EXCEPT ![r] = Coalesce(update, @)]
    /\ turnsAtUpdate' = [turnsAtUpdate EXCEPT ![r] = {d \in Dispatches : AtRecipient(d, r)}]
    /\ preferenceEvents' = preferenceEvents + 1
    /\ UNCHANGED <<templates, routeStatus, dispatching, deliveries, outbox, handedOver, dispatchEvents>>

\* upsert_route with another status.
SwitchRoute(i, status) ==
    /\ preferenceEvents < MaxUpdates /\ routeStatus[i] # status
    /\ routeStatus' = [routeStatus EXCEPT ![i] = status]
    /\ preferenceEvents' = preferenceEvents + 1
    /\ UNCHANGED <<preferences, templates, dispatching, deliveries, outbox, handedOver,
                   dispatchEvents, turnsAtUpdate>>

Stored == {k \in TemplateKeys : templates[k].exists}
DefaultTemplate == [channels |-> Defaults.channels, renders |-> TRUE, exists |-> TRUE]

\* _resolve_base_template: the template given, the one named, one for the event
\* (the latest, by a time that clients choose), or the default.
BaseTemplates(request) ==
    IF request.template # NoTemplate THEN {request.template}
    ELSE IF request.template_key \in Stored THEN {templates[request.template_key]}
    ELSE IF Stored # {} THEN {templates[k] : k \in Stored} ELSE {DefaultTemplate}

\* A request names each recipient once, at its first place: the one way to do so.
Named(recipients) ==
    {named \in [1 .. Cardinality(ToSet(recipients)) -> ToSet(recipients)] :
        \A i, j \in DOMAIN named : i < j =>
            \E k \in DOMAIN recipients :
                recipients[k] = named[i] /\ \A l \in 1..k : recipients[l] # named[j]}

BeginDispatch(d, request) ==
    /\ dispatching[d].at = "idle"
    /\ templates' = IF request.template = NoTemplate THEN templates
                    ELSE [templates EXCEPT ![request.template_key] = request.template]
    /\ \E base \in BaseTemplates(request), named \in Named(request.recipients) :
          dispatching' = [dispatching EXCEPT ![d] =
              [at |-> "next", request |-> request, base |-> base, left |-> named,
               known |-> preferences]]
    /\ UNCHANGED <<preferences, routeStatus, deliveries, outbox, handedOver, dispatchEvents,
                   preferenceEvents, turnsAtUpdate>>

\* Fault: preferences are read once, when the dispatch begins.
PreferencesOf_AtTheStart(d, r) == dispatching[d].known[r]

\* get_or_default_preferences, for each recipient in turn.
PreferencesOf(d, r) == preferences[r]

TemplateFor(d, prefs) ==
    IF prefs.override \in Stored THEN templates[prefs.override] ELSE dispatching[d].base

\* _delivery_channels: requested channels, or the template's, or the defaults.
DeliveryChannels(request, template, prefs) ==
    LET base == IF request.channels # {} THEN request.channels
                ELSE IF template.channels # {} THEN template.channels ELSE Defaults.channels
    IN  base \cap prefs.channels

\* A recipient who opted out or has no channel left is skipped.
SkipRecipient(d) ==
    /\ dispatching[d].at = "next" /\ dispatching[d].left # <<>>
    /\ LET prefs == PreferencesOf(d, Head(dispatching[d].left))
       IN  \/ ~prefs.enabled \/ ~prefs.subscribed
           \/ DeliveryChannels(dispatching[d].request, TemplateFor(d, prefs), prefs) = {}
    /\ dispatching' = [dispatching EXCEPT ![d].left = Tail(@)]
    /\ UNCHANGED <<preferences, templates, routeStatus, deliveries, outbox, handedOver,
                   dispatchEvents, preferenceEvents, turnsAtUpdate>>

\* A template that does not render for a recipient fails the whole request,
\* whoever was notified before: nothing announces those deliveries.
TakeRecipient(d) ==
    /\ dispatching[d].at = "next" /\ dispatching[d].left # <<>>
    /\ LET r == Head(dispatching[d].left)
           prefs == PreferencesOf(d, r)
           template == TemplateFor(d, prefs)
           channels == DeliveryChannels(dispatching[d].request, template, prefs)
           call == dispatching[d]
       IN  /\ prefs.enabled /\ prefs.subscribed /\ channels # {}
           /\ dispatching' = [dispatching EXCEPT ![d] =
                 IF ~template.renders THEN [at |-> "failed"]
                 ELSE [at |-> "delivering", request |-> call.request, base |-> call.base,
                       left |-> Tail(call.left), known |-> call.known,
                       recipient |-> r, channels |-> channels]]
    /\ UNCHANGED <<preferences, templates, routeStatus, deliveries, outbox, handedOver,
                   dispatchEvents, preferenceEvents, turnsAtUpdate>>

Delivered(d, channel, status) ==
    [dispatch |-> d, recipient |-> dispatching[d].recipient, channel |-> channel, status |-> status]

\* After the last channel comes the next recipient.
ChannelDone(d, channel) ==
    LET call == dispatching[d]
    IN  IF call.channels = {channel}
        THEN [at |-> "next", request |-> call.request, base |-> call.base,
              left |-> call.left, known |-> call.known]
        ELSE [call EXCEPT !.at = "delivering", !.channels = @ \ {channel}]

\* Another channel than e-mail takes the command without waiting, or raises.
DeliverMessage(d, channel, status) ==
    /\ dispatching[d].at = "delivering"
    /\ channel \in dispatching[d].channels \ {"email"}
    /\ deliveries' = deliveries \cup {Delivered(d, channel, status)}
    /\ dispatching' = [dispatching EXCEPT ![d] = ChannelDone(d, channel)]
    /\ UNCHANGED <<preferences, templates, routeStatus, outbox, handedOver, dispatchEvents,
                   preferenceEvents, turnsAtUpdate>>

\* resolve_route: the first that is active.
ActiveRoutes == {i \in DOMAIN EmailRoutes : routeStatus[i] = "active"}
ResolvedRoute == CHOOSE i \in ActiveRoutes : \A other \in ActiveRoutes : i <= other

CanSend(r) ==
    r \in HasAddress /\ ActiveRoutes # {} /\ EmailRoutes[ResolvedRoute] \in RoutesWithAdapter

Sending(call, message) ==
    [at |-> "sending", request |-> call.request, base |-> call.base, left |-> call.left,
     known |-> call.known, recipient |-> call.recipient, channels |-> call.channels,
     message |-> message, handed |-> FALSE]

\* queue_from_notification and try_send up to the provider. A message that is
\* deferred counts as delivered for the dispatch.
QueueEmail(d) ==
    /\ dispatching[d].at = "delivering"
    /\ "email" \in dispatching[d].channels
    /\ LET r == dispatching[d].recipient
       IN  IF CanSend(r)
           THEN /\ outbox' = Append(outbox, [recipient |-> r, status |-> "pending", attempts |-> 0])
                /\ dispatching' = [dispatching EXCEPT ![d] = Sending(@, Len(outbox) + 1)]
                /\ UNCHANGED deliveries
           ELSE /\ outbox' = Append(outbox, [recipient |-> r, status |-> "deferred", attempts |-> 0])
                /\ dispatching' = [dispatching EXCEPT ![d] = ChannelDone(d, "email")]
                /\ deliveries' = deliveries \cup {Delivered(d, "email", "delivered")}
    /\ UNCHANGED <<preferences, templates, routeStatus, handedOver, dispatchEvents,
                   preferenceEvents, turnsAtUpdate>>

\* The provider takes the message; its answer is still to come.
ProviderTakes(d) ==
    /\ dispatching[d].at = "sending" /\ ~dispatching[d].handed
    /\ handedOver' = Append(handedOver, dispatching[d].message)
    /\ dispatching' = [dispatching EXCEPT ![d].handed = TRUE]
    /\ UNCHANGED <<preferences, templates, routeStatus, deliveries, outbox, dispatchEvents,
                   preferenceEvents, turnsAtUpdate>>

\* The provider answers, or its answer is lost and the attempt failed. Either
\* way the channel returns, and the dispatch counts a delivery.
ProviderAnswers(d, status) ==
    /\ dispatching[d].at = "sending"
    /\ status = "sent" => dispatching[d].handed
    /\ outbox' = [outbox EXCEPT ![dispatching[d].message].status = status,
                                ![dispatching[d].message].attempts = @ + 1]
    /\ deliveries' = deliveries \cup {Delivered(d, "email", "delivered")}
    /\ dispatching' = [dispatching EXCEPT ![d] = ChannelDone(d, "email")]
    /\ UNCHANGED <<preferences, templates, routeStatus, handedOver, dispatchEvents,
                   preferenceEvents, turnsAtUpdate>>

\* The client goes away: the message stays pending, nothing sends it again.
CancelDispatch(d) ==
    /\ dispatching[d].at = "sending"
    /\ dispatching' = [dispatching EXCEPT ![d] = [at |-> "failed"]]
    /\ UNCHANGED <<preferences, templates, routeStatus, deliveries, outbox, handedOver,
                   dispatchEvents, preferenceEvents, turnsAtUpdate>>

\* dispatch ends with one event about its delivered records.
EndDispatch(d) ==
    /\ dispatching[d].at = "next" /\ dispatching[d].left = <<>>
    /\ dispatchEvents' = dispatchEvents \cup
           {[dispatch |-> d, delivered |-> {x \in deliveries : x.dispatch = d /\ x.status = "delivered"}]}
    /\ dispatching' = [dispatching EXCEPT ![d] = [at |-> "done"]]
    /\ UNCHANGED <<preferences, templates, routeStatus, deliveries, outbox, handedOver,
                   preferenceEvents, turnsAtUpdate>>

NotifyNext ==
    \/ \E r \in Recipients, update \in PreferenceUpdates : UpdatePreferences(r, update)
    \/ \E i \in DOMAIN EmailRoutes, status \in RouteStatuses : SwitchRoute(i, status)
    \/ \E d \in Dispatches :
          \/ \E request \in NotifyRequests : BeginDispatch(d, request)
          \/ SkipRecipient(d) \/ TakeRecipient(d)
          \/ \E status \in {"delivered", "failed"} : DeliverMessage(d, "telegram", status)
          \/ QueueEmail(d) \/ ProviderTakes(d)
          \/ \E status \in {"sent", "failed"} : ProviderAnswers(d, status)
          \/ CancelDispatch(d) \/ EndDispatch(d)

NotifySpec == NotifyInit /\ [][NotifyNext]_notifyVars

NotifyTypeOK ==
    /\ \A d \in Dispatches :
          dispatching[d].at \in {"idle", "next", "delivering", "sending", "done", "failed"}
    /\ \A x \in deliveries : x.recipient \in Recipients /\ x.status \in {"delivered", "failed"}
    /\ \A i \in DOMAIN outbox : outbox[i].status \in {"pending", "deferred", "sent", "failed"}
    /\ ToSet(handedOver) \subseteq DOMAIN outbox

\* A member who opts out of notifications, of the event or of a channel is not
\* notified over it any more, save by a dispatch that had come to the member
\* before the change.
OptOutHonoured ==
    /\ []NotifyTypeOK
    /\ [][\A x \in deliveries' \ deliveries :
             \/ x.dispatch \in turnsAtUpdate[x.recipient]
             \/ /\ preferences[x.recipient].enabled /\ preferences[x.recipient].subscribed
                /\ x.channel \in preferences[x.recipient].channels]_notifyVars
=============================================================================
