---------------------------- MODULE EventTopics ----------------------------
(***************************************************************************)
(* Routing of events (libs/shared/events.py): envelopes are published      *)
(* under tenant.<tenant>.<type>, and reach consumers through binding keys  *)
(* with the wildcards of a topic exchange. In memory one list of messages  *)
(* serves all consumers, and a message goes to the first that asks; in     *)
(* RabbitMQ every queue that is declared gets a copy of its own.           *)
(*                                                                         *)
(* Abstracted: the fields of an envelope that take no part in routing. A   *)
(* tenant or a type is the sequence of its segments between dots.          *)
(***************************************************************************)
EXTENDS Integers, Sequences, FiniteSets

CONSTANTS
    TopicTenants,    \* tenant ids, as callers give them
    EventTypes,      \* types of events
    Bindings,        \* binding keys of consumers
    BatchLimits,     \* values of limit, 0 for none
    MaxEnvelopes     \* bound: envelopes published

ASSUME TopicsAssumption ==
    /\ TopicTenants \cup EventTypes \cup Bindings \subseteq Seq(STRING)
    /\ BatchLimits \subseteq Nat /\ MaxEnvelopes \in Nat

VARIABLES
    transport,    \* "memory" or "rabbitmq"
    messages,     \* the list of the bus in memory, oldest first
    queues,       \* binding -> whether its queue is declared
    arrived,      \* binding -> envelopes its consumer or queue has got, in order
    declaredAt,   \* binding -> envelopes published before its queue was declared
    sent          \* every envelope published, in order

topicVars == <<transport, messages, queues, arrived, declaredAt, sent>>

TopicsInit ==
    /\ transport \in {"memory", "rabbitmq"}
    /\ messages = <<>>
    /\ queues = [b \in Bindings |-> FALSE]
    /\ arrived = [b \in Bindings |-> <<>>]
    /\ declaredAt = [b \in Bindings |-> 0]
    /\ sent = <<>>

\* Fault: a dot is let through in a tenant id.
IsRoutingSegment_Dotted(tenant) == Len(tenant) > 0

IsRoutingSegment(tenant) == Len(tenant) = 1

\* domain.event, with two segments or more.
IsEventType(type) == Len(type) >= 2

RoutingKey(envelope) == <<"tenant">> \o envelope.tenant \o envelope.type

\* starts[i]: where the rest of the key may begin that the i-th part of the
\* binding and those after it match.
TopicMatches(binding, key) ==
    LET starts[i \in 1 .. Len(binding) + 1] ==
            IF i > Len(binding) THEN {Len(key) + 1}
            ELSE IF binding[i] = "#"
            THEN {j \in 1 .. Len(key) + 1 : \E k \in j .. Len(key) + 1 : k \in starts[i + 1]}
            ELSE {j \in 1 .. Len(key) : binding[i] \in {"*", key[j]} /\ j + 1 \in starts[i + 1]}
    IN  1 \in starts[1]

\* An envelope is checked when it is made, and is never published unless it is
\* well formed.
Envelope(tenant, type) == [event_id |-> Len(sent) + 1, tenant |-> tenant, type |-> type]

WellFormed(envelope) == IsRoutingSegment(envelope.tenant) /\ IsEventType(envelope.type)

Published(envelope) ==
    /\ Len(sent) < MaxEnvelopes
    /\ WellFormed(envelope)
    /\ sent' = Append(sent, envelope)

PublishInMemory(envelope) ==
    /\ transport = "memory"
    /\ Published(envelope)
    /\ messages' = Append(messages, envelope)
    /\ UNCHANGED <<transport, queues, arrived, declaredAt>>

\* The exchange copies the message to the queues that are bound by now; with
\* none, it is dropped.
PublishToExchange(envelope) ==
    /\ transport = "rabbitmq"
    /\ Published(envelope)
    /\ arrived' = [b \in Bindings |->
           IF queues[b] /\ TopicMatches(b, RoutingKey(envelope))
           THEN Append(arrived[b], envelope) ELSE arrived[b]]
    /\ UNCHANGED <<transport, messages, queues, declaredAt>>

\* Declaring a queue that is there already changes nothing.
DeclareQueue(b) ==
    /\ transport = "rabbitmq"
    /\ queues' = [queues EXCEPT ![b] = TRUE]
    /\ declaredAt' = [declaredAt EXCEPT ![b] = IF queues[b] THEN @ ELSE Len(sent)]
    /\ UNCHANGED <<transport, messages, arrived, sent>>

\* The messages that match, the oldest first and no more than the limit.
Consumable(b, limit) ==
    LET matching == {i \in DOMAIN messages : TopicMatches(b, RoutingKey(messages[i]))}
    IN  {i \in matching : limit = 0 \/ Cardinality({j \in matching : j < i}) < limit}

Picked(chosen) ==
    LET pick[i \in 0 .. Len(messages)] ==
            IF i = 0 THEN <<>>
            ELSE IF i \in chosen THEN Append(pick[i - 1], messages[i]) ELSE pick[i - 1]
    IN  pick[Len(messages)]

Consume(b, limit) ==
    /\ transport = "memory"
    /\ arrived' = [arrived EXCEPT ![b] = @ \o Picked(Consumable(b, limit))]
    /\ messages' = Picked(DOMAIN messages \ Consumable(b, limit))
    /\ UNCHANGED <<transport, queues, declaredAt, sent>>

TopicsNext ==
    \/ \E tenant \in TopicTenants, type \in EventTypes :
          \/ PublishInMemory(Envelope(tenant, type))
          \/ PublishToExchange(Envelope(tenant, type))
    \/ \E b \in Bindings :
          \/ DeclareQueue(b)
          \/ \E limit \in BatchLimits : Consume(b, limit)

TopicsSpec == TopicsInit /\ [][TopicsNext]_topicVars

---------------------------------------------------------------------------
\* What the wildcards mean: the key is cut into one piece for each part of the
\* binding, of any length for "#" and of one segment, itself or any, otherwise.
Covers(binding, key) ==
    \E cut \in [0 .. Len(binding) -> 0 .. Len(key)] :
        /\ cut[0] = 0 /\ cut[Len(binding)] = Len(key)
        /\ \A i \in 1 .. Len(binding) :
               IF binding[i] = "#" THEN cut[i] >= cut[i - 1]
               ELSE cut[i] = cut[i - 1] + 1 /\ binding[i] \in {"*", key[cut[i]]}

Covered == UNION {{b} \X {k \in {<<"tenant">> \o t \o y : t \in TopicTenants, y \in EventTypes} :
                             Covers(b, k)} : b \in Bindings}

OfTenant(b) == Len(b) >= 2 /\ b[1] = "tenant" /\ b[2] \notin {"*", "#"}

Occurrences(id) == Cardinality({p \in Bindings \X (1 .. MaxEnvelopes) :
    p[2] \in DOMAIN arrived[p[1]] /\ arrived[p[1]][p[2]].event_id = id})

\* Every envelope finds the consumers that bound themselves to its kind, in the
\* order of publication, and no others: one of them in memory, where none is
\* lost while nobody asks, and each queue that was declared in time in
\* RabbitMQ. A consumer bound to one tenant never gets an event of another
\* (publish, consume, declare_queue, topic_matches).
EventsFindTheirConsumers ==
    /\ \A b \in Bindings : \A i \in DOMAIN arrived[b] :
          /\ <<b, RoutingKey(arrived[b][i])>> \in Covered
          /\ OfTenant(b) => arrived[b][i].tenant = <<b[2]>>
          /\ \A j \in 1 .. i - 1 : arrived[b][j].event_id < arrived[b][i].event_id
    /\ \A n \in DOMAIN sent :
          IF transport = "memory"
          THEN Occurrences(n) + Cardinality({i \in DOMAIN messages : messages[i].event_id = n}) = 1
          ELSE \A b \in Bindings :
                  queues[b] /\ n > declaredAt[b] /\ <<b, RoutingKey(sent[n])>> \in Covered =>
                      \E i \in DOMAIN arrived[b] : arrived[b][i].event_id = n
=============================================================================
