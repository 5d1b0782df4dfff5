-------------------------- MODULE EventProcessing --------------------------
(***************************************************************************)
(* The consuming side of the event bus (libs/shared/events.py): a broker   *)
(* that delivers each event at least once, workers that hand deliveries to *)
(* IdempotentEventProcessor.handle, and the inbox that is to keep the      *)
(* handler from running twice. The inbox lives in memory: a restart clears *)
(* it. A handler suspends, so deliveries of one event overlap.             *)
(***************************************************************************)
EXTENDS Naturals

CONSTANTS
    Events, Workers,
    MaxRedeliveries,    \* bound: extra copies of one event the broker delivers
    MaxFailures,        \* bound: handlers that raise
    MaxCancellations,   \* bound: handlers that are cancelled
    MaxRestarts         \* bound: restarts of the process

VARIABLES
    queued,       \* deliveries of each event waiting for a worker
    published,    \* events published so far
    inbox,        \* InMemoryEventIdempotencyStore: in progress, completed or neither
    running,      \* the event each worker has in its handler
    runs,         \* handlers that ended well for each event, since the last restart
    done,         \* events some handler ended well for, ever
    cancelled,    \* events whose handler was cancelled, ever
    budget        \* what is left of the bounds

eventVars == <<queued, published, inbox, running, runs, done, cancelled, budget>>

Nothing == "nothing"

\* An event has an identifier of its own (EventEnvelope.event_id).
ASSUME InboxAssumption == Nothing \notin Events

EventsInit ==
    /\ queued = [e \in Events |-> 0]
    /\ published = {}
    /\ inbox = [e \in Events |-> "unknown"]
    /\ running = [w \in Workers |-> Nothing]
    /\ runs = [e \in Events |-> 0]
    /\ done = {}
    /\ cancelled = {}
    /\ budget = [copies |-> MaxRedeliveries, failures |-> MaxFailures,
                 cancellations |-> MaxCancellations, restarts |-> MaxRestarts]

Publish(e) ==
    /\ e \notin published
    /\ published' = published \cup {e}
    /\ queued' = [queued EXCEPT ![e] = @ + 1]
    /\ UNCHANGED <<inbox, running, runs, done, cancelled, budget>>

\* The broker delivers a copy of an event it has delivered before.
Redeliver(e) ==
    /\ e \in published
    /\ budget.copies > 0
    /\ budget' = [budget EXCEPT !.copies = @ - 1]
    /\ queued' = [queued EXCEPT ![e] = @ + 1]
    /\ UNCHANGED <<published, inbox, running, runs, done, cancelled>>

MayBegin(e) == inbox[e] = "unknown"

\* handle up to the handler. The first statement, begin, does not suspend.
Take(w, e) ==
    /\ running[w] = Nothing
    /\ queued[e] > 0
    /\ MayBegin(e)
    /\ queued' = [queued EXCEPT ![e] = @ - 1]
    /\ inbox' = [inbox EXCEPT ![e] = "in_progress"]
    /\ running' = [running EXCEPT ![w] = e]
    /\ UNCHANGED <<published, runs, done, cancelled, budget>>

\* handle answers False: the delivery is acknowledged, and gone.
Skip(w, e) ==
    /\ running[w] = Nothing
    /\ queued[e] > 0
    /\ ~MayBegin(e)
    /\ queued' = [queued EXCEPT ![e] = @ - 1]
    /\ UNCHANGED <<published, inbox, running, runs, done, cancelled, budget>>

HandlerEnds(w) ==
    /\ running[w] # Nothing
    /\ inbox' = [inbox EXCEPT ![running[w]] = "completed"]
    /\ runs' = [runs EXCEPT ![running[w]] = @ + 1]
    /\ done' = done \cup {running[w]}
    /\ running' = [running EXCEPT ![w] = Nothing]
    /\ UNCHANGED <<queued, published, cancelled, budget>>

\* Fault: an event whose handler raised stays taken.
HandlerRaises_KeepsTaken(w) ==
    /\ running[w] # Nothing
    /\ budget.failures > 0
    /\ budget' = [budget EXCEPT !.failures = @ - 1]
    /\ queued' = [queued EXCEPT ![running[w]] = @ + 1]
    /\ running' = [running EXCEPT ![w] = Nothing]
    /\ UNCHANGED <<published, inbox, runs, done, cancelled>>

\* The handler raises: fail releases the event, the exception goes on to the
\* consumer and the broker delivers the event again.
HandlerRaises(w) ==
    /\ running[w] # Nothing
    /\ budget.failures > 0
    /\ budget' = [budget EXCEPT !.failures = @ - 1]
    /\ inbox' = [inbox EXCEPT ![running[w]] = "unknown"]
    /\ queued' = [queued EXCEPT ![running[w]] = @ + 1]
    /\ running' = [running EXCEPT ![w] = Nothing]
    /\ UNCHANGED <<published, runs, done, cancelled>>

\* The task is cancelled: CancelledError is no Exception, so fail is not called
\* and the event stays in progress; the broker delivers it again.
HandlerCancelled(w) ==
    /\ running[w] # Nothing
    /\ budget.cancellations > 0
    /\ budget' = [budget EXCEPT !.cancellations = @ - 1]
    /\ cancelled' = cancelled \cup {running[w]}
    /\ queued' = [queued EXCEPT ![running[w]] = @ + 1]
    /\ running' = [running EXCEPT ![w] = Nothing]
    /\ UNCHANGED <<published, inbox, runs, done>>

Taken(e) == {w \in Workers : running[w] = e} # {}

\* The process restarts: the inbox is empty, what was unacknowledged comes again.
Restart ==
    /\ budget.restarts > 0
    /\ budget' = [budget EXCEPT !.restarts = @ - 1]
    /\ inbox' = [e \in Events |-> "unknown"]
    /\ queued' = [e \in Events |-> IF Taken(e) THEN queued[e] + 1 ELSE queued[e]]
    /\ running' = [w \in Workers |-> Nothing]
    /\ runs' = [e \in Events |-> 0]
    /\ UNCHANGED <<published, done, cancelled>>

EventsNext ==
    \/ \E e \in Events : Publish(e) \/ Redeliver(e)
    \/ \E w \in Workers, e \in Events : Take(w, e) \/ Skip(w, e)
    \/ \E w \in Workers : HandlerEnds(w) \/ HandlerRaises(w) \/ HandlerCancelled(w)
    \/ Restart

\* Workers go on taking deliveries, and every handler ends in one of its ways.
EventsFairness ==
    /\ \A e \in Events : WF_eventVars(\E w \in Workers : Take(w, e) \/ Skip(w, e))
    /\ \A w \in Workers : WF_eventVars(HandlerEnds(w) \/ HandlerRaises(w) \/ HandlerCancelled(w))

EventsSpec == EventsInit /\ [][EventsNext]_eventVars /\ EventsFairness

----------------------------------------------------------------------------
EventsTypeOK ==
    /\ queued \in [Events -> Nat]
    /\ {published, done, cancelled} \subseteq SUBSET Events
    /\ inbox \in [Events -> {"unknown", "in_progress", "completed"}]
    /\ running \in [Workers -> Events \cup {Nothing}]
    /\ runs \in [Events -> Nat]

\* Between two restarts no handler ends well twice for one event, and no two
\* workers are in the handler of one event, however deliveries repeat, overlap
\* and fail (begin, complete, fail).
HandledOnce ==
    /\ EventsTypeOK
    /\ \A e \in Events : /\ runs[e] <= 1
                         /\ \A v, w \in Workers : running[v] = e /\ running[w] = e => v = w

\* No event is lost by the inbox: what was published is handled in the end,
\* through failures, copies and restarts, unless its handler was cancelled
\* (IdempotentEventProcessor.handle).
PublishedIsHandled == \A e \in Events : (e \in published) ~> (e \in done \cup cancelled)

\* Each event is handled, and once: the inbox turns deliveries that may repeat,
\* overlap and fail into one effect (IdempotentEventProcessor.handle).
EventsAreHandled == []HandledOnce /\ PublishedIsHandled
=============================================================================
