----------------------------- MODULE CommandCenter -----------------------------
(***************************************************************************)
(* The activity command centre: tasks are queued while risk, confidence    *)
(* and the length of the loop's queue stay within the Council's            *)
(* thresholds, and wait for the Council otherwise. Creating a task is one  *)
(* step of the event loop up to its announcement. No operation completes   *)
(* or cancels a task: both kinds of active task count for good.            *)
(***************************************************************************)
EXTENDS CouncilThresholds, Sequences, FiniteSets

CONSTANTS
    TaskIds,           \* task ids that clients choose
    TaskRequests,      \* [feedback_loop, risk_score, agent_confidence]
    QueueLimitField,   \* queue_limit_for: feedback loop -> field of the thresholds
    MaxTaskAudits      \* bound: creations the audit log holds

\* The limit of a loop's queue is one of the thresholds, and a number.
ASSUME LimitsAssumption ==
    \A loop \in DOMAIN QueueLimitField :
        /\ QueueLimitField[loop] \in DOMAIN DefaultThresholds
        /\ DefaultThresholds[QueueLimitField[loop]] \in Nat
        /\ \A update \in ThresholdUpdates :
              QueueLimitField[loop] \in DOMAIN update => update[QueueLimitField[loop]] \in Nat

VARIABLES
    tasks,        \* _tasks of the tenant
    taskAudit,    \* task.created records of the audit log: task id and status
    taskEvents    \* task ids that were announced

commandVars == <<thresholdVars, tasks, taskAudit, taskEvents>>

CommandInit ==
    /\ ThresholdsInit
    /\ tasks = {}
    /\ taskAudit = <<>>
    /\ taskEvents = {}

QueueLimitFor(loop, settings) == settings[QueueLimitField[loop]]

ActiveTasks(loop) ==
    {t \in tasks : t.feedback_loop = loop /\ t.status \in {"queued", "needs_council_review"}}

\* Fault: the loop's last free place is counted twice.
TaskReasons_OneMore(request, settings) ==
    {reason \in {"risk", "confidence", "queue"} :
        \/ reason = "risk" /\ request.risk_score > settings.max_autonomous_risk_score
        \/ reason = "confidence" /\ request.agent_confidence < settings.min_agent_confidence
        \/ reason = "queue" /\ Cardinality(ActiveTasks(request.feedback_loop))
                                  > QueueLimitFor(request.feedback_loop, settings)}

\* _policy_reasons.
TaskReasons(request, settings) ==
    {reason \in {"risk", "confidence", "queue"} :
        \/ reason = "risk" /\ request.risk_score > settings.max_autonomous_risk_score
        \/ reason = "confidence" /\ request.agent_confidence < settings.min_agent_confidence
        \/ reason = "queue" /\ Cardinality(ActiveTasks(request.feedback_loop))
                                  >= QueueLimitFor(request.feedback_loop, settings)}

\* create_task: a task id that is taken is refused when its creation stands in
\* the audit log; an event id that is no token, when the task is in the queue.
CreateTask(id, request, accepted) ==
    LET inForce == GetThresholds
        reasons == TaskReasons(request, inForce.settings)
        task == [task_id |-> id, feedback_loop |-> request.feedback_loop,
                 status |-> IF reasons = {} THEN "queued" ELSE "needs_council_review",
                 policy_revision |-> inForce.revision, policy_reasons |-> reasons]
        taken == \E t \in tasks : t.task_id = id
    IN  /\ Len(taskAudit) < MaxTaskAudits
        /\ thresholds' = inForce
        /\ taskAudit' = Append(taskAudit, [task_id |-> id, status |-> task.status])
        /\ tasks' = IF taken THEN tasks ELSE tasks \cup {task}
        /\ taskEvents' = IF taken \/ ~accepted THEN taskEvents ELSE taskEvents \cup {id}
        /\ UNCHANGED <<thresholdAudit, thresholdEvents, missed>>

CommandNext ==
    \/ ThresholdsNext /\ UNCHANGED <<tasks, taskAudit, taskEvents>>
    \/ \E id \in TaskIds, request \in TaskRequests, accepted \in BOOLEAN :
          CreateTask(id, request, accepted)

CommandSpec == CommandInit /\ [][CommandNext]_commandVars

CommandTypeOK ==
    /\ \A t \in tasks : t.task_id \in TaskIds /\ t.policy_revision \in 1..MaxRevision
    /\ \A i \in DOMAIN taskAudit : taskAudit[i].task_id \in TaskIds
    /\ taskEvents \subseteq TaskIds

\* _feedback_loop_overview: the queued tasks of a loop.
QueuedIn(loop) == Cardinality({t \in ActiveTasks(loop) : t.status = "queued"})

\* However thresholds change, and whatever waits for the Council, a loop never
\* holds more autonomous tasks than the largest limit the Council ever set for
\* it, and none of them ran into a reason to escalate it.
QueueIsBounded ==
    /\ ThresholdsTypeOK
    /\ CommandTypeOK
    /\ \A loop \in DOMAIN QueueLimitField :
          \E t \in EverInForce : QueuedIn(loop) <= QueueLimitFor(loop, t.settings)
    /\ \A loop \in DOMAIN QueueLimitField :
          \A t \in ActiveTasks(loop) : t.status = "queued" => t.policy_reasons = {}
=============================================================================
