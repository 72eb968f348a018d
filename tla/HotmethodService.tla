-------------------------- MODULE HotmethodService --------------------------
(***************************************************************************)
(* drop_server: the scheduling state of HotmethodService and the           *)
(* operations on it.  Each of them runs under the one mutex mutex_, so it  *)
(* is one action; a handler that locks twice is two actions of the module  *)
(* that composes this one:                                                 *)
(*   DropLink     the agents, and the RPCs between them and the server;    *)
(*   CollectWait  the callers that wait in Collect on cv_.                 *)
(* The heartbeat table agents_ shares the mutex but no operation touches   *)
(* both it and the tasks; it is not part of this module.                   *)
(***************************************************************************)
EXTENDS Naturals, FiniteSets

CONSTANTS
    Tasks,      \* task ids; the API server draws each from uuid.New(), once
    Agents,     \* agents, by the ip that keys tasks_ and agents_
    MaxQueue    \* MAX_TASK_QUEUE_SIZE of the server

NONE == "NONE"

ASSUME MaxQueueAssumption == MaxQueue \in Nat \ {0}

\* The marks for "no task" are not task ids.
ASSUME TasksAssumption == Tasks \cap {NONE, "SENT"} = {}

VARIABLES
    accepted,   \* the answer CreateTask / Collect gave for a task id
    queue,      \* tasks_: the tasks waiting for each agent
    order,      \* the position of a task in the order of the pushes
    state,      \* tasks_state_[t].status, NONE where there is no entry
    stale,      \* the entries whose timestamp is older than the limit of their status
    result      \* results_[t]: NONE, or what the agent reported

serverVars == <<accepted, queue, order, state, stale, result>>

TaskStatus == {"PENDING", "DISPATCHED", "RUNNING", "UPLOADING",
               "DONE", "FAILED", "TIMEOUT"}

\* The statuses CleanupTimeoutTasks fails after timeout_sec, and the ones it
\* deletes after TTL_SEC.
Waiting == {"PENDING", "DISPATCHED"}
Terminal == {"DONE", "FAILED", "TIMEOUT"}

\* A TaskResult, by what a reader can do with it: a cos_key, an embedded
\* file, or an error_message.
GoodResult == {"cos_key", "file"}
TaskResult == GoodResult \cup {"error"}

ServerTypeOK ==
    /\ accepted \in [Tasks -> {NONE, "queued", "refused"}]
    /\ queue \in [Agents -> SUBSET Tasks]
    /\ order \in [Tasks -> Nat]
    /\ state \in [Tasks -> TaskStatus \cup {NONE}]
    /\ stale \subseteq Tasks
    /\ result \in [Tasks -> TaskResult \cup {NONE}]

ServerInit ==
    /\ accepted = [t \in Tasks |-> NONE]
    /\ queue = [a \in Agents |-> {}]
    /\ order = [t \in Tasks |-> 0]
    /\ state = [t \in Tasks |-> NONE]
    /\ stale = {}
    /\ result = [t \in Tasks |-> NONE]

-----------------------------------------------------------------------------
\* The internal UpdateTaskStatus, called with the lock held: it sets the
\* status and refreshes the timestamp.
SetTaskStatus(t, s) ==
    /\ state' = [state EXCEPT ![t] = s]
    /\ stale' = stale \ {t}

\* The check of PushTask: the queue of the agent is below its limit.
HasRoom(a) == Cardinality(queue[a]) < MaxQueue

\* The deque's order: q's front is its member pushed first.
IsFront(t, q) == t \in q /\ \A u \in q : order[t] <= order[u]

Pushed == {t \in Tasks : order[t] > 0}

\* PushTask: a full queue refuses the task, otherwise it is queued as PENDING.
PushTask(a, t) ==
    \/ /\ HasRoom(a)
       /\ queue' = [queue EXCEPT ![a] = @ \cup {t}]
       /\ order' = [order EXCEPT ![t] = Cardinality(Pushed) + 1]
       /\ SetTaskStatus(t, "PENDING")
       /\ accepted' = [accepted EXCEPT ![t] = "queued"]
    \/ /\ ~HasRoom(a)
       /\ accepted' = [accepted EXCEPT ![t] = "refused"]
       /\ UNCHANGED <<queue, order, state, stale>>

\* ControlService::CreateTask with a fresh task id.
CreateTask(a, t) ==
    /\ accepted[t] = NONE
    /\ PushTask(a, t)
    /\ UNCHANGED result

-----------------------------------------------------------------------------
\* Mutant: the front is read and not removed.
PopTaskPeeks(a, t) ==
    /\ IsFront(t, queue[a])
    /\ SetTaskStatus(t, "DISPATCHED")
    /\ UNCHANGED <<accepted, queue, order, result>>

\* PopTask, called by HealthCheckService::Do: the front of the agent's queue.
PopTask(a, t) ==
    /\ IsFront(t, queue[a])
    /\ queue' = [queue EXCEPT ![a] = @ \ {t}]
    /\ SetTaskStatus(t, "DISPATCHED")
    /\ UNCHANGED <<accepted, order, result>>

\* PopTask when nothing is queued for the agent.
PopNothing(a) ==
    /\ queue[a] = {}
    /\ UNCHANGED serverVars

\* The UpdateTaskStatus RPC: it overwrites whatever status the task has.
UpdateTaskStatus(t, s) ==
    /\ SetTaskStatus(t, s)
    /\ UNCHANGED <<accepted, queue, order, result>>

\* Mutant: the error message is not looked at.
NotifyResultAlwaysDone(t, r) ==
    /\ SetTaskStatus(t, "DONE")
    /\ result' = [result EXCEPT ![t] = r]
    /\ UNCHANGED <<accepted, queue, order>>

\* The NotifyResult RPC for a task that is not a continuous window.
NotifyResult(t, r) ==
    /\ SetTaskStatus(t, IF r \in GoodResult THEN "DONE" ELSE "FAILED")
    /\ result' = [result EXCEPT ![t] = r]
    /\ UNCHANGED <<accepted, queue, order>>

-----------------------------------------------------------------------------
\* Time passes the limit of an entry: timeout_sec (30 s) for a waiting one,
\* TTL_SEC (3600 s) for a terminal one.
Elapse(t) ==
    /\ t \notin stale
    /\ state[t] \in Waiting \cup Terminal
    /\ stale' = stale \cup {t}
    /\ UNCHANGED <<accepted, queue, order, state, result>>

\* Mutant: only the tasks nobody fetched are timed out.
OverduePendingOnly == {t \in stale : state[t] = "PENDING"}

\* What the cleanup fails, and what it deletes.
Overdue == {t \in stale : state[t] \in Waiting}
Expired == {t \in stale : state[t] \in Terminal}

\* Mutant: a timed out task stays in its queue.
CleanupLeavesQueue ==
    /\ Overdue \cup Expired # {}
    /\ state' = [t \in Tasks |-> CASE t \in Overdue -> "FAILED"
                                   [] t \in Expired -> NONE
                                   [] OTHER -> state[t]]
    /\ stale' = stale \ (Overdue \cup Expired)
    /\ result' = [t \in Tasks |-> IF t \in Expired THEN NONE ELSE result[t]]
    /\ UNCHANGED <<accepted, queue, order>>

\* CleanupTimeoutTasks: waiting tasks past their limit become FAILED and leave
\* their queue, old terminal ones and their results are deleted.
CleanupTimeoutTasks ==
    /\ Overdue \cup Expired # {}
    /\ state' = [t \in Tasks |-> CASE t \in Overdue -> "FAILED"
                                   [] t \in Expired -> NONE
                                   [] OTHER -> state[t]]
    /\ stale' = stale \ (Overdue \cup Expired)
    /\ queue' = [a \in Agents |-> queue[a] \ Overdue]
    /\ result' = [t \in Tasks |-> IF t \in Expired THEN NONE ELSE result[t]]
    /\ UNCHANGED <<accepted, order>>

-----------------------------------------------------------------------------
\* The process ends and starts again: all of this is memory, the SQLite log of
\* the transitions is never read back.
ServerRestart ==
    /\ queue' = [a \in Agents |-> {}]
    /\ state' = [t \in Tasks |-> NONE]
    /\ stale' = {}
    /\ result' = [t \in Tasks |-> NONE]
    /\ UNCHANGED <<accepted, order>>
=============================================================================
