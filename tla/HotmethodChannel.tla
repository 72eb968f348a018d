-------------------------- MODULE HotmethodChannel --------------------------
(***************************************************************************)
(* drop_agent: the task queue and the worker thread of HotmethodChannel,   *)
(* fed by the heartbeat thread of HealthCheckChannel.                      *)
(*                                                                         *)
(* The worker reports to drop_server by blocking RPCs, each tried up to    *)
(* MaxTries times with a deadline.  The request a worker waits for is      *)
(* Request(a); sending it and serving it are in DropLink.                  *)
(***************************************************************************)
EXTENDS HotmethodService

CONSTANTS
    MaxAgentQueue,  \* MAX_TASK_QUEUE_SIZE of the agent
    MaxTries        \* attempts of ReportStatus and ReportResult, 3 in the code

ASSUME AgentAssumption ==
    /\ MaxAgentQueue \in Nat \ {0}
    /\ MaxTries \in Nat \ {0}

VARIABLES
    running,    \* running_: cleared by the signal handler
    hb,         \* the heartbeat call: NONE, SENT, or the task its response carries
    taskQueue,  \* task_queue_
    phase,      \* where the worker thread stands
    cur,        \* the task the worker (or the destructor's drain) is at
    outcome,    \* the result it is going to report
    try,        \* the attempt of the report under way
    acked,      \* the reply of that attempt is under way to the agent
    net,        \* requests sent to drop_server and not served yet
    taken       \* history: the tasks a worker or a drain has taken up

workerVars == <<phase, cur, outcome, try, acked, net>>
agentVars == <<running, hb, taskQueue, workerVars, taken>>

SENT == "SENT"

Reporting == {"report_running", "report_uploading", "report_result"}
Phase == Reporting \cup {"idle", "record", "upload", "exited"}

\* A report to drop_server: an UpdateTaskStatus or a NotifyResult request.
Report == [task : Tasks, body : {"RUNNING", "UPLOADING"} \cup TaskResult, try : 1..MaxTries]

AgentTypeOK ==
    /\ running \in [Agents -> BOOLEAN]
    /\ hb \in [Agents -> Tasks \cup {NONE, SENT}]
    /\ taskQueue \in [Agents -> SUBSET Tasks]
    /\ phase \in [Agents -> Phase]
    /\ cur \in [Agents -> Tasks \cup {NONE}]
    /\ outcome \in [Agents -> TaskResult \cup {NONE}]
    /\ try \in [Agents -> 1..MaxTries]
    /\ acked \in [Agents -> BOOLEAN]
    /\ net \subseteq Report
    /\ taken \subseteq Tasks

AgentInit ==
    /\ running = [a \in Agents |-> TRUE]
    /\ hb = [a \in Agents |-> NONE]
    /\ taskQueue = [a \in Agents |-> {}]
    /\ phase = [a \in Agents |-> "idle"]
    /\ cur = [a \in Agents |-> NONE]
    /\ outcome = [a \in Agents |-> NONE]
    /\ try = [a \in Agents |-> 1]
    /\ acked = [a \in Agents |-> FALSE]
    /\ net = {}
    /\ taken = {}

-----------------------------------------------------------------------------
\* What ReportStatus and ReportResult put in the request.
Body(p, r) ==
    CASE p = "report_running"   -> "RUNNING"
      [] p = "report_uploading" -> "UPLOADING"
      [] OTHER                  -> r

\* The request whose reply the worker of agent a waits for.
Request(a) == [task |-> cur[a], body |-> Body(phase[a], outcome[a]), try |-> try[a]]

\* The first attempt of a report of phase p on task t.
StartReport(a, p, t, r) ==
    /\ phase' = [phase EXCEPT ![a] = p]
    /\ cur' = [cur EXCEPT ![a] = t]
    /\ outcome' = [outcome EXCEPT ![a] = r]
    /\ try' = [try EXCEPT ![a] = 1]
    /\ acked' = [acked EXCEPT ![a] = FALSE]
    /\ net' = net \cup {[task |-> t, body |-> Body(p, r), try |-> 1]}

\* HeartbeatLoop calls HealthCheck.Do.
SendHeartbeat(a) ==
    /\ running[a]
    /\ hb[a] = NONE
    /\ hb' = [hb EXCEPT ![a] = SENT]
    /\ UNCHANGED <<running, taskQueue, workerVars, taken>>

\* The call fails: its deadline passes or the connection breaks.
HeartbeatFails(a) ==
    /\ hb[a] = SENT
    /\ hb' = [hb EXCEPT ![a] = NONE]
    /\ UNCHANGED <<running, taskQueue, workerVars, taken>>

\* The response carries a task: the callback pushes it, a full queue drops it.
PushToWorker(a) ==
    /\ hb[a] \notin {NONE, SENT}
    /\ hb' = [hb EXCEPT ![a] = NONE]
    /\ taskQueue' = [taskQueue EXCEPT ![a] =
                        IF Cardinality(@) < MaxAgentQueue THEN @ \cup {hb[a]} ELSE @]
    /\ UNCHANGED <<running, workerVars, taken>>

-----------------------------------------------------------------------------
\* WorkerLoop takes the front of the queue and reports RUNNING.
TakeTask(a, t) ==
    /\ running[a]
    /\ phase[a] = "idle"
    /\ IsFront(t, taskQueue[a])
    /\ taskQueue' = [taskQueue EXCEPT ![a] = @ \ {t}]
    /\ StartReport(a, "report_running", t, NONE)
    /\ taken' = taken \cup {t}
    /\ UNCHANGED <<running, hb>>

\* The profiler or the script runs; on success the worker reports UPLOADING,
\* on failure the error.
Record(a, ok) ==
    /\ phase[a] = "record"
    /\ IF ok THEN StartReport(a, "report_uploading", cur[a], NONE)
             ELSE StartReport(a, "report_result", cur[a], "error")
    /\ UNCHANGED <<running, hb, taskQueue, taken>>

\* The upload: to storage, else embedded in the message, else an error.
Upload(a, r) ==
    /\ phase[a] = "upload"
    /\ StartReport(a, "report_result", cur[a], r)
    /\ UNCHANGED <<running, hb, taskQueue, taken>>

\* Where the worker goes on once a report returns.
AfterReport(p) ==
    CASE p = "report_running"   -> "record"
      [] p = "report_uploading" -> "upload"
      [] OTHER                  -> "idle"

\* ReportStatus / ReportResult return: the attempt succeeded, or it was the
\* last one and failed (the failure is only logged).
ReportReturns(a) ==
    /\ phase[a] \in Reporting
    /\ phase' = [phase EXCEPT ![a] = AfterReport(@)]
    /\ cur' = IF phase[a] = "report_result" THEN [cur EXCEPT ![a] = NONE] ELSE cur
    /\ outcome' = [outcome EXCEPT ![a] = NONE]
    /\ try' = [try EXCEPT ![a] = 1]
    /\ acked' = [acked EXCEPT ![a] = FALSE]
    /\ UNCHANGED <<running, hb, taskQueue, net, taken>>

ReportOk(a) == acked[a] /\ ReportReturns(a)
ReportGivesUp(a) == try[a] = MaxTries /\ ReportReturns(a)

\* Mutant: the attempts are not counted against the limit.
ReportRetryUnbounded(a) ==
    /\ phase[a] \in Reporting
    /\ try[a] <= MaxTries
    /\ try' = [try EXCEPT ![a] = @ + 1]
    /\ acked' = [acked EXCEPT ![a] = FALSE]
    /\ net' = net \cup {[Request(a) EXCEPT !.try = try[a] + 1]}
    /\ UNCHANGED <<running, hb, taskQueue, phase, cur, outcome, taken>>

\* An attempt fails at the client (the request may be lost, served later, or
\* served already) and the next one is sent.
ReportRetry(a) ==
    /\ phase[a] \in Reporting
    /\ try[a] < MaxTries
    /\ try' = [try EXCEPT ![a] = @ + 1]
    /\ acked' = [acked EXCEPT ![a] = FALSE]
    /\ net' = net \cup {[Request(a) EXCEPT !.try = try[a] + 1]}
    /\ UNCHANGED <<running, hb, taskQueue, phase, cur, outcome, taken>>

-----------------------------------------------------------------------------
\* The signal handler clears running_.
Shutdown(a) ==
    /\ running[a]
    /\ running' = [running EXCEPT ![a] = FALSE]
    /\ UNCHANGED <<hb, taskQueue, workerVars, taken>>

\* The destructor, once the heartbeat thread and the worker are joined:
\* every task left in the queue is reported as failed.
DrainTask(a, t) ==
    /\ ~running[a]
    /\ hb[a] = NONE
    /\ phase[a] = "idle"
    /\ IsFront(t, taskQueue[a])
    /\ taskQueue' = [taskQueue EXCEPT ![a] = @ \ {t}]
    /\ StartReport(a, "report_result", t, "error")
    /\ taken' = taken \cup {t}
    /\ UNCHANGED <<running, hb>>

\* Mutant: the process ends without draining its queue.
AgentExitNoDrain(a) ==
    /\ ~running[a]
    /\ hb[a] = NONE
    /\ phase[a] = "idle"
    /\ phase' = [phase EXCEPT ![a] = "exited"]
    /\ taskQueue' = [taskQueue EXCEPT ![a] = {}]
    /\ UNCHANGED <<running, hb, cur, outcome, try, acked, net, taken>>

\* The process ends, the queue drained.
AgentExit(a) ==
    /\ ~running[a]
    /\ hb[a] = NONE
    /\ phase[a] = "idle"
    /\ taskQueue[a] = {}
    /\ phase' = [phase EXCEPT ![a] = "exited"]
    /\ UNCHANGED <<running, hb, taskQueue, cur, outcome, try, acked, net, taken>>

\* A crash, and the start of a new process: nothing of the old one is left.
AgentStart(a) ==
    /\ running' = [running EXCEPT ![a] = TRUE]
    /\ hb' = [hb EXCEPT ![a] = NONE]
    /\ taskQueue' = [taskQueue EXCEPT ![a] = {}]
    /\ phase' = [phase EXCEPT ![a] = "idle"]
    /\ cur' = [cur EXCEPT ![a] = NONE]
    /\ outcome' = [outcome EXCEPT ![a] = NONE]
    /\ try' = [try EXCEPT ![a] = 1]
    /\ acked' = [acked EXCEPT ![a] = FALSE]
    /\ UNCHANGED <<net, taken>>
=============================================================================
