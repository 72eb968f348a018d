--------------------------- MODULE DropLinkProofs ---------------------------
(***************************************************************************)
(* Theorems about DropLink, for any tasks, agents, queue limits, number of *)
(* attempts and faults.                                                    *)
(*                                                                         *)
(* QueuedIsPending alone is not inductive: a late report could overwrite   *)
(* the status of a queued task, were it not that reports exist only for    *)
(* tasks that were taken up, that these are in no queue any more           *)
(* (RunsOnce), and that a task id is queued at most once                   *)
(* (UnknownIsNowhere).  IInv puts these together.                          *)
(***************************************************************************)
EXTENDS DropLink, FiniteSetTheorems, TLAPS

USE MaxQueueAssumption, TasksAssumption, AgentAssumption
USE DEF NONE, SENT

\* The initial state satisfies the invariant: nothing is queued or reported.
LEMMA InitIInv == Init => IInv
<1> SUFFICES ASSUME Init PROVE IInv
  OBVIOUS
<1>1. Pushed = {}
  BY DEF Init, ServerInit, Pushed
<1>2. UnknownIsNowhere
  BY <1>1, FS_EmptySet DEF Init, ServerInit, AgentInit, UnknownIsNowhere
<1>3. QED
  BY <1>2 DEF Init, ServerInit, AgentInit, IInv, TypeOK, ServerTypeOK, AgentTypeOK,
       WorkersAtTheirTask, RunsOnce, QueuedIsPending, StatusMatchesResult,
       TaskStatus, Waiting, GoodResult, TaskResult, Phase, Reporting, Report

-----------------------------------------------------------------------------
\* CreateTask queues a fresh task id, or refuses it and leaves the queues alone.
LEMMA CreateTaskIInv ==
    ASSUME IInv, NEW a \in Agents, NEW t \in Tasks, CreateTask(a, t), UNCHANGED agentVars
    PROVE  IInv'
<1>0. /\ t \notin Pushed
      /\ UNCHANGED <<result, running, hb, taskQueue, phase, cur, outcome, try, acked, net, taken>>
      /\ accepted' \in [Tasks -> {NONE, "queued", "refused"}]
  BY DEF IInv, TypeOK, ServerTypeOK, UnknownIsNowhere, CreateTask, PushTask, agentVars, workerVars
<1>1. CASE HasRoom(a)
  <2>1. /\ queue' = [queue EXCEPT ![a] = @ \cup {t}]
        /\ order' = [order EXCEPT ![t] = Cardinality(Pushed) + 1]
        /\ state' = [state EXCEPT ![t] = "PENDING"]
        /\ stale' = stale \ {t}
        /\ accepted' = [accepted EXCEPT ![t] = "queued"]
    BY <1>1 DEF CreateTask, PushTask, SetTaskStatus
  <2>2. Cardinality(Pushed) \in Nat
    BY FS_CardinalityType DEF IInv, UnknownIsNowhere
  <2>3. Pushed' = Pushed \cup {t}
    <3>1. Cardinality(Pushed) + 1 \in Nat \ {0}
      BY <2>2
    <3>2. PICK n \in Nat \ {0} : order' = [order EXCEPT ![t] = n]
      BY <2>1, <3>1, Zenon
    <3>3. QED
      BY <3>2 DEF IInv, TypeOK, ServerTypeOK, Pushed
  <2>4. IsFiniteSet(Pushed')
    BY <2>3, FS_AddElement DEF IInv, UnknownIsNowhere
  <2>5. UnknownIsNowhere'
    <3>1. \A u \in Pushed' : accepted'[u] = "queued"
      BY <2>1, <2>3 DEF IInv, TypeOK, ServerTypeOK, UnknownIsNowhere
    <3>2. ASSUME NEW u \in Tasks, u \notin Pushed'
          PROVE  /\ accepted'[u] # "queued"
                 /\ u \notin taken'
                 /\ \A b \in Agents : u \notin queue'[b] /\ hb'[b] # u /\ u \notin taskQueue'[b]
      BY <1>0, <2>1, <2>3, <3>2 DEF IInv, TypeOK, ServerTypeOK, UnknownIsNowhere
    <3> QED BY <2>4, <3>1, <3>2 DEF UnknownIsNowhere
  <2>6. TypeOK'
    BY <1>0, <2>1, <2>2 DEF IInv, TypeOK, ServerTypeOK, AgentTypeOK, TaskStatus
  <2>7. WorkersAtTheirTask' /\ RunsOnce'
    BY <1>0, <2>1 DEF IInv, TypeOK, ServerTypeOK, UnknownIsNowhere, WorkersAtTheirTask, RunsOnce
  <2>8. QueuedIsPending' /\ StatusMatchesResult'
    BY <1>0, <2>1 DEF IInv, TypeOK, ServerTypeOK, UnknownIsNowhere, QueuedIsPending, StatusMatchesResult
  <2> QED
    BY <2>5, <2>6, <2>7, <2>8 DEF IInv
<1>2. CASE ~HasRoom(a)
  <2>1. accepted' = [accepted EXCEPT ![t] = "refused"] /\ UNCHANGED <<queue, order, state, stale>>
    BY <1>2 DEF CreateTask, PushTask
  <2>2. UnknownIsNowhere'
    BY <1>0, <2>1 DEF IInv, TypeOK, ServerTypeOK, UnknownIsNowhere, Pushed
  <2> QED
    BY <1>0, <2>1, <2>2 DEF IInv, TypeOK, ServerTypeOK, AgentTypeOK, WorkersAtTheirTask,
       RunsOnce, QueuedIsPending, StatusMatchesResult
<1>3. QED BY <1>1, <1>2

\* The cleanup fails waiting tasks and takes exactly these out of their queues.
LEMMA CleanupIInv ==
    ASSUME IInv, CleanupTimeoutTasks, UNCHANGED agentVars
    PROVE  IInv'
<1>1. UNCHANGED <<accepted, order, running, hb, taskQueue, phase, cur, outcome, try,
                  acked, net, taken>>
  BY DEF CleanupTimeoutTasks, agentVars, workerVars
<1>2. TypeOK'
  BY <1>1 DEF CleanupTimeoutTasks, IInv, TypeOK, ServerTypeOK, AgentTypeOK, TaskStatus
<1>3. WorkersAtTheirTask' /\ UnknownIsNowhere' /\ RunsOnce'
  BY <1>1 DEF CleanupTimeoutTasks, IInv, TypeOK, ServerTypeOK, WorkersAtTheirTask,
       UnknownIsNowhere, RunsOnce, Pushed
<1>4. QueuedIsPending' /\ StatusMatchesResult'
  BY <1>1 DEF CleanupTimeoutTasks, Overdue, Expired, IInv, TypeOK, ServerTypeOK,
       QueuedIsPending, StatusMatchesResult, Waiting, Terminal, GoodResult
<1>5. QED
  BY <1>2, <1>3, <1>4 DEF IInv

\* PopTask moves a task from its queue into the response (dest = TRUE) or, when
\* the response is lost, nowhere.
LEMMA PopTaskIInv ==
    ASSUME IInv, NEW a \in Agents, NEW t \in Tasks, PopTask(a, t),
           hb' = [hb EXCEPT ![a] = t] \/ hb' = hb,
           UNCHANGED <<running, taskQueue, phase, cur, outcome, try, acked, net, taken>>
    PROVE  IInv'
<1>1. /\ t \in queue[a] /\ state[t] = "PENDING"
      /\ queue' = [queue EXCEPT ![a] = @ \ {t}]
      /\ state' = [state EXCEPT ![t] = "DISPATCHED"]
      /\ stale' = stale \ {t}
      /\ UNCHANGED <<accepted, order, result>>
  BY DEF PopTask, IsFront, SetTaskStatus, IInv, QueuedIsPending
<1>2. TypeOK'
  BY <1>1 DEF IInv, TypeOK, ServerTypeOK, AgentTypeOK, TaskStatus
<1>3. WorkersAtTheirTask' /\ UnknownIsNowhere' /\ RunsOnce'
  BY <1>1 DEF IInv, TypeOK, ServerTypeOK, AgentTypeOK, WorkersAtTheirTask,
       UnknownIsNowhere, RunsOnce, Pushed
<1>4. QueuedIsPending' /\ StatusMatchesResult'
  BY <1>1 DEF IInv, TypeOK, ServerTypeOK, RunsOnce, QueuedIsPending,
       StatusMatchesResult, Waiting
<1>5. QED
  BY <1>2, <1>3, <1>4 DEF IInv

\* A served report changes only the entry of a task that was taken up, which
\* is in no queue.
LEMMA ServeIInv ==
    ASSUME IInv, NEW m \in net, Serve(m)
    PROVE  IInv'
<1>1. m \in Report /\ m.task \in Tasks /\ m.task \in taken
  BY DEF IInv, TypeOK, AgentTypeOK, WorkersAtTheirTask, Report
<1>2. acked' \in [Agents -> BOOLEAN]
  BY Zenon DEF Serve, Acknowledge, IInv, TypeOK, AgentTypeOK
<1>3. CASE m.body \in TaskResult /\ NotifyResult(m.task, m.body)
  <2>1. TypeOK'
    BY <1>1, <1>2, <1>3 DEF Serve, NotifyResult, SetTaskStatus, IInv, TypeOK,
         ServerTypeOK, AgentTypeOK, Report, TaskStatus, GoodResult, TaskResult
  <2>2. WorkersAtTheirTask' /\ UnknownIsNowhere' /\ RunsOnce'
    BY <1>1, <1>3 DEF Serve, NotifyResult, IInv, WorkersAtTheirTask,
         UnknownIsNowhere, RunsOnce, Pushed
  <2>3. QueuedIsPending' /\ StatusMatchesResult'
    BY <1>1, <1>3 DEF Serve, NotifyResult, SetTaskStatus, IInv, TypeOK, ServerTypeOK,
         RunsOnce, QueuedIsPending, StatusMatchesResult, TaskResult, GoodResult, Waiting
  <2>4. QED
    BY <2>1, <2>2, <2>3 DEF IInv
<1>4. CASE m.body \notin TaskResult /\ UpdateTaskStatus(m.task, m.body)
  <2>1. m.body \in {"RUNNING", "UPLOADING"}
    BY <1>1, <1>4 DEF Report
  <2>2. TypeOK'
    BY <1>1, <1>2, <1>4, <2>1 DEF Serve, UpdateTaskStatus, SetTaskStatus, IInv, TypeOK,
         ServerTypeOK, AgentTypeOK, TaskStatus
  <2>3. WorkersAtTheirTask' /\ UnknownIsNowhere' /\ RunsOnce'
    BY <1>1, <1>4 DEF Serve, UpdateTaskStatus, IInv, WorkersAtTheirTask,
         UnknownIsNowhere, RunsOnce, Pushed
  <2>4. QueuedIsPending' /\ StatusMatchesResult'
    BY <1>1, <1>4, <2>1 DEF Serve, UpdateTaskStatus, SetTaskStatus, IInv, TypeOK,
         ServerTypeOK, RunsOnce, QueuedIsPending, StatusMatchesResult, Waiting
  <2>5. QED
    BY <2>2, <2>3, <2>4 DEF IInv
<1>5. QED
  BY <1>3, <1>4 DEF Serve

\* The agent's steps leave the server alone: what they must keep is that a task
\* stays in one place and that reports are only about tasks taken up.
LEMMA AgentIInv ==
    ASSUME IInv, UNCHANGED serverVars,
           TypeOK', WorkersAtTheirTask', RunsOnce',
           \A t \in Tasks \ Pushed :
              /\ t \notin taken'
              /\ \A a \in Agents : hb'[a] # t /\ t \notin taskQueue'[a],
           taken \subseteq taken'
    PROVE  IInv'
<1>1. UnknownIsNowhere'
  BY DEF IInv, UnknownIsNowhere, Pushed, serverVars
<1>2. QueuedIsPending' /\ StatusMatchesResult'
  BY DEF IInv, QueuedIsPending, StatusMatchesResult, serverVars
<1>3. QED
  BY <1>1, <1>2 DEF IInv

\* A first attempt of a report on a task taken up.
LEMMA StartReportTypes ==
    ASSUME IInv, NEW a \in Agents, NEW t \in Tasks, NEW p \in Reporting,
           NEW r \in TaskResult \cup {NONE}, p = "report_result" => r # NONE,
           StartReport(a, p, t, r)
    PROVE  /\ phase' \in [Agents -> Phase]
           /\ cur' \in [Agents -> Tasks \cup {NONE}]
           /\ outcome' \in [Agents -> TaskResult \cup {NONE}]
           /\ try' \in [Agents -> 1..MaxTries]
           /\ acked' \in [Agents -> BOOLEAN]
           /\ net' \subseteq Report
           /\ \A m \in net' : m \in net \/ m.task = t
BY DEF StartReport, Body, IInv, TypeOK, AgentTypeOK, Report, Reporting, Phase,
       TaskResult, GoodResult

\* Taking a task up, to run it or to drain it, moves it from the agent's queue
\* to the worker.
LEMMA TakeUpIInv ==
    ASSUME IInv, NEW a \in Agents, NEW t \in Tasks, TakeTask(a, t) \/ DrainTask(a, t),
           UNCHANGED serverVars
    PROVE  IInv'
<1>1. PICK p \in Reporting, r \in TaskResult \cup {NONE} :
         (p = "report_result" => r # NONE) /\ StartReport(a, p, t, r)
  BY DEF TakeTask, DrainTask, Reporting, TaskResult
<1>2. /\ t \in taskQueue[a]
      /\ taskQueue' = [taskQueue EXCEPT ![a] = @ \ {t}]
      /\ taken' = taken \cup {t}
      /\ UNCHANGED <<running, hb>>
  BY DEF TakeTask, DrainTask, IsFront
<1>3. TypeOK'
  BY <1>1, <1>2, StartReportTypes DEF IInv, TypeOK, ServerTypeOK, AgentTypeOK, serverVars
<1>4. WorkersAtTheirTask'
  <2>1. \A m \in net' : m.task \in taken'
    BY <1>1, <1>2, StartReportTypes DEF IInv, WorkersAtTheirTask
  <2>2. QED
    BY <1>1, <1>2, <2>1 DEF StartReport, IInv, TypeOK, AgentTypeOK, WorkersAtTheirTask, Reporting
<1>5. RunsOnce'
  BY <1>1, <1>2 DEF StartReport, IInv, TypeOK, ServerTypeOK, AgentTypeOK, RunsOnce,
       WorkersAtTheirTask, serverVars
<1>6. QED
  BY <1>2, <1>3, <1>4, <1>5, AgentIInv DEF IInv, TypeOK, AgentTypeOK, UnknownIsNowhere

\* The worker goes on to its next report.
LEMMA WorkIInv ==
    ASSUME IInv, NEW a \in Agents,
           \/ \E ok \in BOOLEAN : Record(a, ok)
           \/ \E r \in TaskResult : Upload(a, r),
           UNCHANGED serverVars
    PROVE  IInv'
<1>1. cur[a] \in Tasks /\ cur[a] \in taken
  BY DEF Record, Upload, IInv, TypeOK, AgentTypeOK, WorkersAtTheirTask
<1>2. PICK p \in Reporting, r \in TaskResult \cup {NONE} :
         (p = "report_result" => r # NONE) /\ StartReport(a, p, cur[a], r)
  BY DEF Record, Upload, Reporting, TaskResult, GoodResult
<1>3. UNCHANGED <<running, hb, taskQueue, taken>>
  BY DEF Record, Upload
<1>4. TypeOK'
  BY <1>1, <1>2, <1>3, StartReportTypes DEF IInv, TypeOK, ServerTypeOK, AgentTypeOK, serverVars
<1>5. WorkersAtTheirTask'
  <2>1. \A m \in net' : m.task \in taken'
    BY <1>1, <1>2, <1>3, StartReportTypes DEF IInv, WorkersAtTheirTask
  <2>2. QED
    BY <1>1, <1>2, <1>3, <2>1 DEF StartReport, IInv, TypeOK, AgentTypeOK,
         WorkersAtTheirTask, Reporting
<1>6. RunsOnce'
  BY <1>1, <1>2, <1>3 DEF StartReport, IInv, TypeOK, AgentTypeOK, RunsOnce, serverVars
<1>7. QED
  BY <1>3, <1>4, <1>5, <1>6, AgentIInv DEF IInv, UnknownIsNowhere

\* A retry sends the request the worker already waits for once more.
LEMMA RetryIInv ==
    ASSUME IInv, NEW a \in Agents, ReportRetry(a), UNCHANGED serverVars
    PROVE  IInv'
<1> DEFINE m == [Request(a) EXCEPT !.try = try[a] + 1]
<1>1. m \in Report /\ m.task \in taken
  BY DEF ReportRetry, Request, Body, Report, IInv, TypeOK, AgentTypeOK,
       WorkersAtTheirTask, Reporting, TaskResult, GoodResult
<1>2. TypeOK'
  BY <1>1, SMTT(60) DEF ReportRetry, IInv, TypeOK, ServerTypeOK, AgentTypeOK, serverVars
<1>3. WorkersAtTheirTask'
  BY <1>1 DEF ReportRetry, IInv, WorkersAtTheirTask
<1>4. RunsOnce'
  BY DEF ReportRetry, IInv, RunsOnce, serverVars
<1>5. QED
  BY <1>2, <1>3, <1>4, AgentIInv DEF ReportRetry, IInv, UnknownIsNowhere

\* The response of a heartbeat reaches the queue, or is dropped there.
LEMMA PushToWorkerIInv ==
    ASSUME IInv, NEW a \in Agents, PushToWorker(a), UNCHANGED serverVars
    PROVE  IInv'
<1>1. TypeOK' /\ WorkersAtTheirTask'
  BY DEF PushToWorker, workerVars, IInv, TypeOK, ServerTypeOK, AgentTypeOK,
       WorkersAtTheirTask, serverVars
<1>2. RunsOnce'
  BY DEF PushToWorker, workerVars, IInv, TypeOK, AgentTypeOK, RunsOnce, serverVars
<1>3. QED
  BY <1>1, <1>2, AgentIInv DEF PushToWorker, IInv, TypeOK, AgentTypeOK, UnknownIsNowhere

\* Steps that put no task anywhere: heartbeats without a task, the end of a
\* report, shutdown, exit and start of the process.
LEMMA QuietIInv ==
    ASSUME IInv, NEW a \in Agents, UNCHANGED serverVars,
           \/ SendHeartbeat(a) \/ HeartbeatFails(a) \/ ReportReturns(a)
           \/ Shutdown(a) \/ AgentExit(a) \/ AgentStart(a)
    PROVE  IInv'
<1>1. TypeOK'
  <2>1. ServerTypeOK'
    BY DEF IInv, TypeOK, ServerTypeOK, serverVars
  <2>2. CASE ReportReturns(a)
    BY <2>1, <2>2 DEF ReportReturns, AfterReport, IInv, TypeOK, AgentTypeOK, Phase, Reporting
  <2>3. CASE AgentExit(a) \/ AgentStart(a)
    <3>1. running' \in [Agents -> BOOLEAN] /\ acked' \in [Agents -> BOOLEAN]
      BY <2>3, Zenon DEF AgentExit, AgentStart, IInv, TypeOK, AgentTypeOK
    <3>2. QED
      BY <2>1, <2>3, <3>1 DEF AgentExit, AgentStart, IInv, TypeOK, AgentTypeOK, Phase
  <2>4. CASE SendHeartbeat(a) \/ HeartbeatFails(a) \/ Shutdown(a)
    BY <2>1, <2>4 DEF SendHeartbeat, HeartbeatFails, Shutdown, workerVars, IInv, TypeOK,
         AgentTypeOK
  <2>5. QED
    BY <2>2, <2>3, <2>4
<1>2. WorkersAtTheirTask'
  BY DEF SendHeartbeat, HeartbeatFails, ReportReturns, Shutdown, AgentExit, AgentStart,
       AfterReport, workerVars, IInv, TypeOK, AgentTypeOK, WorkersAtTheirTask, Reporting
<1>3. RunsOnce' /\ taken' = taken
  BY DEF SendHeartbeat, HeartbeatFails, ReportReturns, Shutdown, AgentExit, AgentStart,
       workerVars, IInv, TypeOK, AgentTypeOK, RunsOnce, serverVars
<1>4. \A t \in Tasks \ Pushed : \A b \in Agents : hb'[b] # t /\ t \notin taskQueue'[b]
  BY DEF SendHeartbeat, HeartbeatFails, ReportReturns, Shutdown, AgentExit, AgentStart,
       workerVars, IInv, TypeOK, AgentTypeOK, UnknownIsNowhere
<1>5. QED
  BY <1>1, <1>2, <1>3, <1>4, AgentIInv DEF IInv, UnknownIsNowhere

\* Every step of the system preserves the invariant.
LEMMA NextIInv == IInv /\ [Next]_vars => IInv'
<1> SUFFICES ASSUME IInv, [Next]_vars PROVE IInv'
  OBVIOUS
<1>1. ASSUME NEW a \in Agents, NEW t \in Tasks, CreateTask(a, t), UNCHANGED agentVars
      PROVE  IInv'
  BY <1>1, CreateTaskIInv
<1>2. ASSUME NEW t \in Tasks, Elapse(t), UNCHANGED agentVars PROVE IInv'
  BY <1>2 DEF Elapse, agentVars, workerVars, IInv, TypeOK, ServerTypeOK, AgentTypeOK,
       WorkersAtTheirTask, UnknownIsNowhere, RunsOnce, QueuedIsPending,
       StatusMatchesResult, Pushed
<1>3. CASE CleanupTimeoutTasks /\ UNCHANGED agentVars
  BY <1>3, CleanupIInv
<1>4. ASSUME NEW a \in Agents, AgentStep(a) PROVE IInv'
  BY <1>4, QuietIInv, PushToWorkerIInv, TakeUpIInv, WorkIInv DEF AgentStep, ReportOk
<1>5. ASSUME NEW a \in Agents, HeartbeatIdle(a) PROVE IInv'
  <2>1. HeartbeatFails(a) /\ UNCHANGED serverVars
    BY <1>5 DEF HeartbeatIdle, HeartbeatFails, PopNothing
  <2>2. QED
    BY <2>1, QuietIInv
<1>6. ASSUME NEW a \in Agents, Deadline(a) PROVE IInv'
  BY <1>6, QuietIInv, RetryIInv DEF Deadline, ReportGivesUp
<1>7. ASSUME NEW a \in Agents, AgentFault(a) PROVE IInv'
  BY <1>7, QuietIInv DEF AgentFault
<1>8. ASSUME NEW a \in Agents, NEW t \in Tasks, HeartbeatDispatch(a, t) PROVE IInv'
  BY <1>8, PopTaskIInv DEF HeartbeatDispatch, workerVars
<1>9. ASSUME NEW a \in Agents, NEW t \in Tasks, LostResponse(a, t) PROVE IInv'
  BY <1>9, PopTaskIInv DEF LostResponse, agentVars, workerVars
<1>10. ASSUME NEW m \in net, Serve(m) PROVE IInv'
  BY <1>10, ServeIInv
<1>11. ASSUME NEW m \in net, LostRequest(m) PROVE IInv'
  BY <1>11 DEF LostRequest, serverVars, IInv, TypeOK, ServerTypeOK, AgentTypeOK,
       WorkersAtTheirTask, UnknownIsNowhere, RunsOnce, QueuedIsPending,
       StatusMatchesResult, Pushed
<1>12. CASE Restart
  BY <1>12 DEF Restart, ServerRestart, IInv, TypeOK, ServerTypeOK, AgentTypeOK,
       WorkersAtTheirTask, UnknownIsNowhere, RunsOnce, QueuedIsPending,
       StatusMatchesResult, Pushed, GoodResult, Waiting
<1>13. CASE UNCHANGED vars
  BY <1>13 DEF vars, serverVars, agentVars, workerVars, IInv, TypeOK, ServerTypeOK,
       AgentTypeOK, WorkersAtTheirTask, UnknownIsNowhere, RunsOnce, QueuedIsPending,
       StatusMatchesResult, Pushed
<1>14. QED
  BY <1>1, <1>2, <1>3, <1>4, <1>5, <1>6, <1>7, <1>8, <1>9, <1>10, <1>11, <1>12, <1>13
  DEF Next, ServerStep

\* The invariant holds in every reachable state.
LEMMA InvariantHolds == Spec => []IInv
BY InitIInv, NextIInv, PTL DEF Spec

-----------------------------------------------------------------------------
\* Every variable keeps its type.
THEOREM TypeCorrect == Spec => []TypeOK
<1>1. IInv => TypeOK
  BY DEF IInv
<1>2. QED
  BY <1>1, InvariantHolds, PTL

\* A task in a server queue is PENDING: a task declared FAILED is never handed
\* to an agent that comes back.
THEOREM NoFailedTaskIsQueued == Spec => []QueuedIsPending
<1>1. IInv => QueuedIsPending
  BY DEF IInv
<1>2. QED
  BY <1>1, InvariantHolds, PTL

\* No retry, lost reply, crash or restart makes a task run twice.
THEOREM NoTaskRunsTwice == Spec => []RunsOnce
<1>1. IInv => RunsOnce
  BY DEF IInv
<1>2. QED
  BY <1>1, InvariantHolds, PTL

\* Status and stored result never contradict each other.
THEOREM StatusAndResultAgree == Spec => []StatusMatchesResult
<1>1. IInv => StatusMatchesResult
  BY DEF IInv
<1>2. QED
  BY <1>1, InvariantHolds, PTL
=============================================================================
