------------------------------ MODULE DropLink ------------------------------
(***************************************************************************)
(* drop_server and its agents together: the heartbeat that hands out tasks *)
(* and the reports that come back, over gRPC calls that can fail on either *)
(* side.  A request abandoned by its caller may still be served later: the *)
(* handlers never look at the deadline of the call.                        *)
(***************************************************************************)
EXTENDS HotmethodChannel

CONSTANT Faults     \* which of the faults below can happen

FaultKinds == {"deadline", "lost_request", "lost_response", "shutdown",
               "crash", "restart"}

ASSUME FaultsAssumption == Faults \subseteq FaultKinds

vars == <<serverVars, agentVars>>

Init == ServerInit /\ AgentInit

TypeOK == ServerTypeOK /\ AgentTypeOK

-----------------------------------------------------------------------------
\* Steps of the server that answer its clients, or of its cleanup thread.
ServerStep ==
    /\ \/ \E a \in Agents, t \in Tasks : CreateTask(a, t)
       \/ \E t \in Tasks : Elapse(t)
       \/ CleanupTimeoutTasks
    /\ UNCHANGED agentVars

\* Steps of an agent's own threads.
AgentStep(a) ==
    /\ \/ SendHeartbeat(a)
       \/ PushToWorker(a)
       \/ \E t \in Tasks : TakeTask(a, t) \/ DrainTask(a, t)
       \/ \E ok \in BOOLEAN : Record(a, ok)
       \/ \E r \in TaskResult : Upload(a, r)
       \/ ReportOk(a)
       \/ AgentExit(a)
       \/ phase[a] = "exited" /\ AgentStart(a)
    /\ UNCHANGED serverVars

\* The server answers a heartbeat; the response reaches the agent.
HeartbeatDispatch(a, t) ==
    /\ hb[a] = SENT
    /\ PopTask(a, t)
    /\ hb' = [hb EXCEPT ![a] = t]
    /\ UNCHANGED <<running, taskQueue, workerVars, taken>>

HeartbeatIdle(a) ==
    /\ hb[a] = SENT
    /\ PopNothing(a)
    /\ hb' = [hb EXCEPT ![a] = NONE]
    /\ UNCHANGED <<running, taskQueue, workerVars, taken>>

\* The reply of m reaches the worker that still waits for it.
Acknowledge(m) ==
    acked' = [a \in Agents |-> acked[a] \/ (phase[a] \in Reporting /\ Request(a) = m)]

\* The server serves a report.
Serve(m) ==
    /\ m \in net
    /\ \/ m.body \in TaskResult /\ NotifyResult(m.task, m.body)
       \/ m.body \notin TaskResult /\ UpdateTaskStatus(m.task, m.body)
    /\ net' = net \ {m}
    /\ Acknowledge(m)
    /\ UNCHANGED <<running, hb, taskQueue, phase, cur, outcome, try, taken>>

-----------------------------------------------------------------------------
\* A heartbeat is served but its response never arrives: the task it popped
\* is lost.  This includes a heartbeat served after its caller gave up.
LostResponse(a, t) ==
    /\ "lost_response" \in Faults
    /\ PopTask(a, t)
    /\ UNCHANGED agentVars

\* A report is lost on its way to the server.
LostRequest(m) ==
    /\ "lost_request" \in Faults
    /\ m \in net
    /\ net' = net \ {m}
    /\ UNCHANGED <<serverVars, running, hb, taskQueue, phase, cur, outcome, try,
                   acked, taken>>

\* A caller gives up on a call; the request stays where it is.
Deadline(a) ==
    /\ "deadline" \in Faults
    /\ HeartbeatFails(a) \/ ReportRetry(a) \/ ReportGivesUp(a)
    /\ UNCHANGED serverVars

AgentFault(a) ==
    /\ \/ "shutdown" \in Faults /\ Shutdown(a)
       \/ "crash" \in Faults /\ AgentStart(a)
    /\ UNCHANGED serverVars

\* drop_server restarts; the requests it had not served die with it.
Restart ==
    /\ "restart" \in Faults
    /\ ServerRestart
    /\ net' = {}
    /\ UNCHANGED <<running, hb, taskQueue, phase, cur, outcome, try, acked, taken>>

Next ==
    \/ ServerStep
    \/ \E a \in Agents : AgentStep(a) \/ HeartbeatIdle(a) \/ Deadline(a) \/ AgentFault(a)
    \/ \E a \in Agents, t \in Tasks : HeartbeatDispatch(a, t) \/ LostResponse(a, t)
    \/ \E m \in net : Serve(m) \/ LostRequest(m)
    \/ Restart

Spec == Init /\ [][Next]_vars

\* The cleanup thread runs every 10 s and time passes.
CleanupFairness ==
    /\ \A t \in Tasks : WF_vars(Elapse(t) /\ UNCHANGED agentVars)
    /\ WF_vars(CleanupTimeoutTasks /\ UNCHANGED agentVars)

\* The threads of a running agent and the server's handler threads go on.
WorkFairness ==
    /\ \A a \in Agents :
          /\ WF_vars(SendHeartbeat(a) /\ UNCHANGED serverVars)
          /\ WF_vars(PushToWorker(a) /\ UNCHANGED serverVars)
          /\ WF_vars(\E t \in Tasks : HeartbeatDispatch(a, t))
          /\ WF_vars(HeartbeatIdle(a))
          /\ WF_vars((\E t \in Tasks : TakeTask(a, t) \/ DrainTask(a, t)) /\ UNCHANGED serverVars)
          /\ WF_vars((\E ok \in BOOLEAN : Record(a, ok)) /\ UNCHANGED serverVars)
          /\ WF_vars((\E r \in TaskResult : Upload(a, r)) /\ UNCHANGED serverVars)
          /\ WF_vars(ReportOk(a) /\ UNCHANGED serverVars)
    /\ WF_vars(\E m \in net : Serve(m))

\* Time limits are seconds, local steps and delivered calls milliseconds: a
\* limit passes only when no idle worker has a task to take, no response waits
\* at an agent and no request at the server.
Prompt ==
    /\ net = {}
    /\ \A a \in Agents : hb[a] \in {NONE, SENT}
    /\ \A a \in Agents : phase[a] = "idle" => taskQueue[a] = {}

PromptSpec == Init /\ [][Next /\ (stale' \subseteq stale \/ Prompt)]_vars

CleanupSpec == Spec /\ CleanupFairness
FairSpec == Spec /\ CleanupFairness /\ WorkFairness

-----------------------------------------------------------------------------
\* A task that still waits in tasks_ is PENDING: what the cleanup declared
\* FAILED (or a restart forgot) is no longer handed to an agent that comes
\* back, and no late report of another task's worker touches a queued one.
QueuedIsPending ==
    \A a \in Agents : \A t \in queue[a] : state[t] = "PENDING"

\* A task is in one place only, and one that a worker has taken up is in no
\* queue and in no heartbeat response: no retry, lost reply, crash or restart
\* makes the profiler run twice for one task.
RunsOnce ==
    \A t \in Tasks :
        /\ t \in taken => \A a \in Agents :
                             t \notin queue[a] /\ hb[a] # t /\ t \notin taskQueue[a]
        /\ \A a, b \in Agents :
              /\ ~(t \in queue[a] /\ (hb[b] = t \/ t \in taskQueue[b]))
              /\ ~(hb[a] = t /\ t \in taskQueue[b])
              /\ a # b => /\ ~(t \in queue[a] /\ t \in queue[b])
                          /\ ~(hb[a] = t /\ hb[b] = t)
                          /\ ~(t \in taskQueue[a] /\ t \in taskQueue[b])
                          /\ ~(cur[a] = t /\ cur[b] = t)

\* The status and the stored result, which FetchData reads one after the
\* other, never contradict each other: DONE comes with a result that has
\* data, FAILED never does, and a task that waits has no result.
StatusMatchesResult ==
    \A t \in Tasks :
        /\ state[t] = "DONE" => result[t] \in GoodResult
        /\ state[t] = "FAILED" => result[t] \notin GoodResult
        /\ state[t] \in Waiting => result[t] = NONE
        /\ result[t] # NONE => t \in taken

\* The worker threads: a worker between two phases has its task, one that
\* reports a result has the result, and nothing is reported on a task that
\* nobody took up.
WorkersAtTheirTask ==
    /\ \A a \in Agents :
          /\ phase[a] \notin {"idle", "exited"} => cur[a] # NONE
          /\ phase[a] = "report_result" => outcome[a] # NONE
          /\ cur[a] # NONE => cur[a] \in taken
    /\ \A m \in net : m.task \in taken

\* A task id that was never queued is unknown everywhere, and only finitely
\* many have been queued.
UnknownIsNowhere ==
    /\ IsFiniteSet(Pushed)
    /\ \A t \in Tasks : t \notin Pushed =>
          /\ accepted[t] # "queued"
          /\ t \notin taken
          /\ \A a \in Agents : t \notin queue[a] /\ hb[a] # t /\ t \notin taskQueue[a]
    /\ \A t \in Pushed : accepted[t] = "queued"

\* The inductive invariant behind the theorems of DropLinkProofs.
IInv ==
    /\ TypeOK
    /\ WorkersAtTheirTask
    /\ UnknownIsNowhere
    /\ RunsOnce
    /\ QueuedIsPending
    /\ StatusMatchesResult

\* A task does not wait for ever, whatever is lost and whoever crashes: an
\* agent that never fetches it or never starts it leaves it to the cleanup.
WaitingEnds ==
    \A t \in Tasks : state[t] \in Waiting ~> state[t] \notin Waiting

\* When calls do not fail at the client, every queued task ends and stays
\* ended, also across a graceful shutdown and lost heartbeat responses.
EveryTaskSettles ==
    \A t \in Tasks : accepted[t] = "queued" ~> [](state[t] \in Terminal \cup {NONE})

\* When calls do not fail at the client, a task an agent has accepted is
\* answered by a result, also when the agent shuts down before it is run.
AcceptedIsAnswered ==
    \A t \in Tasks : (\E a \in Agents : t \in taskQueue[a]) ~> result[t] # NONE

\* The state diagram of DESIGN.md has no transition out of FAILED or DONE.
TerminalIsFinal ==
    [][\A t \in Tasks : state[t] \in Terminal => state'[t] \in {state[t], NONE}]_vars
=============================================================================
