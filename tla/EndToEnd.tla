------------------------------ MODULE EndToEnd ------------------------------
(***************************************************************************)
(* The life of a task from the API server's database through drop_server   *)
(* to an agent and back: TaskStore and DropLink, joined by the CreateTask  *)
(* and FetchData calls.                                                    *)
(***************************************************************************)
EXTENDS DropLink, TaskStore

allVars == <<vars, apiVars>>

InitAll == Init /\ APIInit

\* drop_server serves a CreateTask request, in time or after its caller left.
ServeCreateTask(a, t) ==
    /\ t \in calls
    /\ CreateTask(a, t)
    /\ calls' = calls \ {t}
    /\ UNCHANGED <<agentVars, row, status, trail, waiter, reply, overdue, stored,
                   purging, analysed>>

\* A CreateTask request whose caller gave up is never served.
LoseCreateTask(t) ==
    /\ "dispatch_fails" \in APIEvents
    /\ t \in calls
    /\ waiter[t] # "calling"
    /\ calls' = calls \ {t}
    /\ UNCHANGED <<vars, row, status, trail, waiter, reply, overdue, stored, purging,
                   analysed>>

\* The steps of DropLink, tasks being created by the API server only.
DropStep ==
    /\ \/ /\ (\E t \in Tasks : Elapse(t)) \/ CleanupTimeoutTasks
          /\ UNCHANGED agentVars
       \/ \E a \in Agents : AgentStep(a) \/ HeartbeatIdle(a) \/ Deadline(a) \/ AgentFault(a)
       \/ \E a \in Agents, t \in Tasks : HeartbeatDispatch(a, t) \/ LostResponse(a, t)
       \/ \E m \in net : Serve(m) \/ LostRequest(m)
       \/ Restart
    /\ UNCHANGED apiVars

NextAll ==
    \/ DropStep
    \/ APIStep /\ UNCHANGED vars
    \/ \E a \in Agents, t \in Tasks : ServeCreateTask(a, t)
    \/ \E t \in Tasks : LoseCreateTask(t)

SpecAll == InitAll /\ [][NextAll]_allVars

\* A user who creates or retries a task only once no other is waited for;
\* drop_server and the agent may still be at work on the earlier one.
RetrySpec ==
    InitAll /\ [][NextAll /\ (row' = row \/ \A t \in Tasks : waiter[t] = NONE)]_allVars

\* The waiter goroutines run, time passes and drop_server serves CreateTask.
WaiterFairness ==
    \A t \in Tasks :
        /\ WF_allVars(WaiterStep(t) /\ UNCHANGED vars)
        /\ WF_allVars(DeadlinePasses(t) /\ UNCHANGED vars)
        /\ WF_allVars(\E a \in Agents : ServeCreateTask(a, t))

WaiterSpec == SpecAll /\ WaiterFairness

-----------------------------------------------------------------------------
\* The status the audit trail of a task ends in.
Audited(t) == IF trail[t] = <<>> THEN NONE ELSE trail[t][Len(trail[t])][2]

\* The status a reader may rely on: the row's, except that a deleted row and
\* one between the two writes of the creation are told by the trail.
AuditedStatus(t) ==
    IF row[t] = "deleted" \/ waiter[t] \in {"recording", "failing"}
    THEN Audited(t) ELSE status[t]

Lifecycle == INSTANCE TaskLifecycle WITH
                 status <- [t \in Tasks |-> AuditedStatus(t)], trail <- trail

\* As long as the API server does not crash, rows and audit trail implement
\* TaskLifecycle: every change is recorded with the status it starts from,
\* and SUCCESS and FAILED are final, although drop_server's own status may
\* leave FAILED and may go back from UPLOADING to RUNNING.
ImplementsLifecycle == Lifecycle!Spec

\* A row tells the truth about the work: RUNNING, UPLOADING and SUCCESS are
\* only seen for a task that a worker took up, and SUCCESS only if it was
\* accepted by drop_server, even when drop_server restarted in between.
RowTellsTheTruth ==
    \A t \in Tasks : status[t] \in {"RUNNING", "UPLOADING", "SUCCESS"} => t \in taken

\* Analysis starts only for a SUCCESS whose artifact is in object storage,
\* put there by the agent or by the API server.
AnalysisHasInput ==
    \A t \in analysed : row[t] = "live" =>
        status[t] = "SUCCESS" /\ (reply[t] = "cos_key" \/ t \in stored)

\* Whatever is lost, whoever restarts (but the API server): the row of a task
\* ends in SUCCESS or FAILED, or the user deletes it.
RowSettles ==
    \A t \in Tasks : row[t] = "live" ~> (status[t] \in Final \/ row[t] = "deleted")

\* DESIGN.md: "Task DONE" leads to "APIServer runAnalysis".
SuccessIsAnalysed ==
    \A t \in Tasks :
        (row[t] = "live" /\ status[t] = "SUCCESS" /\ waiter[t] = NONE) => t \in analysed
=============================================================================
