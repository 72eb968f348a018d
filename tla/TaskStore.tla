------------------------------ MODULE TaskStore ------------------------------
(***************************************************************************)
(* The API server: the rows of hotmethod_task, their audit trail, and the  *)
(* goroutines that create a task and then poll drop_server for its result. *)
(* FetchData is served by drop_server under two locks, GetResult first and *)
(* GetTaskStatus after it; they read result and state of HotmethodService. *)
(*                                                                         *)
(* After the creation the row's status has one writer, the waiter of the   *)
(* task, so a read of the row and the transaction that follows it are one  *)
(* step; only a deletion can come between them, which makes the update a   *)
(* no-op.                                                                  *)
(***************************************************************************)
EXTENDS HotmethodService, Sequences

CONSTANT APIEvents  \* what can happen besides the normal course

APIEventKinds == {"dispatch_fails", "fetch_fails", "put_fails", "delete",
                  "api_crash"}

ASSUME APIEventsAssumption == APIEvents \subseteq APIEventKinds

VARIABLES
    row,        \* the row of the task: NONE, live, or (soft) deleted
    status,     \* its status column
    trail,      \* its rows of task_state_history: <<from, to>>, oldest first
    waiter,     \* where the goroutine at work on the task stands, NONE: nowhere
    reply,      \* the FetchData response it has got
    overdue,    \* the tasks whose waiter is past its deadline
    calls,      \* CreateTask requests sent to drop_server and not served yet
    stored,     \* tasks whose embedded result file is in object storage
    purging,    \* deleted tasks whose objects are still to be removed
    analysed    \* history: the tasks runAnalysis was started for

apiVars == <<row, status, trail, waiter, reply, overdue, calls, stored, purging, analysed>>

\* The constants TaskStatus... of const_enum.go that reach a row.
Code == [NEW |-> 0, RUNNING |-> 2, UPLOADING |-> 3, SUCCESS |-> 4, FAILED |-> 5]
RowStatus == {"NEW", "RUNNING", "UPLOADING", "SUCCESS", "FAILED"}
Final == {"SUCCESS", "FAILED"}

Waiter == {NONE, "recording", "calling", "failing", "polling", "get_result",
           "get_status", "reply", "finish"}
Reply == {NONE, "not_found"} \cup RowStatus \cup TaskResult

APITypeOK ==
    /\ row \in [Tasks -> {NONE, "live", "deleted"}]
    /\ status \in [Tasks -> RowStatus \cup {NONE}]
    /\ trail \in [Tasks -> Seq((RowStatus \cup {NONE}) \X RowStatus)]
    /\ waiter \in [Tasks -> Waiter]
    /\ reply \in [Tasks -> Reply]
    /\ overdue \subseteq Tasks
    /\ calls \subseteq Tasks
    /\ stored \subseteq Tasks
    /\ purging \subseteq Tasks
    /\ analysed \subseteq Tasks

APIInit ==
    /\ row = [t \in Tasks |-> NONE]
    /\ status = [t \in Tasks |-> NONE]
    /\ trail = [t \in Tasks |-> <<>>]
    /\ waiter = [t \in Tasks |-> NONE]
    /\ reply = [t \in Tasks |-> NONE]
    /\ overdue = {}
    /\ calls = {}
    /\ stored = {}
    /\ purging = {}
    /\ analysed = {}

-----------------------------------------------------------------------------
WaiterGoes(t, w) == waiter' = [waiter EXCEPT ![t] = w]

\* recordStateChange: an insert of its own, whatever became of the row.
RecordStateChange(t, from, to) ==
    trail' = [trail EXCEPT ![t] = Append(@, <<from, to>>)]

\* transitionTaskStatus: the row and its history in one transaction; nothing
\* when the row is deleted, no history when the status stays.
TransitionTaskStatus(t, s) ==
    IF row[t] = "live"
    THEN /\ status' = [status EXCEPT ![t] = s]
         /\ IF status[t] # s THEN RecordStateChange(t, status[t], s) ELSE UNCHANGED trail
    ELSE UNCHANGED <<status, trail>>

\* createTaskInternal inserts the row ...
CreateRow(t) ==
    /\ row[t] = NONE
    /\ row' = [row EXCEPT ![t] = "live"]
    /\ status' = [status EXCEPT ![t] = "NEW"]
    /\ WaiterGoes(t, "recording")
    /\ UNCHANGED <<trail, reply, overdue, calls, stored, purging, analysed>>

\* RetryTask does the same under a new id for a task that exists.
RetryTask(t, u) == row[t] = "live" /\ CreateRow(u)

\* ... records the creation and calls CreateTask of drop_server.
SendCreateTask(t) ==
    /\ waiter[t] = "recording"
    /\ RecordStateChange(t, NONE, "NEW")
    /\ calls' = calls \cup {t}
    /\ WaiterGoes(t, "calling")
    /\ UNCHANGED <<row, status, reply, overdue, stored, purging, analysed>>

\* The call succeeds: the waiter is started.
DispatchOk(t) ==
    /\ waiter[t] = "calling"
    /\ accepted[t] = "queued"
    /\ WaiterGoes(t, "polling")
    /\ UNCHANGED <<row, status, trail, reply, overdue, calls, stored, purging, analysed>>

\* The call fails (no connection, its deadline, a lost reply: the request may
\* have been or may still be served), or drop_server refuses the task: the
\* row becomes FAILED, and then the history is written.
DispatchFails(t) ==
    /\ waiter[t] = "calling"
    /\ accepted[t] = "refused" \/ "dispatch_fails" \in APIEvents
    /\ status' = IF row[t] = "live" THEN [status EXCEPT ![t] = "FAILED"] ELSE status
    /\ WaiterGoes(t, "failing")
    /\ UNCHANGED <<row, trail, reply, overdue, calls, stored, purging, analysed>>

RecordDispatchFailure(t) ==
    /\ waiter[t] = "failing"
    /\ RecordStateChange(t, "NEW", "FAILED")
    /\ WaiterGoes(t, NONE)
    /\ UNCHANGED <<row, status, reply, overdue, calls, stored, purging, analysed>>

-----------------------------------------------------------------------------
\* waitTaskResult.  Time passes the waiter's deadline, duration + 60 s.
DeadlinePasses(t) ==
    /\ waiter[t] \in {"polling", "get_result", "get_status", "reply"}
    /\ t \notin overdue
    /\ overdue' = overdue \cup {t}
    /\ UNCHANGED <<row, status, trail, waiter, reply, calls, stored, purging, analysed>>

\* Mutant: the deadline is only looked at when the call fails.
PollForever(t) ==
    /\ waiter[t] = "polling"
    /\ WaiterGoes(t, "get_result")
    /\ UNCHANGED <<row, status, trail, reply, overdue, calls, stored, purging, analysed>>

\* The loop calls FetchData before the deadline ...
Poll(t) ==
    /\ waiter[t] = "polling"
    /\ t \notin overdue
    /\ WaiterGoes(t, "get_result")
    /\ UNCHANGED <<row, status, trail, reply, overdue, calls, stored, purging, analysed>>

\* ... and gives the task up after it.
GiveUp(t) ==
    /\ waiter[t] = "polling"
    /\ t \in overdue
    /\ TransitionTaskStatus(t, "FAILED")
    /\ WaiterGoes(t, NONE)
    /\ UNCHANGED <<row, reply, overdue, calls, stored, purging, analysed>>

\* Mutant: a dispatched task counts as a running one.
NormalizeDispatchedAsRunning(s) ==
    CASE s = "PENDING"    -> "NEW"
      [] s = "DISPATCHED" -> "RUNNING"
      [] s = "DONE"       -> "SUCCESS"
      [] s = "TIMEOUT"    -> "FAILED"
      [] OTHER            -> s

\* PublicTaskStatus of drop_server and normalizeTaskStatus of the API server:
\* the internal statuses are folded into the public ones.
NormalizeTaskStatus(s) ==
    CASE s \in {"PENDING", "DISPATCHED"} -> "NEW"
      [] s = "DONE"                      -> "SUCCESS"
      [] s = "TIMEOUT"                   -> "FAILED"
      [] OTHER                           -> s

\* FetchData, first lock: a result is answered with.
GetResult(t) ==
    /\ waiter[t] = "get_result"
    /\ reply' = [reply EXCEPT ![t] = result[t]]
    /\ WaiterGoes(t, IF result[t] = NONE THEN "get_status" ELSE "reply")
    /\ UNCHANGED <<row, status, trail, overdue, calls, stored, purging, analysed>>

\* FetchData, second lock: without a result, "STATUS:n:reason" of the task.
GetTaskStatus(t) ==
    /\ waiter[t] = "get_status"
    /\ reply' = [reply EXCEPT ![t] = IF state[t] = NONE THEN "not_found"
                                     ELSE NormalizeTaskStatus(state[t])]
    /\ WaiterGoes(t, "reply")
    /\ UNCHANGED <<row, status, trail, overdue, calls, stored, purging, analysed>>

\* FetchData fails or its reply is lost: the loop goes on.
FetchFails(t) ==
    /\ "fetch_fails" \in APIEvents
    /\ waiter[t] \in {"get_result", "get_status"}
    /\ WaiterGoes(t, "polling")
    /\ UNCHANGED <<row, status, trail, reply, overdue, calls, stored, purging, analysed>>

\* Mutant: a FAILED of drop_server does not end the loop.
SyncDropTaskStatusGoesOn(t) ==
    /\ waiter[t] = "reply"
    /\ reply[t] \in RowStatus
    /\ TransitionTaskStatus(t, reply[t])
    /\ WaiterGoes(t, IF reply[t] = "SUCCESS" THEN NONE ELSE "polling")
    /\ UNCHANGED <<row, reply, overdue, calls, stored, purging, analysed>>

\* A status message: syncDropTaskStatus copies it, a final one ends the loop.
SyncDropTaskStatus(t) ==
    /\ waiter[t] = "reply"
    /\ reply[t] \in RowStatus
    /\ TransitionTaskStatus(t, reply[t])
    /\ WaiterGoes(t, IF reply[t] \in Final THEN NONE ELSE "polling")
    /\ UNCHANGED <<row, reply, overdue, calls, stored, purging, analysed>>

\* "Result not found" is no answer: the loop goes on until its deadline.
ResultNotFound(t) ==
    /\ waiter[t] = "reply"
    /\ reply[t] = "not_found"
    /\ WaiterGoes(t, "polling")
    /\ UNCHANGED <<row, status, trail, reply, overdue, calls, stored, purging, analysed>>

\* Mutant: an error of the storage is not looked at.
PersistIgnoringErrors(t, ok) ==
    /\ waiter[t] = "reply"
    /\ reply[t] \in TaskResult
    /\ ok \/ ("put_fails" \in APIEvents /\ reply[t] = "file")
    /\ stored' = IF ok /\ reply[t] = "file" THEN stored \cup {t} ELSE stored
    /\ WaiterGoes(t, "finish")
    /\ UNCHANGED <<row, status, trail, reply, overdue, calls, purging, analysed>>

\* A result: persistFetchedResultFile puts an embedded file into the object
\* storage; a failure to do so is an error like one the agent reports.
PersistFetchedResultFile(t, ok) ==
    /\ waiter[t] = "reply"
    /\ reply[t] \in TaskResult
    /\ ok \/ ("put_fails" \in APIEvents /\ reply[t] = "file")
    /\ stored' = IF ok /\ reply[t] = "file" THEN stored \cup {t} ELSE stored
    /\ reply' = IF ok THEN reply ELSE [reply EXCEPT ![t] = "error"]
    /\ WaiterGoes(t, "finish")
    /\ UNCHANGED <<row, status, trail, overdue, calls, purging, analysed>>

\* The status the waiter writes next: ensureTaskReached fills in RUNNING, and
\* UPLOADING before a SUCCESS.
NextStatus(t) ==
    CASE Code[status[t]] < Code["RUNNING"]                                 -> "RUNNING"
      [] reply[t] \in GoodResult /\ Code[status[t]] < Code["UPLOADING"] -> "UPLOADING"
      [] OTHER -> IF reply[t] \in GoodResult THEN "SUCCESS" ELSE "FAILED"

\* Mutant: the analysis is started however the task ended.
FinishAnalysesAll(t) ==
    /\ waiter[t] = "finish"
    /\ TransitionTaskStatus(t, NextStatus(t))
    /\ LET ends == row[t] # "live" \/ NextStatus(t) \in Final
       IN  /\ WaiterGoes(t, IF ends THEN NONE ELSE "finish")
           /\ analysed' = IF ends THEN analysed \cup {t} ELSE analysed
    /\ UNCHANGED <<row, reply, overdue, calls, stored, purging>>

\* One transaction of the end of waitTaskResult; the last one ends the waiter
\* and, on SUCCESS, starts runAnalysis.  A deleted row is not written.
Finish(t) ==
    /\ waiter[t] = "finish"
    /\ TransitionTaskStatus(t, NextStatus(t))
    /\ LET ends == row[t] # "live" \/ NextStatus(t) \in Final
       IN  /\ WaiterGoes(t, IF ends THEN NONE ELSE "finish")
           /\ analysed' = IF row[t] = "live" /\ NextStatus(t) = "SUCCESS"
                          THEN analysed \cup {t} ELSE analysed
    /\ UNCHANGED <<row, reply, overdue, calls, stored, purging>>

-----------------------------------------------------------------------------
\* DeleteTask: a soft delete that leaves the history, then the objects go.
DeleteTask(t) ==
    /\ "delete" \in APIEvents
    /\ row[t] = "live"
    /\ row' = [row EXCEPT ![t] = "deleted"]
    /\ purging' = purging \cup {t}
    /\ UNCHANGED <<status, trail, waiter, reply, overdue, calls, stored, analysed>>

PurgeObjects(t) ==
    /\ t \in purging
    /\ purging' = purging \ {t}
    /\ stored' = stored \ {t}
    /\ UNCHANGED <<row, status, trail, waiter, reply, overdue, calls, analysed>>

\* The process dies and starts again: goroutines are not resumed.
APICrash ==
    /\ "api_crash" \in APIEvents
    /\ waiter' = [t \in Tasks |-> NONE]
    /\ overdue' = {}
    /\ purging' = {}
    /\ UNCHANGED <<row, status, trail, reply, calls, stored, analysed>>

\* A step of the goroutine of task t.
WaiterStep(t) ==
    \/ SendCreateTask(t)
    \/ DispatchOk(t)
    \/ DispatchFails(t)
    \/ RecordDispatchFailure(t)
    \/ Poll(t)
    \/ GiveUp(t)
    \/ GetResult(t)
    \/ GetTaskStatus(t)
    \/ FetchFails(t)
    \/ SyncDropTaskStatus(t)
    \/ ResultNotFound(t)
    \/ \E ok \in BOOLEAN : PersistFetchedResultFile(t, ok)
    \/ Finish(t)

APIStep ==
    \/ \E t \in Tasks : CreateRow(t) \/ WaiterStep(t) \/ DeadlinePasses(t)
                           \/ DeleteTask(t) \/ PurgeObjects(t)
    \/ \E t, u \in Tasks : RetryTask(t, u)
    \/ APICrash
=============================================================================
