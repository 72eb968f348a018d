--------------------------- MODULE EndToEndProofs ---------------------------
(***************************************************************************)
(* Theorems about EndToEnd, for any tasks, agents, limits, faults and      *)
(* events at the API server.                                               *)
(*                                                                         *)
(* drop_server and the agents take the steps of DropLink only, so that its *)
(* invariant IInv holds here too.  StoreInv adds what the API server keeps *)
(* true about one task; RowTellsTheTruth is not inductive because a status *)
(* is read from drop_server in one step and written to the row in a later  *)
(* one: StartedSaysSo says the same of the answer in between, and that it  *)
(* stays true while drop_server restarts and forgets the task.  TrailInv   *)
(* relates rows and trails, which two writes keep together, and makes the  *)
(* refinement of TaskLifecycle a matter of one record per step.            *)
(***************************************************************************)
EXTENDS EndToEnd, DropLinkProofs

USE MaxQueueAssumption, TasksAssumption, AgentAssumption
USE DEF NONE, SENT

\* A task whose worker has reported: taken up, and not waiting any more.
Started(t) == t \in taken /\ state[t] \notin Waiting

\* Where the waiter polls drop_server or works on its answer.
Fetching == {"polling", "get_result", "get_status", "reply", "finish"}

Underway == {"RUNNING", "UPLOADING", "SUCCESS"}

\* drop_server's status, the answer of FetchData and the row speak of work
\* only if a worker has reported.
StartedSaysSo(t) ==
    /\ state[t] \in {"RUNNING", "UPLOADING", "DONE"} => t \in taken
    /\ status[t] \in Underway => Started(t)
    /\ reply[t] \in Underway \cup TaskResult => Started(t)

\* The row, as long as a goroutine is at work on it: its status is not final,
\* and an answer NEW meets a row that is still NEW.
RowAndWaiter(t) ==
    /\ row[t] = NONE => waiter[t] = NONE /\ status[t] = NONE
    /\ waiter[t] \in {"recording", "calling"} => status[t] = "NEW"
    /\ waiter[t] \in Fetching => status[t] \in {"NEW", "RUNNING", "UPLOADING"}
    /\ waiter[t] = "reply" /\ reply[t] = "NEW" => status[t] = "NEW"
    /\ waiter[t] = "finish" => reply[t] \in TaskResult
    /\ row[t] = "live" /\ waiter[t] = "failing" => status[t] = "FAILED"

\* An embedded file is stored before the end of the waiter, only the objects
\* of deleted tasks are removed, and the waiter of an analysed task is gone.
ArtifactKept(t) ==
    /\ waiter[t] = "finish" /\ reply[t] = "file" /\ row[t] = "live" => t \in stored
    /\ t \in purging => row[t] = "deleted"
    /\ t \in analysed => row[t] # NONE /\ waiter[t] = NONE
    /\ t \in analysed /\ row[t] = "live" =>
          status[t] = "SUCCESS" /\ (reply[t] = "cos_key" \/ t \in stored)

StoreInvOf(t) == StartedSaysSo(t) /\ RowAndWaiter(t) /\ ArtifactKept(t)

\* The inductive invariant, beside IInv of DropLink.
StoreInv == APITypeOK /\ \A t \in Tasks : StoreInvOf(t)

-----------------------------------------------------------------------------
\* drop_server and its agents, as part of the whole, take only steps of
\* DropLink: what was proved of these holds here.
LEMMA StepIsDropStep == [NextAll]_allVars => [Next]_vars
<1>1. DropStep => Next
  BY DEF DropStep, Next, ServerStep
<1>2. ASSUME NEW a \in Agents, NEW t \in Tasks, ServeCreateTask(a, t) PROVE Next
  BY <1>2 DEF ServeCreateTask, Next, ServerStep, agentVars, workerVars
<1>3. ASSUME NEW t \in Tasks, LoseCreateTask(t) PROVE UNCHANGED vars
  BY <1>3 DEF LoseCreateTask
<1>4. QED
  BY <1>1, <1>2, <1>3 DEF NextAll, allVars

\* The invariant of drop_server and its agents holds in the whole system.
LEMMA DropInvariant == SpecAll => []IInv
<1>1. InitAll => Init
  BY DEF InitAll
<1>2. SpecAll => Spec
  BY <1>1, StepIsDropStep, PTL DEF SpecAll, Spec
<1>3. QED
  BY <1>2, InvariantHolds, PTL

\* A task that has started never waits again, and only the report of a worker
\* makes it RUNNING, UPLOADING or DONE.
LEMMA StartedForGood ==
    ASSUME IInv, [Next]_vars,
           \A t \in Tasks : state[t] \in {"RUNNING", "UPLOADING", "DONE"} => t \in taken
    PROVE  \A t \in Tasks : /\ state'[t] \in {"RUNNING", "UPLOADING", "DONE"} => t \in taken'
                            /\ Started(t) => Started(t)'
<1> DEFINE Goal == \A t \in Tasks : /\ state'[t] \in {"RUNNING", "UPLOADING", "DONE"} => t \in taken'
                                    /\ Started(t) => Started(t)'
<1>1. ASSUME NEW a \in Agents, NEW t \in Tasks, CreateTask(a, t), UNCHANGED agentVars
      PROVE  Goal
  <2>1. t \notin taken /\ taken' = taken
    BY <1>1 DEF CreateTask, IInv, UnknownIsNowhere, agentVars
  <2>2. state' = state \/ state' = [state EXCEPT ![t] = "PENDING"]
    BY <1>1 DEF CreateTask, PushTask, SetTaskStatus
  <2>3. QED
    BY <2>1, <2>2 DEF IInv, TypeOK, ServerTypeOK, Started
<1>2. CASE CleanupTimeoutTasks /\ UNCHANGED agentVars
  BY <1>2 DEF CleanupTimeoutTasks, agentVars, IInv, TypeOK, ServerTypeOK, Started, Waiting
<1>3. ASSUME NEW a \in Agents, NEW t \in Tasks, PopTask(a, t), taken' = taken PROVE Goal
  <2>1. t \in queue[a] /\ state' = [state EXCEPT ![t] = "DISPATCHED"]
    BY <1>3 DEF PopTask, IsFront, SetTaskStatus
  <2>2. t \notin taken
    BY <2>1 DEF IInv, RunsOnce
  <2>3. QED
    BY <1>3, <2>1, <2>2 DEF IInv, TypeOK, ServerTypeOK, Started
<1>4. ASSUME NEW m \in net, Serve(m) PROVE Goal
  <2>1. m \in Report /\ m.task \in taken /\ taken' = taken
    BY <1>4 DEF Serve, IInv, TypeOK, AgentTypeOK, WorkersAtTheirTask
  <2>2. PICK s \in {"RUNNING", "UPLOADING", "DONE", "FAILED"} : state' = [state EXCEPT ![m.task] = s]
    BY <1>4, <2>1 DEF Serve, NotifyResult, UpdateTaskStatus, SetTaskStatus, Report
  <2>3. QED
    BY <2>1, <2>2 DEF IInv, TypeOK, ServerTypeOK, Started, Waiting, Report
<1>5. CASE Restart
  BY <1>5 DEF Restart, ServerRestart, Started, Waiting
<1>6. CASE state' = state /\ taken \subseteq taken'
  BY <1>6 DEF Started
<1>7. ASSUME NEW t \in Tasks, Elapse(t), UNCHANGED agentVars PROVE Goal
  BY <1>6, <1>7 DEF Elapse, agentVars
<1>8. ASSUME NEW a \in Agents, AgentStep(a) \/ HeartbeatIdle(a) \/ Deadline(a) \/ AgentFault(a)
      PROVE  Goal
  <2>1. taken \subseteq taken'
    BY <1>8 DEF AgentStep, HeartbeatIdle, Deadline, AgentFault, SendHeartbeat, PushToWorker,
         TakeTask, DrainTask, Record, Upload, ReportOk, ReportReturns, AgentExit, AgentStart,
         HeartbeatFails, ReportRetry, ReportGivesUp, Shutdown
  <2>2. state' = state
    BY <1>8 DEF AgentStep, HeartbeatIdle, PopNothing, Deadline, AgentFault, serverVars
  <2>3. QED
    BY <1>6, <2>1, <2>2
<1>9. ASSUME NEW a \in Agents, NEW t \in Tasks, HeartbeatDispatch(a, t) \/ LostResponse(a, t)
      PROVE  Goal
  BY <1>3, <1>9 DEF HeartbeatDispatch, LostResponse, agentVars
<1>10. ASSUME NEW m \in net, LostRequest(m) PROVE Goal
  BY <1>6, <1>10 DEF LostRequest, serverVars
<1>11. CASE UNCHANGED vars
  BY <1>6, <1>11 DEF vars, serverVars, agentVars
<1>12. QED
  BY <1>1, <1>2, <1>4, <1>5, <1>7, <1>8, <1>9, <1>10, <1>11 DEF Next, ServerStep

-----------------------------------------------------------------------------
\* Initially the API server has no rows and no goroutines.
LEMMA InitStoreInv == InitAll => StoreInv
BY DEF InitAll, Init, ServerInit, APIInit, StoreInv, APITypeOK, StoreInvOf, StartedSaysSo,
       RowAndWaiter, ArtifactKept, Waiter, Reply, Underway, TaskResult, GoodResult, Fetching

\* Steps of drop_server and its agents leave the API server's tables and
\* goroutines alone.
LEMMA DropStoreInv ==
    ASSUME IInv, StoreInv, [Next]_vars,
           UNCHANGED <<row, status, trail, waiter, reply, stored, purging, analysed>>,
           overdue' \subseteq Tasks, calls' \subseteq Tasks
    PROVE  StoreInv'
<1>1. ASSUME NEW t \in Tasks PROVE StoreInvOf(t)'
  <2>1. StoreInvOf(t)
    BY DEF StoreInv
  <2>2. /\ state'[t] \in {"RUNNING", "UPLOADING", "DONE"} => t \in taken'
        /\ Started(t) => Started(t)'
    BY StartedForGood DEF StoreInv, StoreInvOf, StartedSaysSo
  <2>3. QED
    BY <2>1, <2>2 DEF StoreInvOf, StartedSaysSo, RowAndWaiter, ArtifactKept
<1>2. QED
  BY <1>1 DEF StoreInv, APITypeOK

\* A step leaves what the API server knows of task u.
Untouched(u) ==
    /\ row'[u] = row[u] /\ status'[u] = status[u] /\ waiter'[u] = waiter[u] /\ reply'[u] = reply[u]
    /\ u \in stored' <=> u \in stored
    /\ u \in purging' <=> u \in purging
    /\ u \in analysed' <=> u \in analysed

\* A step of the API server about one task keeps the invariant if it keeps it
\* for that task.
LEMMA OneTaskStoreInv ==
    ASSUME StoreInv, APITypeOK', UNCHANGED vars, NEW t \in Tasks,
           StartedSaysSo(t)', RowAndWaiter(t)', ArtifactKept(t)',
           \A u \in Tasks \ {t} : Untouched(u)
    PROVE  StoreInv'
<1>1. state' = state /\ taken' = taken
  BY DEF vars, serverVars, agentVars
<1>2. ASSUME NEW u \in Tasks \ {t} PROVE StoreInvOf(u)'
  <2>1. StoreInvOf(u)
    BY DEF StoreInv
  <2>2. QED
    BY <1>1, <2>1 DEF Untouched, StoreInvOf, StartedSaysSo, RowAndWaiter, ArtifactKept, Started
<1>3. QED
  BY <1>2 DEF StoreInv, StoreInvOf

\* A record of the trail: the trails of the other tasks stay, and this one
\* ends with the record.
LEMMA RecordTypes ==
    ASSUME APITypeOK, NEW t \in Tasks, NEW from \in RowStatus \cup {NONE}, NEW to \in RowStatus,
           RecordStateChange(t, from, to)
    PROVE  /\ trail' \in [Tasks -> Seq((RowStatus \cup {NONE}) \X RowStatus)]
           /\ trail' = [trail EXCEPT ![t] = Append(trail[t], <<from, to>>)]
           /\ trail'[t] # <<>>
           /\ trail'[t][Len(trail'[t])] = <<from, to>>
<1> DEFINE R == (RowStatus \cup {NONE}) \X RowStatus
           e == <<from, to>>
           q == Append(trail[t], e)
<1>1. trail \in [Tasks -> Seq(R)] /\ trail[t] \in Seq(R) /\ e \in R
  BY DEF APITypeOK
<1>2. trail' = [trail EXCEPT ![t] = q]
  BY DEF RecordStateChange
<1> HIDE DEF R, e
<1>3. q \in Seq(R) /\ q # <<>> /\ q[Len(q)] = e
  BY <1>1
<1> HIDE DEF q
<1>4. trail' \in [Tasks -> Seq(R)] /\ trail'[t] = q
  BY <1>1, <1>2, <1>3
<1>5. QED
  BY <1>2, <1>3, <1>4 DEF R, e, q

\* transitionTaskStatus keeps the types of rows and trails.
LEMMA TransitionTypes ==
    ASSUME APITypeOK, NEW t \in Tasks, NEW s \in RowStatus, TransitionTaskStatus(t, s)
    PROVE  /\ status' \in [Tasks -> RowStatus \cup {NONE}]
           /\ trail' \in [Tasks -> Seq((RowStatus \cup {NONE}) \X RowStatus)]
           /\ status'[t] = IF row[t] = "live" THEN s ELSE status[t]
           /\ \A u \in Tasks \ {t} : status'[u] = status[u]
<1>1. trail' = trail \/ RecordStateChange(t, status[t], s)
  BY DEF TransitionTaskStatus
<1>2. status[t] \in RowStatus \cup {NONE} /\ trail \in [Tasks -> Seq((RowStatus \cup {NONE}) \X RowStatus)]
  BY DEF APITypeOK
<1>3. trail' \in [Tasks -> Seq((RowStatus \cup {NONE}) \X RowStatus)]
  BY <1>1, <1>2, RecordTypes
<1>4. QED
  BY <1>3, ZenonT(60) DEF TransitionTaskStatus, APITypeOK

\* The creation of a row, by the user or by a retry.
LEMMA CreateRowStoreInv ==
    ASSUME StoreInv, UNCHANGED vars, NEW t \in Tasks, CreateRow(t)
    PROVE  StoreInv'
<1>1. StoreInvOf(t)
  BY DEF StoreInv
<1>2. state' = state /\ taken' = taken
  BY DEF vars, serverVars, agentVars
<1>3. APITypeOK'
  BY DEF CreateRow, WaiterGoes, StoreInv, APITypeOK, RowStatus, Waiter
<1>4. StartedSaysSo(t)' /\ RowAndWaiter(t)' /\ ArtifactKept(t)'
  BY <1>1, <1>2 DEF CreateRow, WaiterGoes, StoreInv, APITypeOK, StoreInvOf, StartedSaysSo,
       RowAndWaiter, ArtifactKept, Started, Underway, Fetching
<1>5. \A u \in Tasks \ {t} : Untouched(u)
  BY DEF CreateRow, WaiterGoes, StoreInv, APITypeOK, Untouched
<1>6. QED
  BY <1>3, <1>4, <1>5, OneTaskStoreInv

\* The goroutine creates the task at drop_server.
LEMMA DispatchStoreInv ==
    ASSUME StoreInv, UNCHANGED vars, NEW t \in Tasks,
           \/ SendCreateTask(t) \/ DispatchOk(t) \/ DispatchFails(t) \/ RecordDispatchFailure(t)
    PROVE  StoreInv'
<1>1. StoreInvOf(t)
  BY DEF StoreInv
<1>2. state' = state /\ taken' = taken
  BY DEF vars, serverVars, agentVars
<1>3. APITypeOK'
  <2>1. trail' \in [Tasks -> Seq((RowStatus \cup {NONE}) \X RowStatus)]
    BY RecordTypes DEF SendCreateTask, DispatchOk, DispatchFails, RecordDispatchFailure, StoreInv,
         APITypeOK, RowStatus
  <2>2. waiter' \in [Tasks -> Waiter]
    BY DEF SendCreateTask, DispatchOk, DispatchFails, RecordDispatchFailure, WaiterGoes,
         StoreInv, APITypeOK, Waiter
  <2>3. status' \in [Tasks -> RowStatus \cup {NONE}]
    BY DEF SendCreateTask, DispatchOk, DispatchFails, RecordDispatchFailure, StoreInv,
         APITypeOK, RowStatus
  <2>4. /\ UNCHANGED <<row, reply, overdue, stored, purging, analysed>>
        /\ calls' = calls \/ calls' = calls \cup {t}
    BY Zenon DEF SendCreateTask, DispatchOk, DispatchFails, RecordDispatchFailure
  <2>5. QED
    BY <2>1, <2>2, <2>3, <2>4, SMTT(60) DEF StoreInv, APITypeOK
<1>4. StartedSaysSo(t)' /\ RowAndWaiter(t)' /\ ArtifactKept(t)'
  BY <1>1, <1>2 DEF SendCreateTask, DispatchOk, DispatchFails, RecordDispatchFailure,
       WaiterGoes, StoreInv, APITypeOK, StoreInvOf, StartedSaysSo,
       RowAndWaiter, ArtifactKept, Started, Underway, Fetching
<1>5. \A u \in Tasks \ {t} : Untouched(u)
  BY DEF SendCreateTask, DispatchOk, DispatchFails, RecordDispatchFailure, WaiterGoes, StoreInv,
       APITypeOK, Untouched
<1>6. QED
  BY <1>3, <1>4, <1>5, OneTaskStoreInv

\* The waiter polls: it calls FetchData, and reads the result and the status.
LEMMA FetchStoreInv ==
    ASSUME IInv, StoreInv, UNCHANGED vars, NEW t \in Tasks,
           \/ DeadlinePasses(t) \/ Poll(t) \/ GetResult(t) \/ GetTaskStatus(t) \/ FetchFails(t)
           \/ ResultNotFound(t)
    PROVE  StoreInv'
<1>1. StoreInvOf(t)
  BY DEF StoreInv
<1>2. state' = state /\ taken' = taken
  BY DEF vars, serverVars, agentVars
<1>3. state[t] # NONE => /\ NormalizeTaskStatus(state[t]) \in RowStatus
                         /\ NormalizeTaskStatus(state[t]) = "NEW" => state[t] \in Waiting
                         /\ NormalizeTaskStatus(state[t]) \in Underway => Started(t)
  BY <1>1 DEF NormalizeTaskStatus, IInv, TypeOK, ServerTypeOK, TaskStatus, RowStatus, Waiting,
       Underway, StoreInvOf, StartedSaysSo, Started
<1>4. result[t] \in TaskResult => Started(t)
  BY DEF IInv, TypeOK, ServerTypeOK, StatusMatchesResult, Started, TaskResult, GoodResult
<1>5. APITypeOK'
  <2>1. PICK r \in Reply : reply' = reply \/ reply' = [reply EXCEPT ![t] = r]
    <3>1. result[t] \in Reply
      BY DEF Reply, IInv, TypeOK, ServerTypeOK
    <3>2. (IF state[t] = NONE THEN "not_found" ELSE NormalizeTaskStatus(state[t])) \in Reply
      BY <1>3 DEF Reply
    <3>3. QED
      BY <3>1, <3>2, Zenon DEF DeadlinePasses, Poll, GetResult, GetTaskStatus, FetchFails, ResultNotFound
  <2>2. reply' \in [Tasks -> Reply]
    BY <2>1 DEF StoreInv, APITypeOK
  <2>3. waiter' \in [Tasks -> Waiter]
    BY DEF DeadlinePasses, Poll, GetResult, GetTaskStatus, FetchFails, ResultNotFound,
         WaiterGoes, StoreInv, APITypeOK, Waiter
  <2>4. /\ UNCHANGED <<row, status, trail, calls, stored, purging, analysed>>
        /\ overdue' \subseteq Tasks
    BY DEF DeadlinePasses, Poll, GetResult, GetTaskStatus, FetchFails, ResultNotFound, StoreInv,
         APITypeOK
  <2>5. QED
    BY <2>2, <2>3, <2>4 DEF StoreInv, APITypeOK
<1>6. StartedSaysSo(t)' /\ RowAndWaiter(t)' /\ ArtifactKept(t)'
  <2>1. CASE GetResult(t)
    BY <1>1, <1>2, <1>4, <2>1 DEF GetResult,
       WaiterGoes, StoreInv, APITypeOK, StoreInvOf, StartedSaysSo,
       RowAndWaiter, ArtifactKept, Started, Underway, Fetching, TaskResult, GoodResult,
       IInv, TypeOK, ServerTypeOK
  <2>2. CASE GetTaskStatus(t)
    BY <1>1, <1>2, <1>3, <2>2 DEF GetTaskStatus,
       WaiterGoes, StoreInv, APITypeOK, StoreInvOf, StartedSaysSo,
       RowAndWaiter, ArtifactKept, Started, Underway, Fetching, RowStatus, TaskResult, GoodResult
  <2>3. CASE DeadlinePasses(t) \/ Poll(t) \/ FetchFails(t) \/ ResultNotFound(t)
    BY <1>1, <1>2, <2>3 DEF DeadlinePasses, Poll, FetchFails, ResultNotFound,
       WaiterGoes, StoreInv, APITypeOK, StoreInvOf, StartedSaysSo,
       RowAndWaiter, ArtifactKept, Started, Underway, Fetching
  <2>4. QED BY <2>1, <2>2, <2>3
<1>7. \A u \in Tasks \ {t} : Untouched(u)
  BY DEF DeadlinePasses, Poll, GetResult, GetTaskStatus, FetchFails, ResultNotFound, WaiterGoes,
       StoreInv, APITypeOK, Untouched
<1>8. QED
  BY <1>5, <1>6, <1>7, OneTaskStoreInv

\* The waiter ends: past its deadline, on a final status, or on a result.
LEMMA EndStoreInv ==
    ASSUME IInv, StoreInv, UNCHANGED vars, NEW t \in Tasks,
           \/ GiveUp(t) \/ SyncDropTaskStatus(t) \/ Finish(t)
           \/ \E ok \in BOOLEAN : PersistFetchedResultFile(t, ok)
    PROVE  StoreInv'
<1>1. StoreInvOf(t) /\ APITypeOK
  BY DEF StoreInv
<1>2. state' = state /\ taken' = taken
  BY DEF vars, serverVars, agentVars
<1>3. waiter[t] \in Fetching /\ status[t] \in {"NEW", "RUNNING", "UPLOADING"}
  BY <1>1 DEF GiveUp, SyncDropTaskStatus, Finish, PersistFetchedResultFile, Fetching, StoreInvOf,
       RowAndWaiter
<1>4. t \notin analysed /\ row[t] # NONE
  BY <1>1, <1>3 DEF Fetching, StoreInvOf, RowAndWaiter, ArtifactKept
<1>5. CASE GiveUp(t)
  <2>1. APITypeOK'
    BY <1>1, <1>3, <1>5, TransitionTypes DEF GiveUp, WaiterGoes, APITypeOK, RowStatus, Waiter
  <2>2. StartedSaysSo(t)' /\ RowAndWaiter(t)' /\ ArtifactKept(t)'
    BY <1>1, <1>2, <1>3, <1>4, <1>5, TransitionTypes DEF GiveUp, WaiterGoes, APITypeOK, StoreInvOf,
       StartedSaysSo, RowAndWaiter, ArtifactKept, Started, Underway, Fetching, RowStatus
  <2>3. \A u \in Tasks \ {t} : Untouched(u)
    BY <1>1, <1>5, TransitionTypes DEF GiveUp, WaiterGoes, APITypeOK, RowStatus, Untouched
  <2>4. QED
    BY <2>1, <2>2, <2>3, OneTaskStoreInv
<1>6. CASE SyncDropTaskStatus(t)
  <2>1. APITypeOK'
    BY <1>1, <1>3, <1>6, TransitionTypes DEF SyncDropTaskStatus, WaiterGoes, APITypeOK, RowStatus, Waiter
  <2>2. StartedSaysSo(t)' /\ RowAndWaiter(t)' /\ ArtifactKept(t)'
    BY <1>1, <1>2, <1>3, <1>4, <1>6, TransitionTypes DEF SyncDropTaskStatus, WaiterGoes, APITypeOK, StoreInvOf,
       StartedSaysSo, RowAndWaiter, ArtifactKept, Started, Underway, Fetching, RowStatus, Final
  <2>3. \A u \in Tasks \ {t} : Untouched(u)
    BY <1>1, <1>6, TransitionTypes DEF SyncDropTaskStatus, WaiterGoes, APITypeOK, RowStatus, Untouched
  <2>4. QED
    BY <2>1, <2>2, <2>3, OneTaskStoreInv
<1>7. CASE \E ok \in BOOLEAN : PersistFetchedResultFile(t, ok)
  <2>1. APITypeOK'
    BY <1>1, <1>7 DEF PersistFetchedResultFile, WaiterGoes, APITypeOK, Reply, Waiter, TaskResult
  <2>2. StartedSaysSo(t)' /\ RowAndWaiter(t)' /\ ArtifactKept(t)'
    BY <1>1, <1>2, <1>3, <1>4, <1>7 DEF PersistFetchedResultFile, WaiterGoes, APITypeOK, StoreInvOf,
       StartedSaysSo, RowAndWaiter, ArtifactKept, Started, Underway, Fetching, TaskResult, GoodResult
  <2>3. \A u \in Tasks \ {t} : Untouched(u)
    BY <1>1, <1>7 DEF PersistFetchedResultFile, WaiterGoes, APITypeOK, Untouched
  <2>4. QED
    BY <2>1, <2>2, <2>3, OneTaskStoreInv
<1>8. CASE Finish(t)
  <2>1. /\ NextStatus(t) \in {"RUNNING", "UPLOADING", "SUCCESS", "FAILED"}
        /\ NextStatus(t) = "SUCCESS" => reply[t] \in GoodResult
        /\ reply[t] \in TaskResult
    BY <1>1, <1>3, <1>8 DEF Finish, NextStatus, Code, StoreInvOf, RowAndWaiter
  <2>2. APITypeOK'
    BY <1>1, <1>3, <1>8, <2>1, TransitionTypes DEF Finish, WaiterGoes, APITypeOK, RowStatus, Waiter
  <2>3. StartedSaysSo(t)' /\ RowAndWaiter(t)' /\ ArtifactKept(t)'
    BY <1>1, <1>2, <1>3, <1>4, <1>8, <2>1, TransitionTypes DEF Finish, WaiterGoes, APITypeOK, StoreInvOf,
       StartedSaysSo, RowAndWaiter, ArtifactKept, Started, Underway, Fetching, RowStatus, Final, GoodResult
  <2>4. \A u \in Tasks \ {t} : Untouched(u)
    BY <1>1, <1>8, <2>1, TransitionTypes DEF Finish, WaiterGoes, APITypeOK, RowStatus, Untouched
  <2>5. QED
    BY <2>2, <2>3, <2>4, OneTaskStoreInv
<1>9. QED
  BY <1>5, <1>6, <1>7, <1>8

\* The user deletes a task, and its objects go.
LEMMA DeleteStoreInv ==
    ASSUME StoreInv, UNCHANGED vars, NEW t \in Tasks, DeleteTask(t) \/ PurgeObjects(t)
    PROVE  StoreInv'
<1>1. StoreInvOf(t)
  BY DEF StoreInv
<1>2. state' = state /\ taken' = taken
  BY DEF vars, serverVars, agentVars
<1>3. APITypeOK'
  BY DEF DeleteTask, PurgeObjects, StoreInv, APITypeOK
<1>4. StartedSaysSo(t)' /\ RowAndWaiter(t)' /\ ArtifactKept(t)'
  BY <1>1, <1>2 DEF DeleteTask, PurgeObjects, StoreInv, APITypeOK, StoreInvOf, StartedSaysSo,
       RowAndWaiter, ArtifactKept, Started
<1>5. \A u \in Tasks \ {t} : Untouched(u)
  BY DEF DeleteTask, PurgeObjects, StoreInv, APITypeOK, Untouched
<1>6. QED
  BY <1>3, <1>4, <1>5, OneTaskStoreInv

\* A crash ends the goroutines and leaves the tables.
LEMMA CrashStoreInv ==
    ASSUME StoreInv, UNCHANGED vars, APICrash
    PROVE  StoreInv'
<1>1. APITypeOK'
  BY DEF APICrash, StoreInv, APITypeOK, Waiter
<1>2. ASSUME NEW t \in Tasks PROVE StoreInvOf(t)'
  BY DEF APICrash, vars, serverVars, agentVars, StoreInv, StoreInvOf, StartedSaysSo, RowAndWaiter,
       ArtifactKept, Started, Fetching
<1>3. QED
  BY <1>1, <1>2 DEF StoreInv

\* Every step of the whole keeps the invariant.
LEMMA NextStoreInv == IInv /\ StoreInv /\ [NextAll]_allVars => StoreInv'
<1> SUFFICES ASSUME IInv, StoreInv, [NextAll]_allVars PROVE StoreInv'
  OBVIOUS
<1>1. [Next]_vars
  BY StepIsDropStep
<1>2. CASE DropStep \/ UNCHANGED allVars
  BY <1>1, <1>2, DropStoreInv DEF DropStep, allVars, apiVars, StoreInv, APITypeOK
<1>3. ASSUME NEW a \in Agents, NEW t \in Tasks, ServeCreateTask(a, t) PROVE StoreInv'
  BY <1>1, <1>3, DropStoreInv DEF ServeCreateTask, StoreInv, APITypeOK
<1>4. ASSUME NEW t \in Tasks, LoseCreateTask(t) PROVE StoreInv'
  BY <1>1, <1>4, DropStoreInv DEF LoseCreateTask, StoreInv, APITypeOK
<1>5. CASE APIStep /\ UNCHANGED vars
  BY <1>5, CreateRowStoreInv, DispatchStoreInv, FetchStoreInv, EndStoreInv, DeleteStoreInv, CrashStoreInv
     DEF APIStep, WaiterStep, RetryTask
<1>6. QED
  BY <1>2, <1>3, <1>4, <1>5 DEF NextAll

\* The API server's invariant holds in every reachable state.
LEMMA StoreInvariantHolds == SpecAll => []StoreInv
BY InitStoreInv, NextStoreInv, DropInvariant, PTL DEF SpecAll

-----------------------------------------------------------------------------
\* A row says RUNNING, UPLOADING or SUCCESS only of a task that a worker took
\* up, whatever is lost, restarted, crashed or deleted.
THEOREM RowsTellTheTruth == SpecAll => []RowTellsTheTruth
<1>1. StoreInv => RowTellsTheTruth
  BY DEF StoreInv, StoreInvOf, StartedSaysSo, RowTellsTheTruth, Started, Underway
<1>2. QED
  BY <1>1, StoreInvariantHolds, PTL

\* An analysis is started only for a SUCCESS whose artifact is in the object
\* storage, and it stays there as long as the task is not deleted.
THEOREM AnalysesHaveInput == SpecAll => []AnalysisHasInput
<1>1. StoreInv => AnalysisHasInput
  BY DEF StoreInv, APITypeOK, StoreInvOf, ArtifactKept, AnalysisHasInput
<1>2. QED
  BY <1>1, StoreInvariantHolds, PTL

-----------------------------------------------------------------------------
(* The refinement: rows and trails implement TaskLifecycle.                *)

\* The trail of a task ends in the status of its row, but between the two
\* writes of a creation and of a failed dispatch, and once it is deleted.
TrailMatches(t) ==
    /\ waiter[t] = "recording" \/ row[t] = NONE => trail[t] = <<>>
    /\ waiter[t] \in {"calling", "failing"} => Audited(t) = "NEW"
    /\ row[t] = "live" /\ waiter[t] \notin {"recording", "failing"} => Audited(t) = status[t]

TrailInv == \A t \in Tasks : TrailMatches(t)

\* A transition that TaskLifecycle allows, written to the trail.
Audits(t, s) ==
    /\ RecordStateChange(t, Audited(t), s)
    /\ \/ Audited(t) = NONE /\ s = "NEW"
       \/ Audited(t) \in {"NEW", "RUNNING", "UPLOADING"} /\ s \in RowStatus \ {"NEW", Audited(t)}

\* Where the trail ends after a record.
LEMMA AuditedAfterRecord ==
    ASSUME APITypeOK, NEW t \in Tasks, NEW from \in RowStatus \cup {NONE}, NEW s \in RowStatus,
           RecordStateChange(t, from, s)
    PROVE  /\ Audited(t)' = s
           /\ \A u \in Tasks \ {t} : trail'[u] = trail[u] /\ Audited(u)' = Audited(u)
<1>1. /\ trail'[t] # <<>>
      /\ trail'[t][Len(trail'[t])] = <<from, s>>
      /\ trail' = [trail EXCEPT ![t] = Append(trail[t], <<from, s>>)]
  BY RecordTypes
<1>2. \A u \in Tasks \ {t} : trail'[u] = trail[u]
  BY <1>1, Zenon DEF APITypeOK
<1>3. QED
  BY <1>1, <1>2 DEF Audited

\* A step about one task, that may write its trail.
LEMMA OneTaskTrail ==
    ASSUME TrailInv, NEW t \in Tasks, TrailMatches(t)',
           \A u \in Tasks \ {t} : Untouched(u) /\ trail'[u] = trail[u]
    PROVE  TrailInv'
BY DEF TrailInv, TrailMatches, Untouched, Audited

\* Without a crash of the API server, a step writes at most one record, from
\* the status the trail ended in.
LEMMA CreationTrail ==
    ASSUME StoreInv, TrailInv, NEW t \in Tasks,
           \/ CreateRow(t) \/ SendCreateTask(t) \/ DispatchOk(t) \/ DispatchFails(t)
           \/ RecordDispatchFailure(t)
    PROVE  TrailInv' /\ (trail' = trail \/ \E s \in RowStatus : Audits(t, s))
<1>1. StoreInvOf(t) /\ TrailMatches(t) /\ APITypeOK
  BY DEF StoreInv, TrailInv
<1>2. \A u \in Tasks \ {t} : Untouched(u)
  BY <1>1 DEF CreateRow, SendCreateTask, DispatchOk, DispatchFails, RecordDispatchFailure,
       WaiterGoes, APITypeOK, Untouched
<1>3. CASE CreateRow(t) \/ DispatchOk(t) \/ DispatchFails(t)
  <2>1. trail' = trail
    BY <1>3 DEF CreateRow, DispatchOk, DispatchFails
  <2>2. TrailMatches(t)'
    BY <1>1, <1>3, <2>1 DEF CreateRow, DispatchOk, DispatchFails, WaiterGoes, APITypeOK, Audited,
         StoreInvOf, RowAndWaiter, TrailMatches
  <2>3. QED
    BY <1>2, <2>1, <2>2, OneTaskTrail
<1>4. CASE SendCreateTask(t)
  <2>1. Audited(t) = NONE /\ RecordStateChange(t, NONE, "NEW")
    BY <1>1, <1>4 DEF SendCreateTask, TrailMatches, Audited
  <2>2. /\ Audited(t)' = "NEW"
        /\ \A u \in Tasks \ {t} : trail'[u] = trail[u]
    BY <1>1, <2>1, AuditedAfterRecord DEF RowStatus
  <2>3. TrailMatches(t)'
    BY <1>1, <1>4, <2>2 DEF SendCreateTask, WaiterGoes, APITypeOK, StoreInvOf, RowAndWaiter,
         TrailMatches
  <2>4. QED
    BY <1>2, <2>1, <2>2, <2>3, OneTaskTrail DEF Audits, RowStatus
<1>5. CASE RecordDispatchFailure(t)
  <2>1. Audited(t) = "NEW" /\ RecordStateChange(t, "NEW", "FAILED")
    BY <1>1, <1>5 DEF RecordDispatchFailure, TrailMatches
  <2>2. /\ Audited(t)' = "FAILED"
        /\ \A u \in Tasks \ {t} : trail'[u] = trail[u]
    BY <1>1, <2>1, AuditedAfterRecord DEF RowStatus
  <2>3. TrailMatches(t)'
    BY <1>1, <1>5, <2>2 DEF RecordDispatchFailure, WaiterGoes, APITypeOK, StoreInvOf, RowAndWaiter,
         TrailMatches
  <2>4. QED
    BY <1>2, <2>1, <2>2, <2>3, OneTaskTrail DEF Audits, RowStatus
<1>6. QED BY <1>3, <1>4, <1>5

\* Polling and deleting leave the trail alone.
LEMMA QuietTrail ==
    ASSUME StoreInv, TrailInv, NEW t \in Tasks,
           \/ DeadlinePasses(t) \/ Poll(t) \/ GetResult(t) \/ GetTaskStatus(t) \/ FetchFails(t)
           \/ ResultNotFound(t) \/ (\E ok \in BOOLEAN : PersistFetchedResultFile(t, ok))
           \/ DeleteTask(t) \/ PurgeObjects(t)
    PROVE  TrailInv' /\ trail' = trail
<1>1. StoreInvOf(t) /\ TrailMatches(t) /\ APITypeOK
  BY DEF StoreInv, TrailInv
<1>2. /\ \A u \in Tasks \ {t} : Untouched(u)
      /\ trail' = trail /\ status' = status
  BY <1>1 DEF DeadlinePasses, Poll, GetResult, GetTaskStatus, FetchFails, ResultNotFound,
       PersistFetchedResultFile, DeleteTask, PurgeObjects, WaiterGoes, APITypeOK, Untouched
<1>3. \/ waiter' = waiter
      \/ /\ waiter[t] \in Fetching /\ row' = row
         /\ \E w \in Fetching : waiter' = [waiter EXCEPT ![t] = w]
  BY <1>1 DEF DeadlinePasses, Poll, GetResult, GetTaskStatus, FetchFails, ResultNotFound,
       PersistFetchedResultFile, DeleteTask, PurgeObjects, WaiterGoes, Fetching
<1>4. row' = row \/ row'[t] = "deleted"
  BY <1>1 DEF DeadlinePasses, Poll, GetResult, GetTaskStatus, FetchFails, ResultNotFound,
       PersistFetchedResultFile, DeleteTask, PurgeObjects, APITypeOK
<1>5. TrailMatches(t)'
  BY <1>1, <1>2, <1>3, <1>4 DEF TrailMatches, Audited, APITypeOK, Fetching
<1>6. QED
  BY <1>2, <1>5, OneTaskTrail

\* The end of the waiter: from a status that is not final, and never to NEW.
LEMMA EndTrail ==
    ASSUME StoreInv, TrailInv, NEW t \in Tasks, GiveUp(t) \/ SyncDropTaskStatus(t) \/ Finish(t)
    PROVE  TrailInv' /\ (trail' = trail \/ \E s \in RowStatus : Audits(t, s))
<1>1. StoreInvOf(t) /\ TrailMatches(t) /\ APITypeOK
  BY DEF StoreInv, TrailInv
<1>2. /\ waiter[t] \in {"polling", "reply", "finish"}
      /\ status[t] \in {"NEW", "RUNNING", "UPLOADING"}
      /\ row[t] \in {"live", "deleted"}
  BY <1>1 DEF GiveUp, SyncDropTaskStatus, Finish, Fetching, StoreInvOf, RowAndWaiter, APITypeOK
<1>3. Finish(t) => NextStatus(t) \in {"RUNNING", "UPLOADING", "SUCCESS", "FAILED"}
  BY <1>2 DEF NextStatus, Code
<1>4. PICK s \in RowStatus : /\ TransitionTaskStatus(t, s)
                             /\ s = "NEW" => status[t] = "NEW"
  BY <1>1, <1>3 DEF GiveUp, SyncDropTaskStatus, Finish, StoreInvOf, RowAndWaiter, RowStatus
<1>5. PICK w \in {NONE, "polling", "finish"} : waiter' = [waiter EXCEPT ![t] = w]
  BY DEF GiveUp, SyncDropTaskStatus, Finish, WaiterGoes
<1>6. \A u \in Tasks \ {t} : Untouched(u)
  <2>1. \A u \in Tasks \ {t} : status'[u] = status[u]
    BY <1>1, <1>4, TransitionTypes
  <2>2. row' = row /\ reply' = reply /\ stored' = stored /\ purging' = purging
    BY DEF GiveUp, SyncDropTaskStatus, Finish
  <2>3. analysed' = analysed \/ analysed' = analysed \cup {t}
    BY DEF GiveUp, SyncDropTaskStatus, Finish
  <2>4. QED
    BY <1>1, <1>5, <2>1, <2>2, <2>3 DEF Untouched, APITypeOK
<1>7. row' = row
  BY DEF GiveUp, SyncDropTaskStatus, Finish
<1>8. CASE row[t] # "live" \/ status[t] = s
  <2>1. trail' = trail /\ status' = status
    BY <1>1, <1>4, <1>8 DEF TransitionTaskStatus, APITypeOK
  <2>2. TrailMatches(t)'
    BY <1>1, <1>2, <1>5, <1>7, <2>1 DEF TrailMatches, Audited, APITypeOK
  <2>3. QED
    BY <1>6, <2>1, <2>2, OneTaskTrail
<1>9. CASE row[t] = "live" /\ status[t] # s
  <2>1. /\ RecordStateChange(t, status[t], s) /\ Audited(t) = status[t]
        /\ status'[t] = s
    BY <1>1, <1>2, <1>4, <1>9 DEF TransitionTaskStatus, TrailMatches, APITypeOK
  <2>2. Audited(t)' = s /\ \A u \in Tasks \ {t} : trail'[u] = trail[u]
    BY <1>1, <1>2, <2>1, AuditedAfterRecord DEF RowStatus
  <2>3. TrailMatches(t)'
    BY <1>1, <1>2, <1>5, <1>7, <2>1, <2>2 DEF TrailMatches, APITypeOK
  <2>4. Audits(t, s)
    BY <1>2, <1>4, <1>9, <2>1 DEF Audits
  <2>5. QED
    BY <1>6, <2>2, <2>3, <2>4, OneTaskTrail
<1>10. QED BY <1>8, <1>9

\* Every step keeps the trails in agreement with the rows, and adds at most
\* one record, of a transition TaskLifecycle allows.
LEMMA NextTrail ==
    ASSUME "api_crash" \notin APIEvents, StoreInv, TrailInv, [NextAll]_allVars
    PROVE  TrailInv' /\ (trail' = trail \/ \E t \in Tasks : \E s \in RowStatus : Audits(t, s))
<1>1. CASE UNCHANGED <<row, status, trail, waiter>>
  BY <1>1 DEF TrailInv, TrailMatches, Audited
<1>2. CASE DropStep \/ UNCHANGED allVars
  BY <1>1, <1>2 DEF DropStep, allVars, apiVars
<1>3. ASSUME NEW a \in Agents, NEW t \in Tasks, ServeCreateTask(a, t)
      PROVE  UNCHANGED <<row, status, trail, waiter>>
  BY <1>3 DEF ServeCreateTask
<1>4. ASSUME NEW t \in Tasks, LoseCreateTask(t)
      PROVE  UNCHANGED <<row, status, trail, waiter>>
  BY <1>4 DEF LoseCreateTask
<1>5. ~APICrash
  BY DEF APICrash
<1>6. ASSUME NEW t \in Tasks,
             \/ CreateRow(t) \/ WaiterStep(t) \/ DeadlinePasses(t) \/ DeleteTask(t) \/ PurgeObjects(t)
      PROVE  TrailInv' /\ (trail' = trail \/ \E s \in RowStatus : Audits(t, s))
  BY <1>6, CreationTrail, QuietTrail, EndTrail DEF WaiterStep
<1>7. CASE APIStep
  BY <1>5, <1>6, <1>7 DEF APIStep, RetryTask
<1>8. QED
  BY <1>1, <1>2, <1>3, <1>4, <1>7 DEF NextAll

\* In every reachable state a reader gets what the trail ends in.
LEMMA AuditedStatusIsAudited ==
    ASSUME StoreInv, TrailInv, NEW t \in Tasks
    PROVE  AuditedStatus(t) = Audited(t)
<1>1. StoreInvOf(t) /\ TrailMatches(t) /\ APITypeOK
  BY DEF StoreInv, TrailInv
<1>2. row[t] = NONE => Audited(t) = NONE
  BY <1>1 DEF TrailMatches, Audited
<1>3. QED
  BY <1>1, <1>2 DEF StoreInvOf, RowAndWaiter, TrailMatches, AuditedStatus, APITypeOK

\* A step of the whole is a step of TaskLifecycle, or leaves its variables.
LEMMA StepIsLifecycleStep ==
    ASSUME "api_crash" \notin APIEvents, StoreInv, StoreInv', TrailInv, [NextAll]_allVars
    PROVE  TrailInv' /\ [Lifecycle!Next]_(Lifecycle!lifecycleVars)
<1>1. TrailInv' /\ (trail' = trail \/ \E t \in Tasks : \E s \in RowStatus : Audits(t, s))
  BY NextTrail
<1> DEFINE st == [t \in Tasks |-> AuditedStatus(t)]
<1>2. st = [t \in Tasks |-> Audited(t)]
  BY AuditedStatusIsAudited
<1>3. st' = [t \in Tasks |-> Audited(t)']
  <2>1. ASSUME NEW t \in Tasks PROVE AuditedStatus(t)' = Audited(t)'
    <3>1. StoreInvOf(t)' /\ TrailMatches(t)' /\ APITypeOK'
      BY <1>1 DEF StoreInv, TrailInv
    <3>2. row'[t] = NONE => Audited(t)' = NONE
      BY <3>1 DEF TrailMatches, Audited
    <3>3. QED
      BY <3>1, <3>2 DEF StoreInvOf, RowAndWaiter, TrailMatches, AuditedStatus, APITypeOK
  <2>2. QED
    BY <2>1
<1>4. CASE trail' = trail
  <2>1. \A t \in Tasks : Audited(t)' = Audited(t)
    BY <1>4 DEF Audited
  <2>2. st' = st
    BY <1>2, <1>3, <2>1
  <2>3. QED
    BY <1>1, <1>4, <2>2 DEF Lifecycle!lifecycleVars
<1>5. ASSUME NEW t \in Tasks, NEW s \in RowStatus, Audits(t, s)
      PROVE  [Lifecycle!Next]_(Lifecycle!lifecycleVars)
  <2>1. Audited(t) \in RowStatus \cup {NONE} /\ APITypeOK
    BY <1>5 DEF Audits, RowStatus, StoreInv
  <2>2. /\ Audited(t)' = s
        /\ \A u \in Tasks \ {t} : Audited(u)' = Audited(u)
    BY <1>5, <2>1, AuditedAfterRecord DEF Audits
  <2>3. st' = [st EXCEPT ![t] = s] /\ st[t] = Audited(t)
    BY <1>2, <1>3, <2>2
  <2>4. trail' = [trail EXCEPT ![t] = Append(@, <<st[t], s>>)]
    BY <1>5, <2>3 DEF Audits, RecordStateChange
  <2>5. Lifecycle!Record(t, s)
    BY <2>3, <2>4 DEF Lifecycle!Record
  <2>6. Lifecycle!Create(t) \/ Lifecycle!Move(t, s)
    BY <1>5, <2>3, <2>5 DEF Audits, Lifecycle!Create, Lifecycle!Move, Lifecycle!Open,
         Lifecycle!Final, RowStatus
  <2>7. QED
    BY <2>6 DEF Lifecycle!Next, Lifecycle!Move, Lifecycle!Open, Lifecycle!Final, RowStatus
<1>6. QED
  BY <1>1, <1>4, <1>5

\* As long as the API server does not crash, the rows and the audit trail
\* implement TaskLifecycle: every change is recorded with the status it
\* starts from, and SUCCESS and FAILED are final.
THEOREM RowsImplementLifecycle ==
    ASSUME "api_crash" \notin APIEvents
    PROVE  SpecAll => ImplementsLifecycle
<1>1. InitAll => TrailInv /\ Lifecycle!Init
  BY DEF InitAll, APIInit, TrailInv, TrailMatches, Audited, AuditedStatus, Lifecycle!Init
<1>2. StoreInv /\ StoreInv' /\ TrailInv /\ [NextAll]_allVars
         => TrailInv' /\ [Lifecycle!Next]_(Lifecycle!lifecycleVars)
  BY StepIsLifecycleStep
<1>3. QED
  BY <1>1, <1>2, StoreInvariantHolds, PTL DEF SpecAll, ImplementsLifecycle, Lifecycle!Spec
=============================================================================
