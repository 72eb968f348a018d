-------------------------- MODULE CollectWaitProofs --------------------------
(***************************************************************************)
(* No wakeup of a Collect call is missed, for any tasks, agents and queue  *)
(* limits.  NoMissedWakeup needs the types beside it, and a case split on  *)
(* what makes the predicate of the wait true: a result, which notifies; a  *)
(* FAILED entry of the cleanup, which notifies; a status report, which the *)
(* history variable `reported` remembers; and never a restart, which ends  *)
(* the calls.                                                              *)
(***************************************************************************)
EXTENDS CollectWait, FiniteSetTheorems, TLAPS

USE MaxQueueAssumption, TasksAssumption
USE DEF NONE

\* What is inductive: an order counter stays a number only as long as finitely
\* many tasks were pushed.
WaitInv ==
    /\ TypeOK
    /\ IsFiniteSet(Pushed)
    /\ NoMissedWakeup

\* Initially nothing is pushed and nobody sleeps.
LEMMA InitWaitInv == Init => WaitInv
<1> SUFFICES ASSUME Init PROVE WaitInv
  OBVIOUS
<1>1. Pushed = {}
  BY DEF Init, ServerInit, Pushed
<1>2. QED
  BY <1>1, FS_EmptySet DEF Init, ServerInit, WaitInv, TypeOK, ServerTypeOK, NoMissedWakeup,
       WaiterState, InCollect

\* CreateTask and the first part of Collect: an entry that is written is
\* PENDING, and the new call is not asleep.
LEMMA CreateTaskWaitInv ==
    ASSUME WaitInv, NEW a \in Agents, NEW t \in Tasks, CreateTask(a, t),
           reported' = reported, waiter' \in [Tasks -> WaiterState],
           \A u \in Tasks : waiter'[u] = "asleep" => waiter[u] = "asleep"
    PROVE  WaitInv'
<1>1. CASE HasRoom(a)
  <2>1. /\ queue' = [queue EXCEPT ![a] = @ \cup {t}]
        /\ order' = [order EXCEPT ![t] = Cardinality(Pushed) + 1]
        /\ state' = [state EXCEPT ![t] = "PENDING"]
        /\ stale' = stale \ {t}
        /\ accepted' = [accepted EXCEPT ![t] = "queued"]
        /\ result' = result
    BY <1>1 DEF CreateTask, PushTask, SetTaskStatus
  <2>2. Cardinality(Pushed) \in Nat
    BY FS_CardinalityType DEF WaitInv
  <2>3. PICK n \in Nat \ {0} : order' = [order EXCEPT ![t] = n]
    <3>1. Cardinality(Pushed) + 1 \in Nat \ {0}
      BY <2>2
    <3>2. QED
      BY <2>1, <3>1, Zenon
  <2>4. Pushed' = Pushed \cup {t}
    BY <2>3 DEF WaitInv, TypeOK, ServerTypeOK, Pushed
  <2>5. IsFiniteSet(Pushed')
    BY <2>4, FS_AddElement DEF WaitInv
  <2>6. TypeOK'
    BY <2>1, <2>3 DEF WaitInv, TypeOK, ServerTypeOK, TaskStatus
  <2>7. NoMissedWakeup'
    BY <2>1 DEF WaitInv, TypeOK, ServerTypeOK, NoMissedWakeup, Announced, Finished
  <2> QED
    BY <2>5, <2>6, <2>7 DEF WaitInv
<1>2. CASE ~HasRoom(a)
  <2>1. accepted' = [accepted EXCEPT ![t] = "refused"] /\ UNCHANGED <<queue, order, state, stale, result>>
    BY <1>2 DEF CreateTask, PushTask
  <2> QED
    BY <2>1 DEF WaitInv, TypeOK, ServerTypeOK, NoMissedWakeup, Announced, Finished, Pushed
<1>3. QED BY <1>1, <1>2

\* The operations on a task that was queued: PopTask, a report of a status, a
\* result, and the passing of its time limit.
LEMMA TaskStepWaitInv ==
    ASSUME WaitInv, NEW t \in Tasks,
           \/ (\E a \in Agents : PopTask(a, t)) /\ UNCHANGED <<waiter, reported>>
           \/ Elapse(t) /\ UNCHANGED <<waiter, reported>>
           \/ \E s \in TaskStatus : ReportStatus(t, s)
           \/ \E r \in TaskResult : ReportResult(t, r)
    PROVE  WaitInv'
<1>1. CASE \E a \in Agents : PopTask(a, t) /\ UNCHANGED <<waiter, reported>>
  BY <1>1 DEF PopTask, SetTaskStatus, WaitInv, TypeOK, ServerTypeOK, NoMissedWakeup,
       Announced, Finished, Pushed, TaskStatus
<1>2. CASE Elapse(t) /\ UNCHANGED <<waiter, reported>>
  BY <1>2 DEF Elapse, WaitInv, TypeOK, ServerTypeOK, NoMissedWakeup, Announced, Finished, Pushed
<1>3. CASE \E s \in TaskStatus : ReportStatus(t, s)
  BY <1>3 DEF ReportStatus, UpdateTaskStatus, SetTaskStatus, WaitInv, TypeOK, ServerTypeOK,
       NoMissedWakeup, Announced, Finished, Pushed
<1>4. CASE \E r \in TaskResult : ReportResult(t, r)
  BY <1>4 DEF ReportResult, NotifyResult, NotifyAll, SetTaskStatus, WaitInv, TypeOK,
       ServerTypeOK, NoMissedWakeup, Announced, Finished, Pushed, TaskStatus, WaiterState, InCollect
<1>5. QED BY <1>1, <1>2, <1>3, <1>4

\* The steps of the waiting call itself.
LEMMA WaiterWaitInv ==
    ASSUME WaitInv, NEW t \in Tasks, CollectCheck(t) \/ CollectDeadline(t)
    PROVE  WaitInv'
<1>1. UNCHANGED <<serverVars, reported>>
  BY DEF CollectCheck, CollectDeadline
<1>2. Answer(t) \in {"result", "failed", "timed_out"}
  BY DEF Answer
<1>3. PICK w \in WaiterState : /\ waiter' = [waiter EXCEPT ![t] = w]
                               /\ w = "asleep" => ~Finished(t)
  BY <1>2 DEF CollectCheck, CollectDeadline, WaiterState, InCollect
<1>4. QED
  BY <1>1, <1>3 DEF serverVars, WaitInv, TypeOK, ServerTypeOK, NoMissedWakeup, Announced,
       Finished, Pushed

\* The cleanup: what it fails it announces, and what it deletes has neither a
\* result nor a status any more.
LEMMA CleanupWaitInv ==
    ASSUME WaitInv, Cleanup
    PROVE  WaitInv'
<1>1. TypeOK' /\ IsFiniteSet(Pushed')
  BY DEF Cleanup, CleanupTimeoutTasks, NotifyAll, WaitInv, TypeOK, ServerTypeOK, Pushed,
       TaskStatus, WaiterState, InCollect
<1>2. CASE Overdue # {}
  BY <1>1, <1>2 DEF Cleanup, NotifyAll, WaitInv, NoMissedWakeup
<1>3. CASE Overdue = {}
  <2>1. \A t \in Tasks : /\ state'[t] \in {state[t], NONE}
                         /\ result'[t] \in {result[t], NONE}
                         /\ waiter'[t] = waiter[t]
                         /\ t \in reported' <=> t \in reported
    BY <1>3 DEF Cleanup, CleanupTimeoutTasks, Expired, WaitInv, TypeOK, ServerTypeOK
  <2> QED
    BY <1>1, <2>1 DEF WaitInv, NoMissedWakeup, Announced, Finished
<1>4. QED BY <1>2, <1>3

\* Every step of drop_server and of its Collect callers keeps the invariant.
LEMMA NextWaitInv == WaitInv /\ [Next]_vars => WaitInv'
<1> SUFFICES ASSUME WaitInv, [Next]_vars PROVE WaitInv'
  OBVIOUS
<1>1. ASSUME NEW a \in Agents, NEW t \in Tasks, Collect(a, t) PROVE WaitInv'
  <2>1. PICK w \in {"checking", "failed"} : waiter' = [waiter EXCEPT ![t] = w]
    BY <1>1 DEF Collect
  <2>2. /\ waiter' \in [Tasks -> WaiterState]
        /\ \A u \in Tasks : waiter'[u] = "asleep" => waiter[u] = "asleep"
    BY <2>1 DEF WaitInv, TypeOK, WaiterState, InCollect
  <2> QED
    BY <1>1, <2>2, CreateTaskWaitInv DEF Collect
<1>2. ASSUME NEW a \in Agents, NEW t \in Tasks,
             CreateTask(a, t) /\ UNCHANGED <<waiter, reported>>
      PROVE  WaitInv'
  BY <1>2, CreateTaskWaitInv DEF WaitInv, TypeOK
<1>3. ASSUME NEW a \in Agents, NEW t \in Tasks,
             PopTask(a, t) /\ UNCHANGED <<waiter, reported>>
      PROVE  WaitInv'
  BY <1>3, TaskStepWaitInv
<1>4. ASSUME NEW t \in Tasks, CollectCheck(t) \/ CollectDeadline(t) PROVE WaitInv'
  BY <1>4, WaiterWaitInv
<1>5. ASSUME NEW t \in Tasks,
             \/ Elapse(t) /\ UNCHANGED <<waiter, reported>>
             \/ \E s \in TaskStatus : ReportStatus(t, s)
             \/ \E r \in TaskResult : ReportResult(t, r)
      PROVE  WaitInv'
  BY <1>5, TaskStepWaitInv
<1>6. CASE Cleanup
  BY <1>6, CleanupWaitInv
<1>7. CASE Restart
  BY <1>7 DEF Restart, ServerRestart, WaitInv, TypeOK, ServerTypeOK, NoMissedWakeup, Pushed,
       WaiterState, InCollect
<1>8. CASE UNCHANGED vars
  BY <1>8 DEF vars, serverVars, WaitInv, TypeOK, ServerTypeOK, NoMissedWakeup, Announced,
       Finished, Pushed
<1>9. QED
  BY <1>1, <1>2, <1>3, <1>4, <1>5, <1>6, <1>7, <1>8 DEF Next, Unnoticed

\* A Collect call never sleeps on a result or on a failure that the cleanup
\* declared, whatever the agents report beside it: the handlers that write them
\* notify cv_ under the lock the call sleeps on.
THEOREM NoWakeupIsMissed == Spec => []NoMissedWakeup
<1>1. Spec => []WaitInv
  BY InitWaitInv, NextWaitInv, PTL DEF Spec
<1>2. WaitInv => NoMissedWakeup
  BY DEF WaitInv
<1>3. QED BY <1>1, <1>2, PTL
=============================================================================
