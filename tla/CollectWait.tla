----------------------------- MODULE CollectWait ----------------------------
(***************************************************************************)
(* The Collect RPC of drop_server: it pushes a task like CreateTask, then  *)
(* sleeps on the condition variable cv_ until the task has a result or has *)
(* failed, or until its own timeout.  The agents are left open: on a task  *)
(* that was handed out they may report any result and any status the RPC   *)
(* accepts, in any order.  The handler of a status report does not notify  *)
(* cv_, so a call may sleep on a FAILED or TIMEOUT that came that way.     *)
(***************************************************************************)
EXTENDS HotmethodService

VARIABLES
    waiter,     \* the Collect call of a task: where it stands, or its answer
    reported    \* history: the tasks whose status a status report wrote last

vars == <<serverVars, waiter, reported>>

\* A call is about to evaluate its predicate under the lock, asleep in
\* wait_until, or it has answered.
InCollect == {"checking", "asleep"}
WaiterState == InCollect \cup {NONE, "result", "failed", "timed_out"}

TypeOK ==
    /\ ServerTypeOK
    /\ waiter \in [Tasks -> WaiterState]
    /\ reported \subseteq Tasks

Init ==
    /\ ServerInit
    /\ waiter = [t \in Tasks |-> NONE]
    /\ reported = {}

-----------------------------------------------------------------------------
\* cv_.notify_all(): every sleeping call evaluates its predicate again.
NotifyAll ==
    waiter' = [t \in Tasks |-> IF waiter[t] = "asleep" THEN "checking" ELSE waiter[t]]

\* Collect, up to the end of PushTask: refused, or about to wait.
Collect(a, t) ==
    /\ CreateTask(a, t)
    /\ waiter' = [waiter EXCEPT ![t] = IF HasRoom(a) THEN "checking" ELSE "failed"]
    /\ UNCHANGED reported

\* The predicate of wait_until.
Finished(t) == result[t] # NONE \/ state[t] \in {"TIMEOUT", "FAILED"}

\* What Collect answers when wait_until returns, the lock still held.
Answer(t) ==
    CASE result[t] # NONE                               -> "result"
      [] result[t] = NONE /\ state[t] = "FAILED"         -> "failed"
      [] result[t] = NONE /\ state[t] # "FAILED"         -> "timed_out"

\* A call that got the lock evaluates the predicate, and sleeps if it is false.
CollectCheck(t) ==
    /\ waiter[t] = "checking"
    /\ waiter' = [waiter EXCEPT ![t] = IF Finished(t) THEN Answer(t) ELSE "asleep"]
    /\ UNCHANGED <<serverVars, reported>>

\* The deadline passes: wait_until evaluates the predicate a last time.
CollectDeadline(t) ==
    /\ waiter[t] \in InCollect
    /\ waiter' = [waiter EXCEPT ![t] = IF Finished(t) THEN Answer(t) ELSE "timed_out"]
    /\ UNCHANGED <<serverVars, reported>>

-----------------------------------------------------------------------------
\* A task that some heartbeat took out of the queue: agents report on these.
HandedOut(t) == accepted[t] = "queued" /\ \A a \in Agents : t \notin queue[a]

\* A status report stores the status and wakes nobody.
ReportStatus(t, s) ==
    /\ HandedOut(t)
    /\ UpdateTaskStatus(t, s)
    /\ reported' = reported \cup {t}
    /\ UNCHANGED waiter

\* Mutant: a result does not notify the waiting calls.
ReportResultSilently(t, r) ==
    /\ HandedOut(t)
    /\ NotifyResult(t, r)
    /\ reported' = reported \ {t}
    /\ UNCHANGED waiter

\* A result is stored and announced with cv_.notify_all().
ReportResult(t, r) ==
    /\ HandedOut(t)
    /\ NotifyResult(t, r)
    /\ reported' = reported \ {t}
    /\ NotifyAll

\* Mutant: a timed out task does not notify the waiting calls.
CleanupSilently ==
    /\ CleanupTimeoutTasks
    /\ reported' = reported \ Overdue
    /\ UNCHANGED waiter

\* CleanupTimeoutTasks notifies once for each task it fails.
Cleanup ==
    /\ CleanupTimeoutTasks
    /\ reported' = reported \ Overdue
    /\ IF Overdue # {} THEN NotifyAll ELSE UNCHANGED waiter

\* A restart of the process ends the calls with an error.
Restart ==
    /\ ServerRestart
    /\ waiter' = [t \in Tasks |-> IF waiter[t] \in InCollect THEN "failed" ELSE waiter[t]]
    /\ UNCHANGED reported

\* The operations no Collect call notices.
Unnoticed(t) ==
    /\ Elapse(t) \/ \E a \in Agents : CreateTask(a, t) \/ PopTask(a, t)
    /\ UNCHANGED <<waiter, reported>>

Next ==
    \/ \E a \in Agents, t \in Tasks : Collect(a, t)
    \/ \E t \in Tasks : \/ CollectCheck(t) \/ CollectDeadline(t)
                        \/ Unnoticed(t)
                        \/ \E s \in TaskStatus : ReportStatus(t, s)
                        \/ \E r \in TaskResult : ReportResult(t, r)
    \/ Cleanup
    \/ Restart

Spec == Init /\ [][Next]_vars

\* A thread that was notified gets the lock again.
FairSpec == Spec /\ \A t \in Tasks : WF_vars(CollectCheck(t))

-----------------------------------------------------------------------------
\* A result, or a failure that the cleanup declared: what makes the predicate
\* of a Collect call true without a status report.
Announced(t) == result[t] # NONE \/ (Finished(t) /\ t \notin reported)

\* A Collect call never sleeps on a result, or on a failure that the cleanup
\* declared: whichever comes between the evaluation of the predicate and the
\* wait, or during the wait, notifies cv_ under the same lock.
NoMissedWakeup ==
    \A t \in Tasks : waiter[t] = "asleep" => ~Announced(t)

\* A call whose task gets a result or is failed by the cleanup is answered
\* without the help of its deadline, unless a late report puts the task back
\* to work before the caller has the lock.
AnsweredWhenFinished ==
    \A t \in Tasks :
        (waiter[t] \in InCollect /\ Announced(t)) ~> (waiter[t] \notin InCollect \/ ~Finished(t))

=============================================================================
