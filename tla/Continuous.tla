------------------------------ MODULE Continuous ------------------------------
(***************************************************************************)
(* Continuous profiling in drop_server: one continuous task whose windows  *)
(* are dispatched one after the other, each when the result of the one     *)
(* before arrives (NotifyResult), and the agent that runs them.            *)
(*                                                                         *)
(* A window is its number; its task id parent_wN is unique.  The queue is  *)
(* the part of tasks_[target_ip] that belongs to this continuous task, and *)
(* a window may be in it twice, which is why it is a sequence.  The agent  *)
(* is HotmethodChannel reduced to its order of events: one worker runs the *)
(* windows in the order received and reports their start and their result. *)
(* RUNNING stands for RUNNING and UPLOADING, which differ only in name here.*)
(***************************************************************************)
EXTENDS Naturals, Sequences, FiniteSets, Bags

CONSTANTS
    MaxWindow,      \* bound on the window numbers
    MaxCopies,      \* bound on the copies of a report: 3 attempts in the code
    MaxAlive,       \* bound on windows under way: a report is only repeated below it
    Worlds          \* the environments to be considered

NONE == "NONE"

FaultKinds == {"duplicate",        \* a report is served more than once, or late
               "lost_report",      \* no attempt of a report gets through
               "lost_dispatch",    \* the heartbeat response is lost
               "offline",          \* the agent does not fetch within 30 s
               "queue_full",       \* tasks_[target_ip] is at its limit
               "upload_fails",     \* the result is embedded in the report
               "error",            \* the window fails
               "crash",            \* the agent dies
               "restart"}          \* drop_server restarts

Windows == 0..MaxWindow

\* A world says what can go wrong, and the window the modelled chain ends with.

ASSUME ContinuousAssumption ==
    /\ MaxWindow \in Nat
    /\ MaxCopies \in Nat \ {0}
    /\ MaxAlive \in Nat \ {0}
    /\ \A w \in Worlds : w.faults \subseteq FaultKinds /\ w.last \in Windows

VARIABLES
    world,      \* the environment of this behaviour, chosen once
    config,     \* continuous_tasks_[parent]
    queue,      \* its windows in tasks_[target_ip], front first
    wstate,     \* tasks_state_ of the windows
    waited,     \* windows whose entry is older than the 30 s limit
    windows,    \* continuous_windows_[parent], the records in order of arrival
    received,   \* the agent's task_queue_
    running,    \* the window its worker is at, if any: a set of at most one
    reports     \* bag of requests to drop_server not served yet

chainVars == <<world, config, queue, wstate, waited, windows, received, running, reports>>

Faults == world.faults

\* "new" before StartContinuous, "gone" once drop_server has forgotten it.
Config == {"new", "running", "stopped", "gone"}
Registered == config \in {"running", "stopped"}

WState == {NONE, "PENDING", "DISPATCHED", "RUNNING", "DONE", "FAILED"}
WResult == {"cos_key", "file", "error"}
Record == [seq : Windows, status : {"done", "failed"}, cos_key : BOOLEAN]
Report == [seq : Windows, body : WResult \cup {"RUNNING"}]

ChainTypeOK ==
    /\ world \in Worlds
    /\ config \in Config
    /\ queue \in Seq(Windows)
    /\ wstate \in [Windows -> WState]
    /\ waited \subseteq Windows
    /\ windows \in Seq(Record)
    /\ received \in Seq(Windows)
    /\ \E w \in Windows : running \subseteq {w}
    /\ IsABag(reports) /\ BagToSet(reports) \subseteq Report

ChainInit ==
    /\ world \in Worlds
    /\ config = "new"
    /\ queue = <<>>
    /\ wstate = [w \in Windows |-> NONE]
    /\ waited = {}
    /\ windows = <<>>
    /\ received = <<>>
    /\ running = {}
    /\ reports = EmptyBag

Results == {m \in BagToSet(reports) : m.body \in WResult}

\* The windows that are still going to be recorded, each copy for itself:
\* queued, at the agent or reported.
UnderWay ==
    ({"queued"} \X (1..Len(queue))) \cup ({"received"} \X (1..Len(received)))
    \cup ({"running"} \X running)
    \cup UNION {{"reported"} \X {m} \X (1..reports[m]) : m \in Results}

Alive == Cardinality(UnderWay)

\* What n attempts of one report put on the way.
Copies(m, n) == [x \in IF n = 0 THEN {} ELSE {m} |-> n]
Attempts(n) ==
    /\ n = 0 => "lost_report" \in Faults
    /\ n > 1 => "duplicate" \in Faults /\ Alive + n - 1 <= MaxAlive

-----------------------------------------------------------------------------
\* UpdateTaskStatus of one window: the entry is as new as its status.
SetState(w, s) ==
    /\ wstate' = [wstate EXCEPT ![w] = s]
    /\ waited' = waited \ {w}

\* StartContinuousTask registers the task, then dispatches window 0 unless
\* the queue is full, in which case it answers with no id.
StartContinuousTask(ok) ==
    /\ config = "new"
    /\ ok \/ "queue_full" \in Faults
    /\ config' = "running"
    /\ windows' = <<>>
    /\ IF ok THEN queue' = <<0>> /\ SetState(0, "PENDING")
             ELSE UNCHANGED <<queue, wstate, waited>>
    /\ UNCHANGED <<received, running, reports>>

StopContinuousTask ==
    /\ Registered
    /\ config' = "stopped"
    /\ UNCHANGED <<queue, wstate, waited, windows, received, running, reports>>

\* Mutant: the task is handed out and stays in the queue.
PopTaskPeeks(arrives) ==
    /\ queue # <<>>
    /\ arrives \/ "lost_dispatch" \in Faults
    /\ queue' = IF arrives THEN Tail(queue) ELSE queue
    /\ SetState(Head(queue), "DISPATCHED")
    /\ received' = Append(received, Head(queue))
    /\ UNCHANGED <<config, windows, running, reports>>

\* A heartbeat takes the front of the queue; the response reaches the agent,
\* or is lost.
PopTask(arrives) ==
    /\ queue # <<>>
    /\ arrives \/ "lost_dispatch" \in Faults
    /\ queue' = Tail(queue)
    /\ SetState(Head(queue), "DISPATCHED")
    /\ received' = IF arrives THEN Append(received, Head(queue)) ELSE received
    /\ UNCHANGED <<config, windows, running, reports>>

\* The worker takes the next window and reports RUNNING; a copy that is
\* served late stands for the repeated ones (n is 0 or 1).
BeginWindow(n) ==
    /\ n <= 1
    /\ running = {}
    /\ received # <<>>
    /\ Attempts(n)
    /\ running' = {Head(received)}
    /\ received' = Tail(received)
    /\ reports' = reports (+) Copies([seq |-> Head(received), body |-> "RUNNING"], n)
    /\ UNCHANGED <<config, queue, wstate, waited, windows>>

\* It ends, and the result is reported.  ReportStatus has returned: RUNNING is
\* served, unless its attempts timed out.
EndWindow(w, r, n) ==
    /\ w \in running
    /\ r = "error" => "error" \in Faults
    /\ r = "file" => "upload_fails" \in Faults
    /\ Attempts(n)
    /\ \/ ~BagIn([seq |-> w, body |-> "RUNNING"], reports)
       \/ "duplicate" \in Faults
    /\ running' = {}
    /\ reports' = reports (+) Copies([seq |-> w, body |-> r], n)
    /\ UNCHANGED <<config, queue, wstate, waited, windows, received>>

AgentCrash ==
    /\ "crash" \in Faults
    /\ running # {} \/ received # <<>>
    /\ running' = {}
    /\ received' = <<>>
    /\ UNCHANGED <<config, queue, wstate, waited, windows, reports>>

UpdateTaskStatus(m) ==
    /\ m.body = "RUNNING"
    /\ reports' = reports (-) SetToBag({m})
    /\ SetState(m.seq, "RUNNING")
    /\ UNCHANGED <<config, queue, windows, received, running>>

RecordOf(m) ==
    [seq |-> m.seq, status |-> IF m.body = "error" THEN "failed" ELSE "done",
     cos_key |-> m.body = "cos_key"]

\* A result is served: the status of the window, its record if recorded
\* holds, the next window if goesOn does.
ServeResult(m, recorded, goesOn) ==
    LET next == m.seq + 1
        ended == [wstate EXCEPT ![m.seq] = IF m.body = "error" THEN "FAILED" ELSE "DONE"]
    IN  /\ m.body \in WResult
        /\ reports' = reports (-) SetToBag({m})
        /\ windows' = IF recorded THEN Append(windows, RecordOf(m)) ELSE windows
        /\ queue' = IF goesOn THEN Append(queue, next) ELSE queue
        /\ wstate' = IF goesOn THEN [ended EXCEPT ![next] = "PENDING"] ELSE ended
        /\ waited' = waited \ IF goesOn THEN {m.seq, next} ELSE {m.seq}
        /\ UNCHANGED <<config, received, running>>

\* Mutant: a failed window is not recorded.
NotifyResultDoneOnly(m, ok) ==
    /\ ok \/ "queue_full" \in Faults
    /\ ServeResult(m, Registered /\ m.body # "error",
                   config = "running" /\ ok /\ m.seq < world.last)

\* Mutant: whether the task was stopped is not looked at.
NotifyResultNeverStops(m, ok) ==
    /\ ok \/ "queue_full" \in Faults
    /\ ServeResult(m, Registered, Registered /\ ok /\ m.seq < world.last)

\* Mutant: a window that failed ends the chain.
NotifyResultStopsAtError(m, ok) ==
    /\ ok \/ "queue_full" \in Faults
    /\ ServeResult(m, Registered,
                   config = "running" /\ ok /\ m.seq < world.last /\ m.body # "error")

\* NotifyResult of a window: the record if the task is known, the next window
\* if it is not stopped and the queue has room (ok).  The chain of the model
\* ends with window world.last.
NotifyResult(m, ok) ==
    /\ ok \/ "queue_full" \in Faults
    /\ ServeResult(m, Registered, config = "running" /\ ok /\ m.seq < world.last)

\* 30 s pass with a window dispatched to an agent that has not begun it, or
\* that an agent out of reach does not fetch.
Waits(w) ==
    /\ w \notin waited
    /\ \/ wstate[w] = "DISPATCHED"
       \/ wstate[w] = "PENDING" /\ "offline" \in Faults
    /\ waited' = waited \cup {w}
    /\ UNCHANGED <<config, queue, wstate, windows, received, running, reports>>

\* CleanupTimeoutTasks fails them and takes them out of the queue; at lists
\* the positions of the others.
CleanupTimeoutTasks ==
    /\ waited # {}
    /\ wstate' = [w \in Windows |-> IF w \in waited THEN "FAILED" ELSE wstate[w]]
    /\ waited' = {}
    /\ \E n \in 0..Len(queue) : \E at \in [1..n -> 1..Len(queue)] :
          /\ \A i, j \in 1..n : i < j => at[i] < at[j]
          /\ {at[i] : i \in 1..n} = {i \in 1..Len(queue) : queue[i] \notin waited}
          /\ queue' = [i \in 1..n |-> queue[at[i]]]
    /\ UNCHANGED <<config, windows, received, running, reports>>

\* drop_server restarts: only the agent remembers the windows, and
\* the parent id is not used again.
ServerRestart ==
    /\ "restart" \in Faults
    /\ Registered
    /\ config' = "gone"
    /\ queue' = <<>>
    /\ wstate' = [w \in Windows |-> NONE]
    /\ waited' = {}
    /\ windows' = <<>>
    /\ UNCHANGED <<received, running, reports>>

Served == \E m \in BagToSet(reports) :
    UpdateTaskStatus(m) \/ \E ok \in BOOLEAN : NotifyResult(m, ok)
Worker == \E n \in 0..MaxCopies :
    BeginWindow(n) \/ \E w \in running, r \in WResult : EndWindow(w, r, n)

\* What drop_server and the agent do by themselves.
DropStep ==
    \/ \E ok \in BOOLEAN : PopTask(ok)
    \/ Worker
    \/ AgentCrash
    \/ Served
    \/ \E w \in Windows : Waits(w)
    \/ CleanupTimeoutTasks
    \/ ServerRestart

ChainStep ==
    /\ UNCHANGED world
    /\ \/ \E ok \in BOOLEAN : StartContinuousTask(ok)
       \/ StopContinuousTask
       \/ DropStep

-----------------------------------------------------------------------------
Elements(s) == {s[i] : i \in 1..Len(s)}
Recorded == {windows[i].seq : i \in 1..Len(windows)}

\* Unless a report is served twice, a continuous task never has two windows
\* under way on its target: not when a window that the cleanup has failed is
\* run after all, nor when a stop, a crash or a lost call comes between.
OneWindowAtATime == "duplicate" \notin Faults => Alive <= 1

\* The timeline of NotifyResult has no gap, whatever is lost, duplicated,
\* late, failed or refused: with a window all those before it are recorded.
NoGapInTimeline == \A w \in Recorded : 0..w \subseteq Recorded

Coming == Elements(queue) \cup Elements(received) \cup running \cup {m.seq : m \in Results}
Known == Recorded \cup Coming

\* After StopContinuousTask no window appears that was not under way or
\* recorded already, whichever reports are served late or again.
NothingNewOnceStopped ==
    [][config = "stopped" => Known' \subseteq Known]_chainVars

\* A task that is neither stopped nor forgotten goes on to the last window of
\* the model, while agent, server and calls work: failed windows, embedded results, slow dispatches that the
\* cleanup fails and repeated reports do not break the chain of NotifyResult.
ChainGoesOn ==
    (Faults \subseteq {"duplicate", "upload_fails", "error"} /\ config = "running")
    ~> (config # "running" \/ world.last \in Recorded)
=============================================================================
