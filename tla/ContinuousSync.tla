---------------------------- MODULE ContinuousSync ----------------------------
(***************************************************************************)
(* The API server's side of a continuous task: the row of the parent, and  *)
(* the requests for its windows (GetContinuousWindows), each of which also *)
(* copies the windows of drop_server into the database, one statement at a *)
(* time, makes a child task of each and has it analysed.  Nothing keeps    *)
(* two such requests, of two tabs or of one tab's polling, apart but the   *)
(* unique indexes of the tables.                                           *)
(***************************************************************************)
EXTENDS Continuous

CONSTANT Callers    \* requests for the windows that may be served at once

VARIABLES
    parent,     \* the row of the continuous task: NONE, its status, or deleted
    pending,    \* handlers that were answered by drop_server and have not written
    wrow,       \* continuous_window: the status of each window, NONE: no row
    child,      \* hotmethod_task: the child of each window, NONE: no row
    sync,       \* where each request stands
    jobs,       \* windows with a runAnalysis goroutine that has not marked the row
    marked,     \* windows whose analysis_status is not PENDING any more
    crashed     \* bound: the API server crashes once

syncVars == <<parent, pending, wrow, child, sync, jobs, marked, crashed>>

\* What the API server meets in this world; {} stands for a chain by itself.
APIKinds == {"request",       \* users look at the timeline
             "api_crash",     \* the API server crashes and restarts
             "delete"}        \* users delete the parent or the child of a window

ASSUME SyncAssumption == \A w \in Worlds : w.api \subseteq APIKinds

Idle == [at |-> "idle", todo |-> <<>>, prev |-> NONE, seen |-> NONE]

SyncInit ==
    /\ parent = NONE /\ pending = {}
    /\ wrow = [w \in Windows |-> NONE]
    /\ child = [w \in Windows |-> NONE]
    /\ sync = [c \in Callers |-> Idle]
    /\ jobs = {} /\ marked = {}
    /\ crashed = FALSE

-----------------------------------------------------------------------------
(* The parent: drop_server is asked first, the row is written afterwards.  *)

CreateContinuous(ok) ==
    /\ StartContinuousTask(ok)
    /\ pending' = IF ok THEN {"create"} ELSE {}
    /\ UNCHANGED <<parent, wrow, child, sync, jobs, marked, crashed>>

InsertParent ==
    /\ "create" \in pending
    /\ parent' = "RUNNING"
    /\ pending' = pending \ {"create"}
    /\ UNCHANGED <<wrow, child, sync, jobs, marked, crashed>>

\* The API's StopContinuousTask finds the parent and is answered by drop_server ...
StopContinuous ==
    /\ parent \in {"RUNNING", "SUCCESS"}
    /\ StopContinuousTask
    /\ pending' = pending \cup {"stop"}
    /\ UNCHANGED <<parent, wrow, child, sync, jobs, marked, crashed>>

\* Mutant: the row is written whatever drop_server answers.
StopRecordedAnyway ==
    /\ parent = "RUNNING"
    /\ parent' = "SUCCESS"
    /\ UNCHANGED <<pending, wrow, child, sync, jobs, marked, crashed>>

\* ... and ends the row, unless it was deleted meanwhile.
StopRecorded ==
    /\ "stop" \in pending
    /\ parent' = IF parent = "deleted" THEN parent ELSE "SUCCESS"
    /\ pending' = pending \ {"stop"}
    /\ UNCHANGED <<wrow, child, sync, jobs, marked, crashed>>

-----------------------------------------------------------------------------
(* GetContinuousWindows.                                                    *)

Now(c) == Head(sync[c].todo)

\* The parent is there and ListWindows returns the records of the moment.
ListWindows(c) ==
    /\ sync[c].at = "idle" /\ windows # <<>>
    /\ parent \in {"RUNNING", "SUCCESS"}
    /\ sync' = [sync EXCEPT ![c] = [Idle EXCEPT !.at = "window", !.todo = windows]]
    /\ UNCHANGED <<parent, pending, wrow, child, jobs, marked, crashed>>

ReadWindow(c) ==
    /\ sync[c].at = "window"
    /\ sync' = [sync EXCEPT ![c].at = "write", ![c].prev = wrow[Now(c).seq]]
    /\ UNCHANGED <<parent, pending, wrow, child, jobs, marked, crashed>>

\* Mutant: a failed window is not worth a row.
WriteWindowDoneOnly(c) ==
    LET w == Now(c)
    IN  /\ sync[c].at = "write"
        /\ wrow' = IF w.status = "failed" THEN wrow
                   ELSE [wrow EXCEPT ![w.seq] = w.status]
        /\ sync' = [sync EXCEPT ![c].at = "child"]
        /\ UNCHANGED <<parent, pending, child, jobs, marked, crashed>>

\* A window that was not there is inserted, which fails without a word if it is
\* there by now; one that was there is updated.
WriteWindow(c) ==
    LET w == Now(c)
        taken == sync[c].prev = NONE /\ wrow[w.seq] # NONE
    IN  /\ sync[c].at = "write"
        /\ wrow' = IF taken THEN wrow ELSE [wrow EXCEPT ![w.seq] = w.status]
        /\ sync' = [sync EXCEPT ![c].at = "child"]
        /\ UNCHANGED <<parent, pending, child, jobs, marked, crashed>>

\* ensureContinuousWindowTask looks for the child; a deleted one is not found.
ReadChild(c) ==
    LET w == Now(c).seq
    IN  /\ sync[c].at = "child"
        /\ sync' = [sync EXCEPT ![c].at = "ensure",
                       ![c].seen = CASE child[w] \in {NONE, "deleted"} -> NONE
                                     [] w \in marked -> "analysed"
                                     [] OTHER -> "PENDING"]
        /\ UNCHANGED <<parent, pending, wrow, jobs, marked, crashed, child>>

ChildStatus(w) == IF w.status = "failed" THEN "FAILED" ELSE "SUCCESS"

\* The request is done with a window; trigger says whether it is analysed.
NextWindow(c, trigger) ==
    /\ jobs' = IF trigger THEN jobs \cup {Now(c).seq} ELSE jobs
    /\ LET rest == Tail(sync[c].todo)
       IN  sync' = [sync EXCEPT ![c] =
                      IF rest = <<>> THEN Idle
                      ELSE [Idle EXCEPT !.at = "window", !.todo = rest]]

Ready(w) == w.status = "done" /\ w.cos_key

\* Mutant: only a window that is new to this request is analysed, and its
\* status is compared after it was written.
CreateChildLate(c) ==
    LET w == Now(c)
        free == child[w.seq] = NONE
    IN  /\ sync[c].at = "ensure" /\ sync[c].seen = NONE
        /\ child' = IF free THEN [child EXCEPT ![w.seq] = ChildStatus(w)] ELSE child
        /\ NextWindow(c, free /\ Ready(w) /\ wrow[w.seq] # "done")
        /\ UNCHANGED <<parent, pending, wrow, marked, crashed>>

\* The child was not found: it is inserted and the window analysed.  If there is
\* one by now, or one that was deleted, the insert fails and nothing more is done.
CreateChild(c) ==
    LET w == Now(c)
        free == child[w.seq] = NONE
    IN  /\ sync[c].at = "ensure" /\ sync[c].seen = NONE
        /\ child' = IF free THEN [child EXCEPT ![w.seq] = ChildStatus(w)] ELSE child
        /\ NextWindow(c, free /\ Ready(w))
        /\ UNCHANGED <<parent, pending, wrow, marked, crashed>>

\* The child was found: it is updated, unless it is deleted by now, and analysed
\* if the window was not done before and the child not analysed.
UpdateChild(c) ==
    LET w == Now(c)
    IN  /\ sync[c].at = "ensure" /\ sync[c].seen # NONE
        /\ child' = IF child[w.seq] = "deleted" THEN child
                    ELSE [child EXCEPT ![w.seq] = ChildStatus(w)]
        /\ NextWindow(c, /\ Ready(w) /\ sync[c].prev # "done"
                         /\ sync[c].seen = "PENDING")
        /\ UNCHANGED <<parent, pending, wrow, marked, crashed>>

Request(c) ==
    \/ ListWindows(c) \/ ReadWindow(c) \/ WriteWindow(c)
    \/ ReadChild(c) \/ CreateChild(c) \/ UpdateChild(c)

\* The analyzer of a window marks its row; Analysis says what follows.
AnalysisMarks(w) ==
    /\ w \in jobs
    /\ jobs' = jobs \ {w}
    /\ marked' = IF child[w] = "deleted" THEN marked ELSE marked \cup {w}
    /\ UNCHANGED <<parent, pending, wrow, child, sync, crashed>>

-----------------------------------------------------------------------------

DeleteParent ==
    /\ "delete" \in world.api
    /\ parent \in {"RUNNING", "SUCCESS"}
    /\ parent' = "deleted"
    /\ UNCHANGED <<pending, wrow, child, sync, jobs, marked, crashed>>

DeleteChild(w) ==
    /\ "delete" \in world.api
    /\ child[w] \in {"SUCCESS", "FAILED"}
    /\ child' = [child EXCEPT ![w] = "deleted"]
    /\ UNCHANGED <<parent, pending, wrow, sync, jobs, marked, crashed>>

\* Handlers and goroutines are gone; the database stays.
APICrash ==
    /\ "api_crash" \in world.api /\ ~crashed
    /\ crashed' = TRUE
    /\ pending' = {} /\ jobs' = {}
    /\ sync' = [c \in Callers |-> Idle]
    /\ UNCHANGED <<parent, wrow, child, marked>>

APIStep ==
    \/ InsertParent \/ StopRecorded
    \/ \E c \in Callers : Request(c)
    \/ \E w \in Windows : AnalysisMarks(w) \/ DeleteChild(w)
    \/ DeleteParent \/ APICrash

syncAll == <<chainVars, syncVars>>

SyncStep ==
    \/ /\ world.api = {}
       /\ ChainStep /\ UNCHANGED syncVars
    \/ /\ world.api # {} /\ UNCHANGED world
       /\ \/ \E ok \in BOOLEAN : CreateContinuous(ok)
          \/ StopContinuous
          \/ DropStep /\ UNCHANGED syncVars
          \/ APIStep /\ UNCHANGED chainVars

\* Heartbeats every 5 s, the worker thread, the gRPC server; a timeline that is
\* looked at is asked for every 5 s, handlers and analyzers go on.
SyncFairness ==
    /\ WF_syncAll(UNCHANGED <<world, syncVars>> /\ PopTask(TRUE))
    /\ WF_syncAll(UNCHANGED <<world, syncVars>> /\ Worker)
    /\ WF_syncAll(UNCHANGED <<world, syncVars>> /\ Served)
    /\ \A c \in Callers :
          WF_syncAll(world.api # {} /\ Request(c) /\ UNCHANGED chainVars)
    /\ WF_syncAll(/\ \/ InsertParent \/ \E w \in Windows : AnalysisMarks(w)
                  /\ UNCHANGED chainVars)

-----------------------------------------------------------------------------
(* Properties.                                                              *)

SyncTypeOK ==
    /\ ChainTypeOK
    /\ parent \in {NONE, "RUNNING", "SUCCESS", "deleted"}
    /\ pending \subseteq {"create", "stop"}
    /\ wrow \in [Windows -> {NONE, "done", "failed"}]
    /\ child \in [Windows -> {NONE, "SUCCESS", "FAILED", "deleted"}]
    /\ sync \in [Callers -> [at : {"idle", "window", "write", "child", "ensure"},
                             todo : Seq(Record),
                             prev : {NONE, "done", "failed"},
                             seen : {NONE, "PENDING", "analysed"}]]
    /\ jobs \subseteq Windows /\ marked \subseteq Windows
    /\ crashed \in BOOLEAN

\* The timeline in the database has no gap either, although requests copy it
\* concurrently from lists of different age, stop half way in a crash, or find
\* that drop_server has forgotten the task (GetContinuousWindows).
NoGapInTable ==
    \A w \in Windows : wrow[w] # NONE => \A v \in 0..w : wrow[v] # NONE

\* A parent that is shown as ended has ended in drop_server: the row is written
\* after StopContinuous was answered, across crashes and restarts of both
\* (StopContinuousTask of task.go).
EndedIsStopped == parent = "SUCCESS" => config \in {"stopped", "gone"}

\* The recorded windows with a stored result that have no task, or none that
\* is analysed.
Unserved ==
    {w \in Windows :
        /\ parent # NONE
        /\ \E i \in 1..Len(windows) : windows[i].seq = w /\ Ready(windows[i])
        /\ child[w] = NONE \/ (w \notin marked /\ ~crashed)}

\* A recorded window becomes a task, and one with a stored result is analysed,
\* while somebody looks at the timeline: no order of two requests leaves the
\* analysis to each other.  A crash of the API server may cost the analysis of a
\* window, not its task (GetContinuousWindows, ensureContinuousWindowTask).
WindowsAreAnalysed ==
    world.api \subseteq {"request", "api_crash"} =>
        []<>(config = "gone" \/ Unserved = {})
=============================================================================
