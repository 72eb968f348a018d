------------------------------- MODULE Schedule -------------------------------
(***************************************************************************)
(* Schedules of the API server (apiserver/server/schedule.go): rows of     *)
(* hotmethod_task whose ids begin with "sched-", and the entries of the    *)
(* cron scheduler, in memory only.  Creating and deleting a schedule each  *)
(* touch the row first and the entry in a later step, and a row can also   *)
(* be deleted as the task that it is in the database, which knows nothing  *)
(* of entries.                                                             *)
(***************************************************************************)
CONSTANT Schedules  \* ids of schedules, drawn once

VARIABLES
    srow,       \* the row of each schedule: none, live or (soft) deleted
    entries,    \* the schedules with an entry in sm.entries and the cron scheduler
    handlers,   \* what CreateScheduleTask and DeleteScheduleTask have still to do
    ghosts      \* history: deleted since the last start as a task, or before
                \* CreateScheduleTask had made the entry

schedVars == <<srow, entries, handlers, ghosts>>

Live == {s \in Schedules : srow[s] = "live"}

\* Start: the scheduler is started and loaded from the database before there
\* are routes.
ScheduleInit ==
    /\ srow = [s \in Schedules |-> "none"]
    /\ entries = {} /\ handlers = {} /\ ghosts = {}

\* Mutant: the entry is left to the next start.
CreateScheduleRowOnly(s) ==
    /\ srow[s] = "none"
    /\ srow' = [srow EXCEPT ![s] = "live"]
    /\ UNCHANGED <<entries, handlers, ghosts>>

CreateScheduleTask(s) ==
    /\ srow[s] = "none"
    /\ srow' = [srow EXCEPT ![s] = "live"]
    /\ handlers' = handlers \cup {<<"add", s>>}
    /\ UNCHANGED <<entries, ghosts>>

\* The expression was parsed before: AddFunc succeeds.  The row is not looked at
\* again.
AddEntry(s) ==
    /\ <<"add", s>> \in handlers
    /\ handlers' = handlers \ {<<"add", s>>}
    /\ entries' = entries \cup {s}
    /\ UNCHANGED <<srow, ghosts>>

DeleteScheduleTask(s) ==
    /\ srow[s] = "live"
    /\ srow' = [srow EXCEPT ![s] = "deleted"]
    /\ handlers' = handlers \cup {<<"remove", s>>}
    /\ ghosts' = IF <<"add", s>> \in handlers THEN ghosts \cup {s} ELSE ghosts
    /\ UNCHANGED entries

RemoveEntry(s) ==
    /\ <<"remove", s>> \in handlers
    /\ handlers' = handlers \ {<<"remove", s>>}
    /\ entries' = entries \ {s}
    /\ UNCHANGED <<srow, ghosts>>

\* DeleteTask of task.go, for which a schedule is a task like others.
DeleteAsTask(s) ==
    /\ srow[s] = "live"
    /\ srow' = [srow EXCEPT ![s] = "deleted"]
    /\ ghosts' = ghosts \cup {s}
    /\ UNCHANGED <<entries, handlers>>

\* A crash or a restart: loadFromDB makes an entry for each row.
Restart ==
    /\ handlers' = {} /\ ghosts' = {}
    /\ entries' = Live
    /\ UNCHANGED srow

ScheduleStep ==
    \/ \E s \in Schedules :
          \/ CreateScheduleTask(s) \/ AddEntry(s)
          \/ DeleteScheduleTask(s) \/ RemoveEntry(s) \/ DeleteAsTask(s)
    \/ Restart

\* Schedules by themselves.
ScheduleSpec == ScheduleInit /\ [][ScheduleStep]_schedVars

-----------------------------------------------------------------------------
(* Properties.                                                              *)

\* A schedule that is listed fires: unless its creation is still under way its
\* row has an entry, also after a crash between the two (schedule.go 127-149 and
\* 304-333).
ListedSchedulesFire ==
    \A s \in Live : s \in entries \/ <<"add", s>> \in handlers

\* What fires is listed: an entry outlives its row only while the deletion is
\* under way or, until the next start, if the row was deleted as a task or before
\* the entry was made (schedule.go 176-212, DeleteTask of task.go).
NoOtherGhosts ==
    \A s \in entries :
        s \in Live \/ <<"remove", s>> \in handlers \/ s \in ghosts

\* Both: rows and cron entries agree across crashes and overlapping requests.
SchedulesFireAsListed == ListedSchedulesFire /\ NoOtherGhosts
=============================================================================
