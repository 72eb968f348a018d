---------------------------- MODULE ScheduleProofs ----------------------------
(***************************************************************************)
(* Rows and cron entries of the API server agree, for any schedules and    *)
(* any number of handlers at once, across crashes between their steps.     *)
(***************************************************************************)
EXTENDS LongRunning, TLAPS

Handlers == {"add", "remove"} \X Schedules

ScheduleTypeOK ==
    /\ srow \in [Schedules -> {"none", "live", "deleted"}]
    /\ entries \subseteq Schedules
    /\ handlers \subseteq Handlers
    /\ ghosts \subseteq Schedules

\* A handler that has still to remove an entry has deleted the row, for good; one
\* that has still to make it finds the row live, unless a ghost comes of it.
HandlersInv ==
    \A s \in Schedules :
        /\ <<"remove", s>> \in handlers => srow[s] = "deleted"
        /\ <<"add", s>> \in handlers => srow[s] = "live" \/ s \in ghosts

ScheduleInv ==
    ScheduleTypeOK /\ HandlersInv /\ ListedSchedulesFire /\ NoOtherGhosts

\* Every step keeps rows, entries and handlers in agreement.
LEMMA ScheduleInvInductive ==
  ScheduleInv /\ [ScheduleStep]_schedVars => ScheduleInv'
<1> SUFFICES ASSUME ScheduleInv, [ScheduleStep]_schedVars PROVE ScheduleInv'
  OBVIOUS
<1> USE DEF ScheduleInv, ScheduleTypeOK, HandlersInv, ListedSchedulesFire,
            NoOtherGhosts, Live, Handlers
<1>1. CASE UNCHANGED schedVars
  BY <1>1 DEF schedVars
<1>2. ASSUME NEW s \in Schedules, CreateScheduleTask(s) PROVE ScheduleInv'
  BY <1>2 DEF CreateScheduleTask
<1>3. ASSUME NEW s \in Schedules, AddEntry(s) PROVE ScheduleInv'
  BY <1>3 DEF AddEntry
<1>4. ASSUME NEW s \in Schedules, DeleteScheduleTask(s) PROVE ScheduleInv'
  BY <1>4 DEF DeleteScheduleTask
<1>5. ASSUME NEW s \in Schedules, RemoveEntry(s) PROVE ScheduleInv'
  BY <1>5 DEF RemoveEntry
<1>6. ASSUME NEW s \in Schedules, DeleteAsTask(s) PROVE ScheduleInv'
  BY <1>6 DEF DeleteAsTask
<1>7. CASE Restart
  BY <1>7 DEF Restart
<1> QED
  BY <1>1, <1>2, <1>3, <1>4, <1>5, <1>6, <1>7 DEF ScheduleStep

\* ScheduleInv holds in every state.
THEOREM ScheduleInvHolds == ScheduleSpec => []ScheduleInv
<1>1. ScheduleInit => ScheduleInv
  BY DEF ScheduleInit, ScheduleInv, ScheduleTypeOK, HandlersInv,
         ListedSchedulesFire, NoOtherGhosts, Live, Handlers
<1> QED
  BY <1>1, ScheduleInvInductive, PTL DEF ScheduleSpec

\* Continuous tasks leave the schedules alone.
LEMMA SchedulesOfSpec == Spec => ScheduleSpec
<1>1. Init => ScheduleInit
  BY DEF Init
<1>2. [ContinuousTask \/ SchedulesOfUsers]_longVars => [ScheduleStep]_schedVars
  BY DEF ContinuousTask, SchedulesOfUsers, longVars
<1>3. QED
  BY <1>1, <1>2, PTL DEF Spec, ScheduleSpec

\* A listed schedule has its entry as soon as its creation is over, also if the
\* API server crashed between row and entry, and an entry without a row is about
\* to be removed, or its row was deleted as a task or before the entry was made
\* (schedule.go, DeleteTask of task.go).
THEOREM SchedulesFireAsListedAlways == Spec => []SchedulesFireAsListed
<1>1. ScheduleInv => SchedulesFireAsListed
  BY DEF ScheduleInv, SchedulesFireAsListed
<1> QED
  BY <1>1, SchedulesOfSpec, ScheduleInvHolds, PTL
=============================================================================
