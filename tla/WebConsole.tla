------------------------------ MODULE WebConsole ------------------------------
(* The web console: one page of the program is looked at, with the session  *)
(* and the surroundings that the world gives it.  Pages keep no state for   *)
(* each other, so that while one of them runs the others stand still.       *)
EXTENDS TaskResultPage, TaskCreation, TimelinePage, FlameViews, Session,
        GroupsPage, ListPages, SettingsPage

CONSTANT Worlds   \* the surroundings to be considered

\* Of every task the surroundings give the row the page may find at first, its
\* kind and the files that its collection and its analysis make; and they give
\* the modes of the dialog, the numbers that users choose and how many requests
\* may fail.
ASSUME WorldsAssumption ==
    \A w \in Worlds :
        /\ w.tids \subseteq Tids
        /\ w.row \in [stage : Stages, made : BOOLEAN]
        /\ w.row.stage = "analysed" => w.row.made
        /\ w.kind \in [Tids -> Kinds]
        /\ w.raw \in [Tids -> SUBSET Artifacts]
        /\ w.artifacts \in [Tids -> SUBSET Artifacts]
        /\ w.modes \subseteq Modes /\ w.fields \subseteq Fields
        /\ w.types \subseteq Int /\ w.typed \subseteq Int
        /\ w.fails \in Nat

wvars == <<world, rvars, cvars, tvars, fvars, svars, gvars, lvars, setvars>>

Init ==
    /\ world \in Worlds
    /\ ResultInit /\ CreationInit /\ TimelineInit /\ FlameInit
    /\ SessionInit /\ GroupsInit /\ ListInit /\ SettingsInit

ResultPage ==
    /\ world.page = "result" /\ ResultNext
    /\ UNCHANGED <<cvars, tvars, fvars, svars, gvars, lvars, setvars>>

CreationPages ==
    /\ world.page = "create" /\ CreationNext
    /\ UNCHANGED <<rvars, tvars, fvars, svars, gvars, lvars, setvars>>

Timeline ==
    /\ world.page = "timeline" /\ TimelineNext
    /\ UNCHANGED <<rvars, cvars, fvars, svars, gvars, lvars, setvars>>

FlamePages ==
    /\ world.page \in {"trees", "chart", "diff"} /\ FlameNext
    /\ UNCHANGED <<rvars, cvars, tvars, svars, gvars, lvars, setvars>>

SessionOfTab ==
    /\ world.page = "session" /\ SessionNext
    /\ UNCHANGED <<rvars, cvars, tvars, fvars, gvars, lvars, setvars>>

Groups ==
    /\ world.page = "groups" /\ GroupsNext
    /\ UNCHANGED <<rvars, cvars, tvars, fvars, svars, lvars, setvars>>

Lists ==
    /\ world.page \in {"tasks", "schedules", "agents", "agent"} /\ ListNext
    /\ UNCHANGED <<rvars, cvars, tvars, fvars, svars, gvars, setvars>>

Settings ==
    /\ world.page = "settings" /\ SettingsNext
    /\ UNCHANGED <<rvars, cvars, tvars, fvars, svars, gvars, lvars>>

Next ==
    \/ ResultPage \/ CreationPages \/ Timeline \/ FlamePages
    \/ SessionOfTab \/ Groups \/ Lists \/ Settings

Spec ==
    /\ Init /\ [][Next]_wvars
    /\ ResultFairness /\ CreationFairness /\ TimelineFairness

-----------------------------------------------------------------------------

(* Properties that several pages share; their parts are stated with each.   *)

\* A spinner turns, and a submit button is disabled, only as long as a request
\* is under way, however requests overlap, fail, are cancelled or are overtaken
\* by another task, window or group (the finally blocks of TaskResult.tsx,
\* ContinuousTimeline.tsx, Groups.tsx, TaskList.tsx, ScheduleTasksPanel.tsx and
\* Agents.tsx).
SpinnersHaveRequests ==
    NoSpinnerLeft /\ SpinnerHasRequest /\ GroupsComeToRest /\ ListsComeToRest

\* What a page shows belongs to the task, the window or the pair of tasks that
\* is selected there, in whatever order answers for earlier selections come in
\* (the reset effect of TaskResult.tsx, the effects of ContinuousTimeline.tsx,
\* handleCompare of FlameDiff.tsx).
ShownIsSelected == ShowsItsOwnTask /\ FlameOfSelection /\ ResultFitsPair

\* Once the requests of a page are over and none has failed, the page shows what
\* the server holds, although its requests overlapped and it changed things in
\* the meantime (TaskResult.tsx, Groups.tsx, TaskList.tsx,
\* ScheduleTasksPanel.tsx, Agents.tsx, AgentDetail.tsx, Settings.tsx).
SettledPagesAgree ==
    CompleteWhenSettled /\ GroupsSettled /\ ListsSettled /\ SettingsSettled

=============================================================================
