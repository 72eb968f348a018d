# Mini-Drop in TLA+

Mini-Drop profiles processes on remote hosts. A user asks the API server for a
profile, `drop_server` hands the task to the agent of the host, the agent runs a
collector and stores the result, and an analyzer turns it into flame graphs and
suggestions; a web console creates tasks, follows them and shows the results. This
directory holds TLA+ models of the parts that run concurrently, the console's pages
among them, the TLC configurations that check them, and TLAPS proofs of the
most important invariants.

- [1. The system](#1-the-system)
- [2. Modules and their correspondence to the code](#2-modules-and-their-correspondence-to-the-code)
- [3. What is model-checked](#3-what-is-model-checked)
- [4. Fairness](#4-fairness)
- [5. What is proved](#5-what-is-proved)
- [6. Disagreements with the documents](#6-disagreements-with-the-documents)
- [7. What is not modelled](#7-what-is-not-modelled)
- [8. Plan](#8-plan)

Run a check with `tlc -config MCDropLink_faults.cfg MCDropLink`, a proof with
`tlapm DropLinkProofs.tla`. `PROJECT.json` lists every run, the mutant that shows
each property to have teeth, the source lines of every definition, and the
hazards the properties are aimed at.

## 1. The system

| Component | State | Operations | Talks to |
|---|---|---|---|
| **drop_server scheduler** (`drop/server/HotmethodService.cpp`, `ControlService.cpp`) | per-agent queues `tasks_`, `tasks_state_`, `results_`, one mutex and one condition variable | CreateTask, Collect, FetchData, PopTask (in the heartbeat), UpdateTaskStatus, NotifyResult, CleanupTimeoutTasks (thread, every 10 s), restart with empty memory | API server (gRPC server), agents (gRPC server) |
| **drop_server continuous windows** (same file) | `continuous_tasks_`, `continuous_windows_` | StartContinuousTask, StopContinuousTask, the window part of NotifyResult, ListWindows | same |
| **drop_server heartbeat table** | `agents_` with an online flag | UpdateAgentStatus, GetAllAgentStatus, IsAgentOnline | same |
| **drop_agent** (`drop/agent/HotmethodChannel.cpp`, `HealthCheckChannel.cpp`, `main.cpp`) | `task_queue_`, the worker's current task, `running_` | heartbeat every 5 s, PushTask, WorkerLoop (record, upload, report), ReportStatus and ReportResult with 3 attempts, reconnect, graceful shutdown | drop_server, object storage, collector processes |
| **API server tasks** (`apiserver/server/task.go`) | rows of `hotmethod_task` and `task_state_history`, one waiter goroutine per task | createTaskInternal, RetryTask, waitTaskResult, DeleteTask, the transitions | drop_server (client), PostgreSQL, object storage, analyzer (child process) |
| **API server continuous tasks** (`task.go`) | rows of `continuous_window` and the child tasks | createContinuousInternal, GetContinuousWindows, StopContinuousTask | drop_server, PostgreSQL, analyzer |
| **API server analysis control** (`analysis.go`, `suggestion.go`) | `analysis_status` of a row | TriggerAnalysis, runAnalysis, UpdateAnalysisStatus | analyzer |
| **Analyzer** (`analysis/hotmethod_analyzer.py`) | the lock file of the task, the products in storage | lock, check, mark, analyse, report | API server (HTTP), storage |
| **API server schedules** (`schedule.go`) | rows, cron entries in memory | create, delete, fire, load at start | PostgreSQL, drop_server |
| **API server agents, groups, settings, access** (`agent.go`, `group.go`, `settings.go`, `middleware/auth.go`) | rows | CRUD, synchronisation of agents | PostgreSQL, drop_server |
| **Parsers, analyzers, flame graphs** | none | pure functions | |
| **Web session** (`useAuth.ts`, `Login.tsx`, `AppLayout.tsx`, `api/index.ts`) | cookies, the store | check at startup, login, logout, redirect on 401 | API server, other tabs |
| **Web task creation** (`Home.tsx`, `TaskList.tsx`, `CreateTaskModal.tsx`, `taskPolling.ts`) | form, flags, pollers | submit in three modes, navigate, poll | API server |
| **Web result page** (`TaskResult.tsx`) | task, artifacts, spinners, tab, object URL | loadTask (a chain of requests), interval, refresh, trigger | API server, storage |
| **Web timeline** (`ContinuousTimeline.tsx`) | list, filter, selection, flame | poll, filter, select, stop | API server, storage |
| **Web flame graphs** (`FlameGraph.tsx`, `FlameDiff.tsx`, with `flame.go`) | chart, search, pair | parse, draw, resize, compare | API server |
| **Web groups, lists, settings** (`Groups.tsx`, `TaskList.tsx`, `ScheduleTasksPanel.tsx`, `Agents.tsx`, `AgentDetail.tsx`, `Settings.tsx`) | lists, caches, forms | load, change, reload | API server |

What is hard here, and what makes each part correct:

- *One task has four owners*: row, server table, agent queue and worker, joined by
  calls that time out on one side and are served on the other. Correct means: a
  task runs at most once, a waiting task does not wait for ever, the row never
  claims what did not happen, a final status stays.
- *Reports are retried blindly*: UpdateTaskStatus and NotifyResult have no
  sequence number, so a request that timed out may be served after later ones, or
  twice.
- *Nothing in drop_server survives a restart* and the API server does not start
  its waiters again after one of its own.
- *The cleanup thread* decides by time what may still be under way elsewhere.
- *FetchData locks twice*, *runAnalysis reads and then overwrites*: two places
  where a decision is made on a value that may have changed.
- *Several analyzers of a task* are started by the waiter, by users and by hand,
  and exclude each other by a file lock only, which each container has for itself.
- *A continuous task is a chain* kept alive by the reports of its windows, and its
  windows reach the database only when somebody looks at them: requests that read
  the timeline copy it, concurrently, one statement at a time.
- *A schedule is two things*, a row and a cron entry, changed in two steps.
- *A page of the console is a process*: every handler that awaits a request goes on
  with the closure it started with, after the user has clicked on, left the page or
  opened another task. Answers arrive in any order and are mostly not cancelled.
  Correct means: what is shown belongs together and to what was asked for, spinners
  end, one submission is one task, a logout holds, and polling catches up.

The most important ones, with the line where each of them bites, are under `hazards` in
`PROJECT.json`.

## 2. Modules and their correspondence to the code

```
HotmethodService ---- HotmethodChannel ---- DropLink ---- DropLinkProofs
   |    |                                      |             |
   |    +-- TaskStore --------------------- EndToEnd ---- EndToEndProofs
   |                                           +-- implements --> TaskLifecycle
   +------- CollectWait ---- CollectWaitProofs
Analysis ---- AnalysisProofs
Continuous ---- ContinuousSync ----+-- LongRunning
Schedule --------------------------+      +-- ContinuousProofs, ScheduleProofs
WebWorld ---- TaskResultPage, TaskCreation, TimelinePage, FlameViews,
              Session, GroupsPage, ListPages, SettingsPage ---- WebConsole
              WebConsole ---- ManagementProofs ---- WebConsoleProofs
```

**HotmethodService** — `drop_server`. `queue`, `state`, `result` are `tasks_`,
`tasks_state_`, `results_`; `order` keeps the position of a push, so that a queue is
a set with a front (`IsFront`), which is easier to prove about than a sequence.
`accepted` is the answer given to the creator. Every operation holds `mutex_` from
beginning to end, hence one action each. Time is the set `stale`: the entries
whose timestamp has passed the limit for their status (30 s for PENDING and
DISPATCHED, one hour for final ones); `Elapse` may add an entry at any moment and
every write of the status removes it, as `UpdateTaskStatus` refreshes the
timestamp.

**HotmethodChannel** — `drop_agent`. `hb` is the heartbeat call, `taskQueue` is
`task_queue_`, `phase`/`cur`/`outcome` is where `WorkerLoop` stands. A report is a
request in `net` with the number of its attempt; the worker blocks on it until it is
acknowledged (`ReportOk`), or its deadline passes and it retries (`ReportRetry`) or
gives up (`ReportGivesUp`). A file that could not be uploaded is embedded in the
report. `Shutdown`, `DrainTask`, `AgentExit` are the signal handler, the destructor
that answers the tasks left in the queue, and the end of `main`.

**DropLink** — both together. `HeartbeatDispatch` is `PopTask` inside the heartbeat
handler; `LostResponse` is the same with a response that never arrives; `Serve`
takes any request of `net`, in any order, however old. The constant `Faults`
switches deadlines, losses, shutdowns, crashes and restarts on.

**CollectWait** — the blocking `Collect` call: push, then sleep on `cv_` with a
predicate; every operation that calls `notify_all` wakes all sleepers. The agents
are left open here: once a task is handed out, any result and any status the RPC takes
may be reported, in any order. The handler of a status report does not notify;
`reported` remembers the tasks whose status was written last by one.

**TaskLifecycle** — what the API server promises: each change of a status is
recorded with the status it started from; PENDING is never returned to; SUCCESS and
FAILED are final.

**TaskStore** — the API server. `row`, `status`, `trail` are the rows of
`hotmethod_task` and `task_state_history`; `waiter` is the program counter of the
goroutine that creates the task and then polls, `reply` what it got. `GetResult` and
`GetTaskStatus` are the two locks of `FetchData`. Statuses are mapped by
`NormalizeTaskStatus` as in the code (DISPATCHED is shown as PENDING, TIMEOUT as
FAILED). `SyncDropTaskStatus` and `Finish` are the loops that walk the row forward.
`DeleteTask` is a soft delete, followed by `PurgeObjects`; `APICrash` forgets the
goroutines.

**EndToEnd** — TaskStore and DropLink joined by CreateTask and FetchData. A
CreateTask request that its caller gave up may be served later. The refinement
mapping to TaskLifecycle is `ImplementsLifecycle`: row status and trail map to
themselves, except that in the two statements "write the row, insert the history" the
abstract status changes with the second.

**Analysis** — one task, any number of analyzer processes. `pc` follows `main` of
`hotmethod_analyzer.py`. `holder` has the lock file in the container of the API server,
which its children share; an analyzer started by hand runs in the container
`analysis-runner` and locks a file of its own, and a process whose `flock` raises an
`OSError` goes on without (`LockFails`). `parent` is the goroutine in `runAnalysis`, including its
fallback after a child that failed (`FallbackRead`, `FallbackWrite`). `late` holds
the PUTs of killed processes. `stale` is the 30 minutes after which a RUNNING row
counts as abandoned.

**Continuous** — one continuous task of `drop_server`. `config` is its entry in
`continuous_tasks_`, `windows` its records, `queue`/`wstate` its part of the
scheduler's tables. The agent is reduced to a queue and one window at work. A window
can be queued twice when a report is repeated, so queues are sequences and the
requests on their way a bag. A late copy of a RUNNING report stands for the repeated
ones.

**ContinuousSync** — the API server's side of a continuous task, on top of
Continuous. `parent` is its row, `wrow` and `child` the rows of `continuous_window` and
of the child tasks, `sync` where each request in `GetContinuousWindows` stands: one
action per statement (`ReadWindow`, `WriteWindow`, `ReadChild`, `CreateChild` or
`UpdateChild`), with the unique indexes as the only thing between two requests.
`pending` holds handlers that drop_server has answered and that have not written yet.

**Schedule** — rows and entries of the cron scheduler; `handlers` is what the create
and delete handlers have still to do. **LongRunning** puts both into one
specification; a world has the one or the other.

**The web console.** `WebWorld` declares the variable `world`, **WebConsole** joins the
page modules: pages keep no state for each other, so in each world one page runs. In
every page module, a request under way is a record (or an element of a sequence) that
holds what its closure captured; sending, the effect on the server, the answer and the
failure are actions of their own, and every effect hook is part of the action that
triggers it.

- **TaskResultPage** — `view` is the component state, `loads` the calls of `loadTask`
  under way with the request each is at (`Requests`), `ticker` the interval, `urlRef`
  and `live` the object URL of a Memray page and those not revoked. The tabs
  (`FlameTab`, `TopnTab`, ...) are functions of the state: what is drawn is reduced to
  which of its branches a tab takes.
- **TaskCreation** — `pg` is the page with its dialog, `subs` the submissions under way,
  `pollers` the pollers. The collector the dialog shows and the agent's choice (`CreateProfiler`) are
  compared for every sequence of selections.
- **TimelinePage** — `wins` on the server, `tlist` and `tsel` on the page, list and flame
  requests under way with the filter or window they were sent for. A window is recorded
  when it is over: done with the key of its artifact, done without one because the file
  was embedded in the report (`bare`), or failed.
- **FlameViews** — trees as functions from paths to values: `ParseCollapsedToTree`
  against the sums it stands for, `PruneZeroDeltaNodes` and `TransformTree` of a
  comparison, the chart with its effects and timer, the comparison page.
- **Session** — cookies, store, startup check, requests under way by the cookies they
  carry; another tab may change the cookies. `GoBack` is the history leading from the
  login page back to a page of the application, with the store as it is.
- **GroupsPage**, **ListPages**, **SettingsPage** — the server's rows and the page's copy of
  them, with chains of requests that overlap. A change on the server while an answer is
  on its way is remembered (`outdated`), as a page cannot know of it. The server reads
  the settings one by one, and one that cannot be read is answered as if it were empty
  (`Answer`): `known` are the fields of the form that were last filled with a stored
  value, `blind` those that were saved without.

Analysis, LongRunning and WebConsole choose their *world* (what can go wrong, what
users do) in the initial state, from the constant `Worlds`. One run then covers several
sets of circumstances, and a property that needs an assumption about them states it.

## 3. What is model-checked

| Run | Instance | Shows |
|---|---|---|
| `drop_faults` | 1 task, 1 agent, 3 attempts, all faults | `QueuedIsPending`: no task that was declared FAILED is still in a server queue. `RunsOnce`: a task is in one place and is taken up once. `StatusMatchesResult`: DONE comes with data and FAILED without, also when reports are served late and twice. `WaitingEnds`: nothing stays PENDING or DISPATCHED for ever. |
| `drop_settles` | 2 tasks, 1 agent, queues of 1, shutdowns and lost heartbeat responses | `EveryTaskSettles`: a queued task ends for good; `AcceptedIsAnswered`: a task in an agent's queue is answered, across a graceful shutdown. |
| `drop_terminal` | 2 tasks, no fault | violation of `TerminalIsFinal`, see 6. |
| `collect_wait` | 2 calls, queue of 1, any reports | `NoMissedWakeup`: no call sleeps on a result, or on a failure that the cleanup declared; `AnsweredWhenFinished`: it is answered without help of its deadline. |
| `e2e_faults` | 1 task, every failure but a crash of the API server, deletion | `RowTellsTheTruth`, `AnalysisHasInput` (the analysis starts with a stored result only), `ImplementsLifecycle`, `RowSettles`. |
| `e2e_retry` | 2 tasks, crash of the API server | a second task, or a retry, while agent and drop_server still work on the first. |
| `e2e_success_unanalysed` | 1 task, no fault | violation of `SuccessIsAnalysed`, see 6. |
| `analysis_faults` | 3 processes, 4 worlds | `SuccessHasProducts` under every fault; `OneAtATime` for the children of the API server as long as `flock` works, `SuccessStays` if in addition the status can be read, nothing is late and nobody starts an analyzer by hand; `RunningHasOwner` and `AnalysisEnds` under the faults the fallback is there for. |
| `analysis_fallback` | 1 process | violation of `FallbackKeepsOutcome`, see 6. |
| `chain` | chains of 2 to 4 windows in 4 worlds; 2 requests on chains of 1 and 2 windows in 3; 2 schedules | `NoGapInTimeline`, `NothingNewOnceStopped` under every failure; `OneWindowAtATime` without repeated reports; `ChainGoesOn` with failed windows, embedded results and repeated reports. `NoGapInTable`: the timeline in the database has no gap; `WindowsAreAnalysed`: a stored window becomes a task and is analysed whatever the order of two requests, and becomes a task in spite of a crash; `EndedIsStopped`: a row that says ended is one drop_server has stopped. `SchedulesFireAsListed`: rows and cron entries agree across crashes. |
| `web` | 34 worlds, see below | All pages: `SpinnersHaveRequests`: a spinner turns only while a request is under way; `ShownIsSelected`: what is shown belongs to the task, window or pair selected; `SettledPagesAgree`: once requests are over, a page shows what the server holds. Result page: `MemrayFrameIsLive`, `FollowsPromptTask`. Creation: `SubmissionsAreTrue`: what is submitted is what the form showed, within its limits, once; `PollersEnd`. Timeline: `UnfilteredListCatchesUp`. Flame graphs: `TreesKeepSamples`, `ChartIsCurrent`. Session: `SessionIsSound`: the store and the cookies are of one user, there is no loop of redirects, and only a login or another tab shows a page after a logout (`LogoutHolds`). Settings: `UntouchedSettingsKept`, field by field. |
| `web_result_unseen` | 1 world | violation of `FollowsTask`, see 6. |

*Why these bounds are enough to be interesting.* One task meets all of its own late
and repeated reports: three attempts are what the code makes. A second task matters
where tasks compete: for the places of a queue (limit 1 instead of 100, so that full
queues happen) and for the worker. Agents do not interact with each other; the
theorems cover any number. Three analyzers give one that works, one that waits and
one that is started meanwhile. In `Continuous`, `MaxAlive` stops a fork of the chain
from forking again, and `MaxCopies` is 2 because a third copy repeats what the second
does. Two requests for the windows are what it takes for each to leave something to the
other; the API server crashes once.

In `MCWebConsole` a world gives one page its users, its server and its failures:
`ResultWorlds` has a task of each kind, watched, refreshed, triggered, left and
exchanged for another, with at most two loads under way; `CreationWorlds` overlapping
submissions, every task type, numbers at and beyond the limits and lost answers;
`TimelineWorlds` selections by hand, two time ranges, lost lists and a stop;
`FlameWorlds` all collapsed texts of two lines over two frames, in pairs for the
comparison; `SessionWorlds` two users with and without another tab; `ManagementWorlds`
three clicks, or two and a failed request, on each of the other pages. Two overlapping
requests, and two items to confuse, are what the races of a page need; a page of the
table holds one row, so that the last page can become empty after one click.

`CHECK_DEADLOCK FALSE` stands where the modelled work may simply be over: all
Collect calls answered, all analyzers exited, the last window recorded.

In `web` deadlock is not an error either: a page at which nobody clicks any more and
which polls nothing is at rest. The properties that speak of the page at rest (no request
under way) are checked there.

Each property of a passing run has a mutant of a mapped definition (a dropped guard,
a missing notify, a failure that is ignored...) under which TLC finds it violated.

## 4. Fairness

- `CleanupSpec` (in `drop_faults`): only the passing of time and the cleanup thread
  are fair. `drop/server/main.cpp` runs the cleanup every 10 s in a thread of its own.
- `FairSpec` of DropLink: in addition heartbeats (every 5 s), the worker thread and
  the serving of requests. Losses and shutdowns stay possible.
- `FairSpec` of CollectWait: a woken thread gets the mutex at last. The deadline of
  the call is *not* fair: the answer must come without it.
- `WaiterSpec` of EndToEnd: the waiter goroutine runs (a 3 s ticker and 5 s
  deadlines on its calls), and its own deadline passes at last. Nothing is assumed of
  drop_server or the agent.
- `FairSpec` of Analysis: handlers and goroutines run and child processes make
  progress, which the 10 minute limit of `runAnalysis` ensures. A process waiting for
  the lock is only scheduled when the lock is free (weak fairness).
- `SyncFairness` (in `chain`): heartbeats, worker and gRPC server, each request for the
  windows and the analyzers. The timeline page asks every 5 s; that somebody looks at
  it is an assumption of `WindowsAreAnalysed`, since nothing else copies the windows.
- `ResultFairness`, `CreationFairness`, `TimelineFairness` (in `web`): requests are answered
  or fail (axios gives up after 30 s), the timers of the page fire, and the task on the
  server goes on. They hold in the worlds with `fair` only, and the properties that need
  them name the world. Nothing is assumed of users.
- `PromptSpec` (for the violation in `drop_terminal`) and `RetrySpec` restrict rather
  than extend: an entry gets stale only when nothing else that is prompt is pending;
  a second task is created only when no goroutine is at work on the first.

## 5. What is proved

With TLAPS, for any set of tasks, agents and processes, any limits, any set of faults,
and chains, windows and numbers of requests without bound:

| Theorem | Statement |
|---|---|
| `DropLinkProofs!TypeCorrect` | `Spec => []TypeOK` |
| `DropLinkProofs!NoFailedTaskIsQueued` | `Spec => []QueuedIsPending` |
| `DropLinkProofs!NoTaskRunsTwice` | `Spec => []RunsOnce` |
| `DropLinkProofs!StatusAndResultAgree` | `Spec => []StatusMatchesResult` |
| `CollectWaitProofs!NoWakeupIsMissed` | `Spec => []NoMissedWakeup` |
| `EndToEndProofs!RowsTellTheTruth` | `SpecAll => []RowTellsTheTruth` |
| `EndToEndProofs!AnalysesHaveInput` | `SpecAll => []AnalysisHasInput` |
| `EndToEndProofs!RowsImplementLifecycle` | `SpecAll => ImplementsLifecycle`, if the API server does not crash |
| `AnalysisProofs!TypeCorrect` | `Spec => []TypeOK` |
| `AnalysisProofs!LockExcludes` | `Spec => []OneAtATime` |
| `AnalysisProofs!NoSuccessWithoutProducts` | `Spec => []SuccessHasProducts` |
| `AnalysisProofs!NobodyForgetsARunningRow` | `Spec => []RunningHasOwner` |
| `AnalysisProofs!AnalyzersKeepSuccess` | `Spec => SuccessStays` |
| `ContinuousProofs!TimelineHasNoGap` | `Spec => []NoGapInTimeline` |
| `ContinuousProofs!WindowsOneByOne` | `Spec => []OneWindowAtATime` |
| `ContinuousProofs!StoppedStaysStopped` | `Spec => NothingNewOnceStopped` |
| `ContinuousProofs!TableHasNoGap` | `Spec => []NoGapInTable` |
| `ContinuousProofs!EndedParentsAreStopped` | `Spec => []EndedIsStopped` |
| `ScheduleProofs!SchedulesFireAsListedAlways` | `Spec => []SchedulesFireAsListed` (`ListedSchedulesFire` and `NoOtherGhosts`) |
| `ManagementProofs!SessionIsSoundAlways` | `Spec => []SessionIsSound` (`StoreMatchesCookie`, `NoRedirectLoop` and `LogoutHolds`) |
| `ManagementProofs!LogoutHoldsAlways` | `Spec => []LogoutHolds` |
| `ManagementProofs!UntouchedSettingsAreKept` | `Spec => []UntouchedSettingsKept` |
| `WebConsoleProofs!ChartsAreCurrent` | `Spec => []ChartIsCurrent` |
| `WebConsoleProofs!FramesAreLive` | `Spec => []MemrayFrameIsLive` |
| `WebConsoleProofs!SelectionIsShown` | `Spec => []ShownIsSelected` |
| `WebConsoleProofs!SpinnersTurnForRequests` | `Spec => []SpinnersHaveRequests` |
| `WebConsoleProofs!SubmissionsTellTheTruth` | `Spec => []SubmissionsAreTrue` |
| `WebConsoleProofs!SettledPagesAgreeAlways` | `Spec => []SettledPagesAgree` (`CompleteWhenSettled`, `GroupsSettled`, `ListsSettled`, `SettingsSettled`) |

*DropLink.* The invariants are not inductive alone: a report that is served could
belong to a task that is still queued, and would then change its status behind the
queue's back. `IInv` therefore adds `WorkersAtTheirTask` (worker and requests under
way are about tasks that were taken up) and `UnknownIsNowhere` (a task id that was
never pushed is in no queue, heartbeat or worker; ids are drawn once). With `RunsOnce`
a taken task is in no queue, so no report can touch a queued one. The proof has one
lemma per group of actions. Assumptions: the limits are positive, the marks `NONE`
and `SENT` are no task ids.

*CollectWait.* `WaitInv` is the type with `NoMissedWakeup` and the fact that only finitely
many tasks were pushed, which keeps the order of pushes a number. The predicate of a
sleeping call can become true by a result, a status report or the cleanup only. The first
and the last wake everybody; the second wakes nobody and is remembered in `reported`,
which is what `Announced` leaves out. Same assumptions.

*EndToEnd.* drop_server and agents take steps of DropLink only, so `IInv` holds here too.
`StoreInv` has three parts for each task. `StartedSaysSo`: not only the row but also the
answer the waiter has in hand speaks of work only if a worker took the task up, and that
stays true when drop_server restarts and forgets it; `RowTellsTheTruth` alone is not
inductive, because the status is read in one step and written in another.
`RowAndWaiter`: which status the row may have where the goroutine stands. `ArtifactKept`:
an embedded file is stored before the waiter ends, and only deleted tasks are purged.
For the refinement, `TrailInv` says that the last record of the history is the status of
the row, except between the two writes of a creation and of a failed dispatch; with it
every step writes one record that TaskLifecycle allows, or none. This is the one theorem
with a hypothesis about faults: after a crash of the API server between the two writes a
row keeps a status that was never recorded.

*Analysis.* `SafeInv`: a child of the API server that is inside holds the lock if `flock`
works, and who is about to report a success has uploaded. `OwnerInv`, for supervised worlds: every process at work has a
goroutine that waits for it, none is started by hand (it would skip a RUNNING row and
exit with 0), so a process that ends either writes a final status or is followed by
the fallback. `FreshInv`, for children of the API server in worlds in which `flock` works, the
status can be read and nothing comes late: who has passed the check works on a row that does not say SUCCESS, since only the
holder of the lock can write that and he leaves with it.

*Continuous.* `Effect` says once what a step may do: a window comes under way only by
StartContinuousTask or by the result of the window before in a running task, and a record
comes only from a result. On it rests `ChainInv`: records are in order and a window under
way has all windows before it recorded (`TimelineInv`), which is what makes a repeated or
late report harmless to the timeline; and without repeated reports the window under way
is in one place (`OnePlace`): a queue, the agent, or a request. *ContinuousSync.*
`SyncInv` adds that of the list a request walks through, the windows before each one have
a row or come earlier in the list (`Covered`), so that two requests with lists of
different age leave no gap, and that a stop which is still to be written to the parent's
row has been taken by drop_server (`EndedInv`). Assumptions: the bounds are numbers, the
faults of a world are faults that exist.

*Schedule.* `ScheduleInv` adds `HandlersInv`: who has still to remove an entry has deleted
its row for good, and who has still to make one finds the row live or leaves a known
ghost. For any schedules and any number of handlers at once. No assumptions. The steps
of continuous tasks leave schedules alone, so `LongRunning!Spec` implies `ScheduleSpec`
and the theorem holds of the composition; likewise for `SessionSpec` in the console.

*Session.* `SessionInv` adds to the type and to `StoreMatchesCookie`: `CheckInv`, that a
check which nothing overtook was sent with the cookies of now while the store still
waits, so that its answer fits them; and `RedirectInv`, that after a redirect no request
without cookies is under way and none can be sent, because without a cookie nobody is or
is about to be logged in. `GoneInv`, for `LogoutHolds`: after a logout the store holds
nobody and no check is under way that could fill it. For any users and any number of logins and requests under way.
The only assumption is that `"none"` is not a user.

*The console.* Each page has an invariant of its own variables, which the steps of the
other pages leave alone.
`ChartInv` adds that what is not drawn is not highlighted. `SettingsInv`: every copy of
the settings, stored, in the form, sent or on its way back, keeps what was not typed,
but for a field that nobody could read, which is blank in the copy and, once saved, in
the others.
`ResultInv` for the result page: at most one object URL is alive and the ref names it; a
spinner belongs to a load at the request of that spinner (`SpinnersInv`: of two loads at
the same request, one may take the spinner down under the other, but none leaves it
behind); all loads under way are of the tid in the URL until it changes under one of them
(`OwnTaskInv`). `TimelineInv`: a request that was not cancelled is for the window
selected. `DiffInv`: the same for the pairs of a comparison. `GroupsInv`, `ListsInv`: a
flag that is up belongs to a chain that will take it down, and which kind of chain is
where. `CreationInv` for the creation of tasks: the collector fits the type and the event
in every state of the form, whatever was selected before (from which the choice shown is
the one that runs); the numbers of continuous tasks are within their limits or NaN, which
gives way to a default; no two submissions that the page's flag stands for; a submission
past its creation, and a poller at work, have a task.

*Pages at rest.* What a page shows once its requests are over cannot be proved from the
state at rest: it is the end of whatever overlapped before. Each page therefore has a
second invariant, on top of the one above, of the same form: as long as nothing failed,
every piece of the page is up to date, known to be overtaken, or there is a request under
way that will bring it; at rest only the first is left.
`CompleteInv` for the result page: while it shows an analysed task, every panel for which
the task has an artifact is filled, or some load `Owes` it: it has still to send its first
request, or knows the file and stands before its request in the list of requests. A load
empties panels when it begins, and then owes them all. That no request is skipped
(`NoneSkipped`) is an argument about the least place in this list; that an answer of
an analysed task names all of its files (`TellsAll`) needs that what the analysis has made
stays (`Ready`), also when it is triggered again. Memray is not requested again while the
ref has a URL, and then the frame shows one.
`FormInv` for the settings: an answer on its way that no save has overtaken is what is
stored, and a form that is not edited shows what is stored or a chain will fill it.
`ShownInv` for the lists: the same for the rounds of a load, for rows, for the second list
of the task page and of an agent's page, and for the statistics, which come a round
later. `TeamInv` for the groups: the same for the list of groups and for the members of
each; a load without a selection will open the first group, so the invariant also has to
know which group that is, `First`, and that no new group takes its place (`GidsInv`).
These were checked with TLC on the worlds of `web` and on larger ones before they were
proved.

Assumptions: `TidsAssumption` (a task id is not the empty string), `GidsAssumption`
(group ids are positive numbers, as the database draws them) and `WorldsAssumption` (what
a world gives a page has the right type; a task that is analysed at the start has its
artifacts).

Model-checked only: liveness and everything under fairness (`WaitingEnds`,
`EveryTaskSettles`, `AcceptedIsAnswered`, `AnsweredWhenFinished`, `RowSettles`,
`AnalysisEnds`, `ChainGoesOn`, `WindowsAreAnalysed`, `FollowsPromptTask`, `PollersEnd`,
`UnfilteredListCatchesUp`), which the provers do not reach; and `TreesKeepSamples`, which
says what folds over all collapsed texts compute and would need an induction over them. The
types `APITypeOK`, `ChainTypeOK`, `SyncTypeOK` and that of CollectWait are asserted by no
run: they are conjuncts of the inductive invariants.

## 6. Disagreements with the documents

- **`TerminalIsFinal`** (`drop_terminal`): `DESIGN.md` draws FAILED without a way out.
  A task that waits behind a longer one in its agent's queue is declared FAILED after
  30 s and is then executed: FAILED, RUNNING, UPLOADING, DONE in `tasks_state_`. (The
  row is not affected: the waiter has stopped, which is what `ImplementsLifecycle`
  shows. The result of the run is lost.)
- **`SuccessIsAnalysed`** (`e2e_success_unanalysed`): when the result is reported
  between the two locks of FetchData, the waiter is told that the task is done but not
  what its result is. The row becomes SUCCESS, the file is not stored and no analysis
  starts.
- **`FallbackKeepsOutcome`** (`analysis_fallback`): the comment in `runAnalysis` says
  that a final status of the child is not overwritten. It is, when it is written
  between the read and the unconditional update.
- **`FollowsTask`** (`web_result_unseen`): `DESIGN.md` says that the console shows the
  status of tasks in real time, and the dialog that it polls until the analysis is done.
  The interval of the result page ends itself when it fires before the first load was
  answered, or after a load that met the task collected and its analysis not yet begun;
  the page then stays there. `FollowsPromptTask` shows that this is all it takes:
  otherwise polling reaches the final state, failed polls included.

Known limits that no document excludes and that the properties therefore leave out
by a stated assumption: rows are not picked up again after a restart of the API
server; a success whose report fails leaves the row RUNNING; a repeated report forks
the chain of a continuous task; a lost window ends it; a crash of the API server costs
the analysis of a window whose task was just made; a schedule deleted in the task list
fires until the next start; a Collect call sleeps to its deadline on a FAILED or TIMEOUT
that an agent reports by `UpdateTaskStatus`, whose handler does not notify (`Announced`;
the agent of this repository reports neither). In the console: an answer for the task
before may be shown after a change of tid (`ShowsItsOwnTask` leaves these out by `mixed`),
and of the pair before in a comparison (`touched`); a login overtaken by the startup check
(`overtaken`), and a logout while that check is still out; Home's alarm after a task was
created and its list could not be loaded; settings saved before they had arrived, or after
a read of the database failed and was answered as empty (`blind`); a spinner left over a
window that failed or has no artifact of its own. `hazards` in `PROJECT.json` has the
lines.

The analyzer's lock does less than its comment says (`hotmethod_analyzer.py` 167, "prevents
concurrent repeated runs"): an analyzer started by hand locks a file in the `/tmp` of its
own container, and one whose `flock` fails goes on. Such a process may work beside the
others, and if it fails overwrite their SUCCESS. `OneAtATime` is therefore about the
processes that share a lock (`Locked`), and `SuccessStays` about worlds in which all do
(`Serialised`).

## 7. What is not modelled

- the SQLite log of `drop_server`: written, never read;
- the heartbeat table and the synchronisation of agents into the database: `ip_addr` has
  no unique index and the audit rows no guard, so concurrent requests may write both
  twice, and there is no guarantee to state beyond that; access rules;
- reconnect and the threads of the agent at shutdown; killing collectors;
- databases that fail: every statement of the API server succeeds, except the
  duplicate ids it checks for and the settings, whose reads and writes may fail one by
one; object storage
  may fail;
- collectors: a collector succeeds or fails. Their command lines and output formats
  are those of external tools;
- of the console: drawing, styling, animation, wording, the tables inside a tab,
  `flatDataToTree`, the audit log and the charts of statistics, label maps,
  `ErrorBoundary` and mounting;
- generated code, third-party scripts, deployment.

## 8. Plan

Done: the core (HotmethodService, HotmethodChannel, DropLink, CollectWait), the API
server's tasks (TaskLifecycle, TaskStore, EndToEnd), Analysis, Continuous,
ContinuousSync, Schedule, the web console (eight page modules and WebConsole), and proofs
of every safety property that the runs check but `TreesKeepSamples`. In this order, next:

1. **AgentThreads**: the shutdown of worker and heartbeat threads (the condition variable
   is notified without its mutex), reconnect, and ProcessKiller.
2. **Pure algorithms** of the analyzer (`_truncate_collapsed`, `_select_downloaded_input`,
   the collapsed-stack parser) as operators, checked against reference definitions over
   all small inputs.
