----------------------------- MODULE TaskCreation -----------------------------
(* Creating a task in the web console: the pages Home and TaskList, which   *)
(* hold the form and the submission, the dialog CreateTaskModal that they   *)
(* show, and the poller of taskPolling.ts that a submission leaves behind.  *)
(* A handler that awaits a request goes on after the user has closed the    *)
(* dialog, switched its mode or left the page.                              *)
EXTENDS WebWorld, Integers, Sequences, FiniteSets

CONSTANTS
    MaxTasks,     \* bound: tasks created
    MaxPolls      \* MAX_POLL_COUNT of taskPolling.ts

VARIABLES
    loc,          \* the page the user is on
    inst,         \* the number of page instances mounted so far
    pg,           \* the state of the mounted Home or TaskList
    subs,         \* submissions under way: handlers that await a request
    tasks,        \* the server's tasks, in the order of their creation
    pollers       \* tid -> the poller created for it

cvars == <<loc, inst, pg, subs, tasks, pollers>>

Modes == {"oneshot", "continuous", "natural"}
Forms == {"home", "tasks"}
TaskIds == 1 .. MaxTasks

NoPoller == [at |-> "none", seen |-> "collecting", polls |-> 0,
             triggered |-> FALSE, aborted |-> FALSE]

\* The numbers of the form; chz and window belong to continuous tasks.  NaN is
\* what a text that is no number becomes.
Fields == {"pid", "duration", "hz", "chz", "window"}
NaN == 0 - 1
DefaultNum == [f \in Fields |-> CASE f = "pid" -> 0 [] f = "duration" -> 30
                                 [] f = "hz" -> 99 [] f = "chz" -> 10
                                 [] f = "window" -> 300]

\* agents: the list is there, and with it a target in the form.
FreshPage == [open |-> FALSE, mode |-> "oneshot", submitting |-> FALSE,
              nlSubmitting |-> FALSE, dialog |-> 0, agents |-> FALSE,
              type |-> 0, profiler |-> 0, event |-> "cpu-cycles",
              num |-> DefaultNum, poller |-> 0]

Mounted(s) == s.inst = inst /\ loc \in Forms

-----------------------------------------------------------------------------
(* The dialog.                                                              *)

Busy(m) == pg.submitting \/ (m = "natural" /\ pg.nlSubmitting)

\* JavaScript's "value or default": zero and NaN give way to the default.
Or(x, default) == IF x \in {0, NaN} THEN default ELSE x

InRange(f, x) ==
    CASE f = "pid" -> x > 0
      [] f = "duration" -> x \in 1 .. 3600
      [] f \in {"hz", "chz"} -> x \in 1 .. 1000
      [] f = "window" -> x \in 15 .. 3600

\* The submit button of the dialog.  Natural language needs no target.
CanSubmit ==
    /\ ~Busy(pg.mode)
    /\ pg.mode = "natural" \/ /\ pg.agents /\ InRange("pid", pg.num["pid"])
                              /\ InRange("hz", Or(pg.num["hz"], 1))
    /\ pg.mode = "oneshot" => InRange("duration", pg.num["duration"])

\* The inputs clamp what is typed; Math.max and Math.min pass NaN on.
Clamped(f, x) ==
    LET low == IF f = "window" THEN 15 ELSE 1
        high == IF f \in {"hz", "chz"} THEN 1000 ELSE 3600
    IN  CASE x = NaN -> NaN
          [] x # NaN /\ x < low -> low
          [] x > high /\ f # "pid" -> high
          [] OTHER -> x

TypeNumber(f, x) ==
    /\ pg.open /\ pg.mode # "natural"
    /\ pg.mode = "oneshot" => f \notin {"chz", "window"}
    /\ pg.mode = "continuous" => f \notin {"hz", "duration"}
    /\ pg' = [pg EXCEPT !.num[f] = Clamped(f, x)]
    /\ UNCHANGED <<loc, inst, subs, tasks, pollers>>

\* The numbers in the request of a task.
Payload(mode, num) ==
    CASE mode = "oneshot" -> [f \in {"pid", "duration", "hz"} |->
                                IF f = "hz" THEN Or(num["hz"], 99) ELSE num[f]]
      [] mode = "continuous" -> [f \in {"pid", "chz", "window"} |->
                                CASE f = "pid" -> num["pid"]
                                  [] f = "chz" -> Or(num["chz"], 10)
                                  [] f = "window" -> Or(num["window"], 300)]
      [] mode = "natural" -> [f \in {} |-> 0]

\* A dialog that no submission under way was started in.
NewDialog ==
    CHOOSE d \in 1 .. world.subs + 1 : \A s \in subs : s.dialog # d

Opened(p) == IF p.open THEN p ELSE [p EXCEPT !.open = TRUE, !.dialog = NewDialog]

OpenModal ==
    /\ loc \in Forms /\ ~pg.open
    /\ pg' = Opened(pg)
    /\ UNCHANGED <<loc, inst, subs, tasks, pollers>>

\* The select of the collection type sets the collector, and the event only
\* for some types; for the others the last one stays.
ProfilerFor(type) ==
    CASE type = 1 -> 1 [] type = 6 -> 3 [] type \in {10, 11} -> 2
      [] type = 4 -> 4 [] type = 12 -> 5 [] type = 5 -> 6 [] OTHER -> 0

\* Mutant: the event of Go CPU profiles is left to what was there.
EventForKeepsCpu(type, event) ==
    CASE type = 11 -> "heap" [] type = 0 -> "cpu-cycles" [] OTHER -> event

EventFor(type, event) ==
    CASE type = 10 -> "cpu" [] type = 11 -> "heap" [] type = 0 -> "cpu-cycles"
      [] OTHER -> event

ChooseType(type) ==
    /\ pg.open /\ pg.mode # "natural" /\ type # pg.type
    /\ pg' = [pg EXCEPT !.type = type, !.profiler = ProfilerFor(type),
                        !.event = EventFor(type, @)]
    /\ UNCHANGED <<loc, inst, subs, tasks, pollers>>

ChooseEvent(event) ==
    /\ pg.open /\ pg.mode = "oneshot" /\ pg.type = 6
    /\ pg' = [pg EXCEPT !.event = event]
    /\ UNCHANGED <<loc, inst, subs, tasks, pollers>>

\* What the dialog shows as chosen: the eBPF select shows its first entry for
\* an event it does not list.
ShownChoice(type, event) ==
    CASE type = 6 -> IF event = "sched" THEN "bpf sched" ELSE "bpf io"
      [] type = 10 -> "pprof cpu" [] type = 11 -> "pprof heap"
      [] type = 1 -> "async" [] type = 4 -> "memray" [] type = 12 -> "java heap"
      [] type = 5 -> "resource" [] OTHER -> "perf"

\* What drop_agent runs for the request.
CreateProfiler(profiler, event) ==
    CASE profiler = 1 -> "async"
      [] profiler = 2 -> IF event = "heap" THEN "pprof heap" ELSE "pprof cpu"
      [] profiler = 3 -> IF event \in {"sched", "schedule"} THEN "bpf sched"
                         ELSE "bpf io"
      [] profiler = 4 -> "memray" [] profiler = 5 -> "java heap"
      [] profiler = 6 -> "resource" [] OTHER -> "perf"

\* The dialog is unmounted: its own state is lost, the page's stays.
CancelModal ==
    /\ pg.open
    /\ pg' = [pg EXCEPT !.open = FALSE, !.dialog = 0, !.nlSubmitting = FALSE]
    /\ UNCHANGED <<loc, inst, subs, tasks, pollers>>

SwitchMode(m) ==
    /\ pg.open /\ m # pg.mode
    /\ pg' = [pg EXCEPT !.mode = m]
    /\ UNCHANGED <<loc, inst, subs, tasks, pollers>>

\* The agents arrive, the first one online as the default target.
AgentsArrive ==
    /\ loc \in Forms /\ ~pg.agents
    /\ pg' = [pg EXCEPT !.agents = TRUE]
    /\ UNCHANGED <<loc, inst, subs, tasks, pollers>>

\* plan: the dialog only asks how the server understands the text.
Submit(plan) ==
    /\ pg.open /\ CanSubmit
    /\ plan => pg.mode = "natural"
    /\ Cardinality(subs) < world.subs
    /\ subs' = subs \cup {[inst |-> inst, from |-> loc, kind |-> pg.mode,
                           at |-> "create", tid |-> 0, plan |-> plan,
                           dialog |-> pg.dialog,
                           sent |-> Payload(pg.mode, pg.num),
                           shown |-> ShownChoice(pg.type, pg.event),
                           runs |-> CreateProfiler(pg.profiler, pg.event)]}
    /\ pg' = IF pg.mode = "natural" THEN [pg EXCEPT !.nlSubmitting = TRUE]
             ELSE [pg EXCEPT !.submitting = TRUE]
    /\ UNCHANGED <<loc, inst, tasks, pollers>>

-----------------------------------------------------------------------------
(* Navigation.  A page that is left aborts the poller it refers to.         *)

Abort(ps, t) == IF t = 0 THEN ps ELSE [ps EXCEPT ![t].aborted = TRUE]

\* ps are the pollers once the handler is through, p the page's state.
GoTo(where, p, ps) ==
    /\ loc' = where
    /\ pg' = FreshPage
    /\ inst' = inst + 1
    /\ pollers' = IF loc \in Forms THEN Abort(ps, p.poller) ELSE ps

Stay(p) == pg' = p /\ UNCHANGED <<loc, inst, pollers>>

Visit(where) ==
    /\ where # loc /\ inst < world.visits
    /\ GoTo(where, pg, pollers)
    /\ UNCHANGED <<subs, tasks>>

-----------------------------------------------------------------------------
(* The rest of a submission, request by request.                            *)

\* The finally block: the page's flag, or that of the dialog that asked.
Ended(s, p) ==
    CASE Mounted(s) /\ s.kind # "natural" -> [p EXCEPT !.submitting = FALSE]
      [] Mounted(s) /\ s.kind = "natural" /\ s.dialog = p.dialog ->
            [p EXCEPT !.nlSubmitting = FALSE]
      [] OTHER -> p

Closed(s, p) ==
    IF Mounted(s) THEN [p EXCEPT !.open = FALSE, !.dialog = 0,
                                 !.nlSubmitting = FALSE]
    ELSE p

\* TaskList starts the next task from the default form.
ResetForm(s, p) ==
    IF Mounted(s) THEN [p EXCEPT !.type = 0, !.profiler = 0,
                                 !.event = "cpu-cycles", !.num = [DefaultNum
                                   EXCEPT !["chz"] = p.num["chz"],
                                          !["window"] = p.num["window"]]]
    ELSE p

\* The server creates the task; the page hears of it.  Natural language goes
\* to the kind of task the server planned.
Created(s) ==
    LET t == Len(tasks) + 1 IN
    /\ s.at = "create" /\ ~s.plan
    /\ t \in TaskIds
    /\ \E kind \in (IF s.kind = "natural" THEN {"oneshot", "continuous"}
                    ELSE {s.kind}) :
        /\ tasks' = Append(tasks, [stage |-> "collecting", kind |-> kind])
        /\ IF s.kind = "oneshot"
           THEN /\ subs' = (subs \ {s}) \cup {[s EXCEPT !.at = "refresh",
                                                        !.tid = t]}
                /\ Stay(Closed(s, IF s.from = "home" THEN pg
                                  ELSE ResetForm(s, pg)))
           ELSE /\ subs' = subs \ {s}
                /\ GoTo(IF kind = "oneshot" THEN "result" ELSE "timeline",
                        pg, pollers)

\* An answer that creates nothing: a plan, or a refusal, or no answer at all.
NotCreated(s) ==
    /\ s.at = "create"
    /\ subs' = subs \ {s}
    /\ Stay(Ended(s, pg))
    /\ UNCHANGED tasks

\* The request creates the task but its answer is lost: an alert of a failure.
AnswerLost(s) ==
    /\ s.at = "create" /\ ~s.plan /\ world.losses
    /\ Len(tasks) < MaxTasks
    /\ tasks' = Append(tasks, [stage |-> "collecting", kind |-> "oneshot"])
    /\ subs' = subs \ {s}
    /\ Stay(Ended(s, pg))

\* The task list is there, or TaskList has noted that it is not: the result
\* page is opened and a poller left with the page, mounted or not.
Refreshed(s) ==
    LET started == [pollers EXCEPT ![s.tid] = [NoPoller EXCEPT !.at = "load",
                                                               !.polls = 1]]
    IN  /\ s.at = "refresh"
        /\ subs' = subs \ {s}
        /\ GoTo("result",
                IF Mounted(s) THEN [pg EXCEPT !.poller = s.tid] ELSE pg, started)
        /\ UNCHANGED tasks

\* Home awaits the list inside the try of the submission: an alert says that
\* the task was not created, and its result page is not opened.
RefreshFails(s) ==
    /\ s.at = "refresh" /\ s.from = "home" /\ world.losses
    /\ subs' = subs \ {s}
    /\ Stay(Ended(s, pg))
    /\ UNCHANGED tasks

-----------------------------------------------------------------------------
(* waitForTaskResult: at most MaxPolls rounds of load, trigger and wait.    *)

SetPoller(t, p) ==
    /\ pollers' = [pollers EXCEPT ![t] = p]
    /\ UNCHANGED <<loc, inst, pg, subs, tasks>>

EndOfPoller(p) == [NoPoller EXCEPT !.at = "ended", !.aborted = p.aborted,
                                   !.polls = p.polls]

\* wait rejects at once if aborted; the loop then counts and starts again.
Waiting(p) == IF p.aborted THEN EndOfPoller(p) ELSE [p EXCEPT !.at = "wait"]

\* The task is loaded.  A finished one takes the user to its result page,
\* wherever he is.
PollLoaded(t) ==
    LET p == pollers[t]
        stage == tasks[t].stage
    IN  /\ p.at = "load"
        /\ CASE stage = "failed" -> SetPoller(t, EndOfPoller(p))
             [] stage \in {"collecting", "analysing"} ->
                    SetPoller(t, Waiting(p))
             [] stage = "collected" /\ ~p.triggered ->
                    SetPoller(t, [p EXCEPT !.at = "trigger", !.triggered = TRUE])
             [] stage = "collected" /\ p.triggered -> SetPoller(t, Waiting(p))
             [] stage = "analysed" ->
                    /\ GoTo("result", pg,
                            [pollers EXCEPT ![t] = EndOfPoller(p)])
                    /\ UNCHANGED <<subs, tasks>>

\* The server starts the analysis, or refuses because it runs: 409 rejects.
PollTriggered(t) ==
    LET p == pollers[t] IN
    /\ p.at = "trigger"
    /\ IF tasks[t].stage = "collected"
       THEN /\ tasks' = [tasks EXCEPT ![t].stage = "analysing"]
            /\ pollers' = [pollers EXCEPT ![t] = Waiting(p)]
            /\ UNCHANGED <<loc, inst, pg, subs>>
       ELSE SetPoller(t, EndOfPoller(p))

PollFails(t) ==
    /\ pollers[t].at \in {"load", "trigger"} /\ world.losses
    /\ SetPoller(t, EndOfPoller(pollers[t]))

\* Mutant: only rounds that saw the analysis count.
PollWaitedUncounted(t) ==
    LET p == pollers[t] IN
    /\ p.at = "wait"
    /\ SetPoller(t, IF p.aborted \/ p.polls = MaxPolls THEN EndOfPoller(p)
                    ELSE [p EXCEPT !.at = "load",
                                   !.polls = IF p.triggered THEN @ + 1 ELSE @])

\* Three seconds are over, or the abort has cleared the timer.
PollWaited(t) ==
    LET p == pollers[t] IN
    /\ p.at = "wait"
    /\ SetPoller(t, IF p.aborted \/ p.polls = MaxPolls THEN EndOfPoller(p)
                    ELSE [p EXCEPT !.at = "load", !.polls = @ + 1])

\* The server moves a task on, its analysis included; "analysed" stands for an
\* analysis that is over, done or failed: the poller treats them alike.
TaskMoves(t) ==
    /\ \/ /\ tasks[t].stage = "collecting"
          /\ \E s \in {"collected", "failed"} :
                tasks' = [tasks EXCEPT ![t].stage = s]
       \/ /\ tasks[t].stage = "collected"
          /\ tasks' = [tasks EXCEPT ![t].stage = "analysing"]
       \/ /\ tasks[t].stage = "analysing"
          /\ tasks' = [tasks EXCEPT ![t].stage = "analysed"]
    /\ UNCHANGED <<loc, inst, pg, subs, pollers>>

-----------------------------------------------------------------------------

CreationInit ==
    /\ loc = "home" /\ inst = 1
    /\ pg = FreshPage
    /\ subs = {} /\ tasks = <<>>
    /\ pollers = [t \in TaskIds |-> NoPoller]

PollStep == \E t \in TaskIds : PollLoaded(t) \/ PollTriggered(t) \/ PollWaited(t)

CreationNext ==
    /\ \/ OpenModal \/ CancelModal
       \/ \E m \in world.modes : SwitchMode(m)
       \/ \E type \in world.types : ChooseType(type)
       \/ \E f \in world.fields, x \in world.typed : TypeNumber(f, x)
       \/ \E event \in {"io", "sched"} : ChooseEvent(event)
       \/ AgentsArrive
       \/ \E plan \in BOOLEAN : Submit(plan)
       \/ \E where \in Forms : Visit(where)
       \/ \E s \in subs : Created(s) \/ NotCreated(s) \/ AnswerLost(s)
                          \/ Refreshed(s) \/ RefreshFails(s)
       \/ PollStep
       \/ \E t \in TaskIds : PollFails(t)
       \/ \E t \in 1 .. Len(tasks) : TaskMoves(t)
    /\ UNCHANGED world

FairCreation == world.page = "create" /\ world.fair

\* Requests of a poller are answered or time out, and its timer fires.
CreationFairness ==
    \A t \in TaskIds : WF_<<world, cvars>>(
        FairCreation /\ (PollLoaded(t) \/ PollTriggered(t) \/ PollWaited(t))
        /\ UNCHANGED world)

-----------------------------------------------------------------------------
(* Properties.                                                              *)

\* Whatever the user closes, reopens and switches while a request is out, a page
\* submits one task at a time: its flag is up exactly as long as its one-shot or
\* continuous submission is under way (Home.tsx 98-156, TaskList.tsx 147-204).
OneSubmissionPerPage ==
    LET mine == {s \in subs : Mounted(s) /\ s.kind # "natural"}
    IN  /\ Cardinality(mine) <= 1
        /\ loc \in Forms => (pg.submitting <=> mine # {})

\* After any sequence of selections, the agent runs the collector that the
\* dialog showed when the task was submitted, although the event of one type
\* is carried over to others (CreateTaskModal.tsx 290-322 and 398-409, and
\* CreateProfiler of HotmethodChannel.cpp).
RunsWhatIsShown ==
    \A s \in subs : s.kind = "oneshot" => s.runs = s.shown

\* Whatever is typed, the numbers in a request are within the limits the form
\* names: the server takes them as they come (CreateTaskModal.tsx 101-109 and
\* 324-383, with the defaults of the submit handlers).
SentInRange ==
    \A s \in subs : \A f \in DOMAIN s.sent : InRange(f, s.sent[f])

\* All three: whatever is selected, typed, closed and lost, what is submitted is
\* what the form showed, once.
SubmissionsAreTrue ==
    OneSubmissionPerPage /\ RunsWhatIsShown /\ SentInRange

\* A poller ends, also the one created for a page that was gone already, which
\* nobody can abort, and also if nobody ever analyses the task
\* (MAX_POLL_COUNT, taskPolling.ts 41-71).
PollersEnd ==
    FairCreation => \A t \in TaskIds : pollers[t].at # "none" ~> pollers[t].at = "ended"

=============================================================================
