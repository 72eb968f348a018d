---------------------------- MODULE TaskResultPage ----------------------------
(* The result page of the web console (web/src/pages/TaskResult.tsx): one  *)
(* React component that loads a task and its artifacts in a chain of       *)
(* requests, polls every three seconds while the task is under way, and    *)
(* shows a tab per kind of result.  Chains of requests overlap: a tick, a  *)
(* click on refresh and a triggered analysis each start one, and a new tid *)
(* in the URL does not stop the old one.                                   *)
EXTENDS WebWorld, Naturals, Sequences, SequencesExt

CONSTANTS
    Tids,         \* the task ids the URL may name
    MaxLoads      \* bound: calls of loadTask under way at once

\* The page is opened on some task; "" is the tid of none.
ASSUME TidsAssumption == Tids # {} /\ "" \notin Tids

VARIABLES
    row,          \* tid -> the server's row and whether analysis artifacts exist
    rtid,         \* the tid in the URL, "" once the page is left
    view,         \* the React state of the page
    ticker,       \* the interval of three seconds is running
    loads,        \* the calls of loadTask under way, oldest first
    trigger,      \* the tid whose analysis is being triggered, or ""
    live,         \* object URLs created and not revoked
    urlRef,       \* memrayObjectUrlRef, 0 when empty
    fails,        \* history: requests that failed
    triggers,     \* history: clicks on the trigger button
    mixed         \* history: the tid changed while a request was under way

rvars == <<row, rtid, view, ticker, loads, trigger, live, urlRef, fails,
           triggers, mixed>>

Panels == {"flame", "topn", "suggestions", "ebpf", "pprof", "memory"}
Kinds == {"cpu", "memory", "ebpf", "pprof", "continuous"}
\* "memory" stands for memleak.json, heap_stats.json and resource_stats.json,
\* "pprof" for pprof_cpu.json and pprof_heap.json: a task makes one of them.
Artifacts == {"collapsed", "top", "svg", "ebpf", "pprof", "memory", "evidence",
              "memray"}
Slots == (Artifacts \cup {"suggestions", "files"})
Stages == {"collecting", "failed", "collected", "analysing", "analysed",
           "afailed"}
Collected == {"collected", "analysing", "analysed", "afailed"}
NoTask == [tid |-> "", stage |-> "collecting"]
Kind(t) == world.kind[t]

-----------------------------------------------------------------------------
(* What the page shows of its state.                                        *)

ShouldPollTask(task) ==
    /\ task # NoTask
    /\ task.stage \in {"collecting", "analysing"}

ExpectedPanels(kind) ==
    CASE kind = "cpu" -> {"flame", "topn", "suggestions"}
      [] kind = "continuous" -> {}
      [] OTHER -> {"suggestions", kind}

PrimaryPanel(kind) == IF kind = "cpu" THEN "flame" ELSE kind

Has(v, slot) == v.shown[slot] # ""

FlameTab(v) ==
    CASE Has(v, "collapsed") \/ Has(v, "top") -> "chart"
      [] ~(Has(v, "collapsed") \/ Has(v, "top")) /\ Has(v, "svg") -> "svg"
      [] OTHER -> IF "flame" \in v.bad THEN "error" ELSE "empty"

TopnTab(v) == IF Has(v, "top") THEN "table" ELSE "empty"

SuggestionsTab(v) == IF Has(v, "suggestions") THEN "cards" ELSE "empty"

EbpfTab(v) ==
    IF "ebpf" \in v.busy THEN "spinner"
    ELSE IF Has(v, "ebpf") THEN "tables" ELSE "empty"

PprofTab(v) ==
    IF "pprof" \in v.busy THEN "spinner"
    ELSE IF Has(v, "pprof") THEN "tables" ELSE "empty"

\* The parts of the memory tab that are rendered, none of them: emptyPanel.
MemoryTab(v) ==
    (IF "memray" \in v.busy THEN {"spinner"}
     ELSE IF v.frame # 0 THEN {"frame"}
     ELSE {})
    \cup (IF Has(v, "memory") THEN {"tables"} ELSE {})

PanelAvailable(v, key) ==
    CASE key = "flame" -> FlameTab(v) \in {"chart", "svg"}
      [] key = "topn" -> TopnTab(v) = "table"
      [] key = "suggestions" -> Has(v, "suggestions") \/ Has(v, "evidence")
      [] key = "ebpf" -> Has(v, "ebpf")
      [] key = "pprof" -> Has(v, "pprof")
      [] key = "memory" -> MemoryTab(v) # {}

VisibleTabKeys(v) ==
    {"info", "states", "files"}
    \cup {k \in Panels : PanelAvailable(v, k)}
    \cup (IF v.task = NoTask THEN {} ELSE ExpectedPanels(Kind(v.task.tid)))

\* The effect after each render: an active tab that is gone is replaced.
Settled(v) ==
    IF v.task = NoTask \/ v.tab \in VisibleTabKeys(v) THEN v
    ELSE LET primary == PrimaryPanel(Kind(v.task.tid))
         IN  [v EXCEPT !.tab = IF primary \in VisibleTabKeys(v)
                               THEN primary ELSE "info"]

-----------------------------------------------------------------------------
(* The page's state and its resets.                                         *)

EmptyView ==
    [task |-> NoTask, shown |-> [s \in Slots |-> ""], busy |-> {"page"},
     bad |-> {}, tab |-> "flame", frame |-> 0]

Without(v, slots) ==
    [v EXCEPT !.shown = [s \in Slots |-> IF s \in slots THEN "" ELSE @[s]]]

\* The effect on tid; the load effect after it shows the page's spinner.
\* A page error of the last task stays until the new load clears it.
ResetOnTid(v) == [EmptyView EXCEPT !.bad = v.bad \cap {"page"}]

\* The synchronous head of loadTask.
LoadBegins(v) ==
    [Without(v, {"ebpf", "pprof", "memory", "evidence"})
        EXCEPT !.busy = @ \ {"ebpf", "pprof"}, !.bad = @ \ {"page", "memray"}]

\* A call of loadTask: the request that is out, the row the detail request
\* found, and the files it knows of.
NoRow == [stage |-> "collecting", made |-> FALSE]
NewLoad(t) == [tid |-> t, at |-> "detail", seen |-> NoRow, files |-> {}]

\* State setters of a component that is gone do nothing.
Show(v) == view' = IF rtid = "" THEN view ELSE Settled(v)

-----------------------------------------------------------------------------
(* The server, as far as the page can tell.                                 *)

\* Raw files come with the collection, the others with the analysis.
Storage(t) ==
    (IF row[t].stage \in Collected THEN world.raw[t] ELSE {})
    \cup (IF row[t].made THEN world.artifacts[t] ELSE {})

DetailFiles(t) == IF row[t].stage \in Collected THEN Storage(t) ELSE {}

FlameArtifact(t) ==
    CASE "collapsed" \in Storage(t) -> {"collapsed"}
      [] "collapsed" \notin Storage(t) /\ "top" \in Storage(t) -> {"top"}
      [] OTHER -> Storage(t) \cap {"svg"}

Suggested(t, r) == IF r.made THEN t ELSE ""

ServerStep(t) ==
    /\ \/ /\ row[t].stage = "collecting"
          /\ \E s \in {"failed",
                       IF world.prompt THEN "analysing" ELSE "collected"} :
                row' = [row EXCEPT ![t].stage = s]
       \/ /\ row[t].stage = "collected"      \* the server's own trigger
          /\ row' = [row EXCEPT ![t].stage = "analysing"]
       \/ /\ row[t].stage = "analysing" /\ ~row[t].made
          /\ row' = [row EXCEPT ![t].made = TRUE]
       \/ /\ row[t].stage = "analysing" /\ row[t].made
          /\ row' = [row EXCEPT ![t].stage = "analysed"]
       \/ /\ row[t].stage = "analysing"
          /\ row' = [row EXCEPT ![t].stage = "afailed"]
    /\ UNCHANGED <<rtid, view, ticker, loads, trigger, live, urlRef, fails,
                   triggers, mixed>>

-----------------------------------------------------------------------------
(* loadTask: its requests in order, each made only if it is wanted.         *)

Requests == <<"detail", "answer", "suggest", "flame", "cosfiles", "top",
              "collapsed", "ebpf", "pprof", "memory", "evidence", "memray">>
Spinners == {"ebpf", "pprof", "memray"}

Wanted(l, request) ==
    CASE request = "cosfiles" -> l.files = {}
      [] request = "memray" -> "memray" \in l.files /\ urlRef = 0
      [] request \in Artifacts \ {"memray"} -> request \in l.files
      [] OTHER -> TRUE

\* The next request, "done" after the last.
NextRequest(l, after) ==
    LET place == CHOOSE n \in 1 .. Len(Requests) : Requests[n] = after
        rest == {n \in place + 1 .. Len(Requests) : Wanted(l, Requests[n])}
    IN  IF rest = {} THEN "done" ELSE Requests[Min(rest)]

\* loads[i], now l, goes on after a request, or ends with the page's spinner.
Proceed(i, l, after, v) ==
    LET next == NextRequest(l, after)
    IN  IF next = "done"
        THEN /\ loads' = RemoveAt(loads, i)
             /\ Show([v EXCEPT !.busy = @ \ {"page"}])
        ELSE /\ loads' = ReplaceAt(loads, i, [l EXCEPT !.at = next])
             /\ Show([v EXCEPT !.busy = @ \cup ({next} \cap Spinners)])

\* Mutant: spinners are only taken down when a fetch fails.
AppliedSpinnerStays(v, l, request) ==
    IF request \in Slots THEN [v EXCEPT !.shown[request] = l.tid] ELSE v

\* What an answer of the server changes on the page.
Applied(v, l, request) ==
    CASE request = "suggest" ->
            [v EXCEPT !.shown["suggestions"] = Suggested(l.tid, row[l.tid])]
      [] request = "flame" ->
            [v EXCEPT !.shown = [s \in Slots |->
                                    IF s \in FlameArtifact(l.tid) THEN l.tid
                                    ELSE @[s]],
                      !.bad = IF FlameArtifact(l.tid) = {} THEN @ \cup {"flame"}
                              ELSE @ \ {"flame"}]
      [] request = "cosfiles" ->
            [v EXCEPT !.shown["files"] = IF Storage(l.tid) = {} THEN "" ELSE l.tid]
      [] OTHER -> [v EXCEPT !.shown[request] = l.tid, !.busy = @ \ {request}]

\* What a failed request changes: the catch block of its try.
Failed(v, request) ==
    CASE request = "flame" -> [v EXCEPT !.bad = @ \cup {"flame"}]
      [] request = "cosfiles" -> Without(v, {"files"})
      [] request = "top" -> Without(v, {"top"})
      [] request \in {"ebpf", "pprof"} ->
            [Without(v, {request}) EXCEPT !.busy = @ \ {request}]
      [] request = "memray" ->
            [v EXCEPT !.bad = @ \cup {"memray"}, !.busy = @ \ {"memray"}]
      [] OTHER -> v

\* The detail request reaches the server; its answer may be long under way.
ServeDetail(i) ==
    /\ loads[i].at = "detail"
    /\ loads' = [loads EXCEPT ![i].at = "answer",
                              ![i].seen = row[loads[i].tid],
                              ![i].files = DetailFiles(loads[i].tid)]
    /\ UNCHANGED <<row, rtid, view, ticker, trigger, live, urlRef, fails,
                   triggers, mixed>>

\* The task arrives.  The page of a continuous task is left for the timeline.
DetailArrives(i) ==
    LET l == loads[i]
        v == [view EXCEPT !.task = [tid |-> l.tid, stage |-> l.seen.stage],
                          !.shown["suggestions"] = Suggested(l.tid, l.seen),
                          !.shown["files"] = IF l.files = {} THEN "" ELSE l.tid]
    IN  /\ l.at = "answer"
        /\ Proceed(i, [l EXCEPT !.seen = NoRow], "answer", v)
        /\ IF rtid # "" /\ Kind(l.tid) = "continuous"
           THEN rtid' = "" /\ ticker' = FALSE /\ live' = live \ {urlRef}
           ELSE UNCHANGED <<rtid, ticker, live>>
        /\ UNCHANGED <<row, trigger, urlRef, fails, triggers, mixed>>

\* A later request of the chain is answered.
RequestAnswered(i) ==
    LET l == loads[i]
        known == IF l.at = "cosfiles" THEN [l EXCEPT !.files = Storage(l.tid)]
                 ELSE l
    IN  /\ l.at \notin {"detail", "answer", "memray"}
        /\ Proceed(i, known, l.at, Applied(view, l, l.at))
        /\ UNCHANGED <<row, rtid, ticker, trigger, live, urlRef, fails,
                       triggers, mixed>>

FreshUrl == CHOOSE n \in 1 .. 3 : n \notin live \cup {urlRef}

\* Mutant: the object URL of an overlapping load is not revoked.
MemrayArrivesKeepsOld(i) ==
    LET l == loads[i]
    IN  /\ l.at = "memray"
        /\ live' = live \cup {FreshUrl}
        /\ urlRef' = FreshUrl
        /\ Proceed(i, l, "memray", [Applied(view, l, "memray")
                                       EXCEPT !.frame = FreshUrl])
        /\ UNCHANGED <<row, rtid, ticker, trigger, fails, triggers, mixed>>

\* The Memray page arrives and becomes an object URL for the frame.
MemrayArrives(i) ==
    LET l == loads[i]
    IN  /\ l.at = "memray"
        /\ live' = (live \ {urlRef}) \cup {FreshUrl}
        /\ urlRef' = FreshUrl
        /\ Proceed(i, l, "memray", [Applied(view, l, "memray")
                                       EXCEPT !.frame = FreshUrl])
        /\ UNCHANGED <<row, rtid, ticker, trigger, fails, triggers, mixed>>

\* A request fails.  Without its detail the load ends; a failure among the
\* extended artifacts skips the rest of them.
RequestFails(i) ==
    LET l == loads[i]
    IN  /\ fails < world.fails
        /\ world.prompt => view.task # NoTask
        /\ fails' = fails + 1
        /\ IF l.at \in {"detail", "answer"}
           THEN /\ loads' = RemoveAt(loads, i)
                /\ Show([view EXCEPT !.bad = @ \cup {"page"},
                                     !.busy = @ \ {"page"}])
           ELSE Proceed(i, l, IF l.at = "memory" THEN "evidence" ELSE l.at,
                        Failed(view, l.at))
        /\ UNCHANGED <<row, rtid, ticker, trigger, live, urlRef, triggers,
                       mixed>>

-----------------------------------------------------------------------------
(* What starts a load, and the user.                                        *)

BeginLoad(t, v) ==
    /\ Len(loads) < MaxLoads
    /\ loads' = Append(loads, NewLoad(t))
    /\ Show(LoadBegins(v))

\* Mutant: the interval goes on whatever the page shows, but only reloads a
\* task that is not collected yet.
TickSkipsAnalysis ==
    /\ ticker
    /\ world.prompt => loads = <<>>
    /\ IF view.task.stage = "collecting" /\ view.task # NoTask
       THEN BeginLoad(rtid, view) /\ UNCHANGED ticker
       ELSE ticker' = FALSE /\ UNCHANGED <<loads, view>>
    /\ UNCHANGED <<row, rtid, trigger, live, urlRef, fails, triggers, mixed>>

\* The interval fires: it reloads, or stops for good.
Tick ==
    /\ ticker
    /\ world.prompt => loads = <<>>
    /\ IF ShouldPollTask(view.task)
       THEN BeginLoad(rtid, view) /\ UNCHANGED ticker
       ELSE ticker' = FALSE /\ UNCHANGED <<loads, view>>
    /\ UNCHANGED <<row, rtid, trigger, live, urlRef, fails, triggers, mixed>>

Refresh ==
    /\ rtid # "" /\ world.refresh
    /\ BeginLoad(rtid, view)
    /\ UNCHANGED <<row, rtid, ticker, trigger, live, urlRef, fails, triggers,
                   mixed>>

\* The URL names another task: the component stays mounted.
OpenTask(t) ==
    /\ rtid # "" /\ t # rtid
    /\ rtid' = t
    /\ Len(loads) < MaxLoads
    /\ loads' = Append(loads, NewLoad(t))
    /\ view' = LoadBegins(ResetOnTid(view))
    /\ ticker' = TRUE
    /\ live' = live \ {urlRef}
    /\ urlRef' = 0
    /\ mixed' = (mixed \/ loads # <<>> \/ trigger # "")
    /\ UNCHANGED <<row, trigger, fails, triggers>>

LeavePage ==
    /\ rtid # "" /\ world.leave
    /\ rtid' = ""
    /\ ticker' = FALSE
    /\ live' = live \ {urlRef}
    /\ UNCHANGED <<row, view, loads, trigger, urlRef, fails, triggers, mixed>>

RunAnalysis ==
    /\ rtid # "" /\ trigger = ""
    /\ view.task # NoTask /\ view.task.stage \in Collected
    /\ triggers < world.triggers
    /\ triggers' = triggers + 1
    /\ trigger' = rtid
    /\ UNCHANGED <<row, rtid, view, ticker, loads, live, urlRef, fails, mixed>>

\* The server starts the analysis unless it runs already; the page then calls
\* the loadTask of the render that was clicked, for that render's tid.
TriggerAnswered ==
    /\ trigger # ""
    /\ trigger' = ""
    /\ IF row[trigger].stage = "analysing"
       THEN UNCHANGED <<row, loads, view>>
       ELSE /\ row' = [row EXCEPT ![trigger].stage = "analysing"]
            /\ BeginLoad(trigger, view)
    /\ UNCHANGED <<rtid, ticker, live, urlRef, fails, triggers, mixed>>

ChooseTab(k) ==
    /\ rtid # "" /\ view.task # NoTask /\ view.busy \cap {"page"} = {}
    /\ "page" \notin view.bad
    /\ k \in VisibleTabKeys(view) \ {view.tab}
    /\ view' = [view EXCEPT !.tab = k]
    /\ UNCHANGED <<row, rtid, ticker, loads, trigger, live, urlRef, fails,
                   triggers, mixed>>

ResultInit ==
    /\ row = [t \in Tids |-> IF world.page = "result" THEN world.row ELSE NoRow]
    /\ rtid \in {CHOOSE t \in Tids : TRUE}
    /\ view = LoadBegins(EmptyView)
    /\ ticker = TRUE
    /\ loads = <<NewLoad(rtid)>>
    /\ trigger = "" /\ live = {} /\ urlRef = 0
    /\ fails = 0 /\ triggers = 0 /\ mixed = FALSE

LoadStep == \E i \in 1 .. Len(loads) :
    ServeDetail(i) \/ DetailArrives(i) \/ RequestAnswered(i) \/ MemrayArrives(i)

ResultServer == \E t \in world.tids : ServerStep(t)

ResultNext ==
    /\ \/ LoadStep
       \/ \E i \in 1 .. Len(loads) : RequestFails(i)
       \/ Tick \/ Refresh \/ LeavePage
       \/ \E t \in world.tids : OpenTask(t)
       \/ RunAnalysis \/ TriggerAnswered
       \/ \E k \in world.tabs : ChooseTab(k)
       \/ ResultServer
    /\ UNCHANGED world

FairResult == world.page = "result" /\ world.fair

\* Requests are answered or time out after 30 s, the interval fires, and the
\* server finishes what it started.  The user owes nothing.
ResultFairness ==
    /\ WF_<<world, rvars>>(FairResult /\ LoadStep /\ UNCHANGED world)
    /\ WF_<<world, rvars>>(FairResult /\ Tick /\ UNCHANGED world)
    /\ WF_<<world, rvars>>(FairResult /\ ResultServer /\ UNCHANGED world)
    /\ WF_<<world, rvars>>(FairResult /\ TriggerAnswered /\ UNCHANGED world)

-----------------------------------------------------------------------------
(* Properties.                                                              *)

\* The object URLs of Memray pages, created by loads that overlap, that a new
\* tid overtakes or that outlive the page (TaskResult.tsx 303-334): at most one
\* is alive, the one the ref names, and the frame on the page is that one.
MemrayFrameIsLive ==
    /\ live \subseteq {urlRef}
    /\ rtid # "" /\ view.frame # 0 => view.frame \in live

\* However loads overlapped, failed or changed tid, once none is under way no
\* spinner turns on the page (the finally blocks of loadTask).
NoSpinnerLeft == loads = <<>> /\ rtid # "" => view.busy = {}

\* As long as the tid never changed under a running request, all the page shows
\* belongs to the task in the URL: a change of tid leaves nothing of the last
\* task behind (the reset effect, TaskResult.tsx 130-152).
ShowsItsOwnTask ==
    rtid # "" /\ ~mixed =>
        /\ view.task.tid \in {"", rtid}
        /\ \A s \in Slots : view.shown[s] \in {"", rtid}

\* When no request failed, none is under way and the page shows the final state
\* of an analysed task, each panel shows what the task's artifacts hold, however
\* many loads overlapped on the way (TaskResult.tsx 154-326 and its tabs).
CompleteWhenSettled ==
    /\ rtid # "" /\ ~mixed /\ fails = 0 /\ loads = <<>>
    /\ view.task.stage = "analysed" /\ row[rtid].stage = "analysed"
    => LET files == Storage(rtid) IN
       /\ FlameArtifact(rtid) # {} => FlameTab(view) \in {"chart", "svg"}
       /\ "top" \in files => TopnTab(view) = "table"
       /\ SuggestionsTab(view) = "cards"
       /\ "ebpf" \in files => EbpfTab(view) = "tables"
       /\ "pprof" \in files => PprofTab(view) = "tables"
       /\ "memory" \in files => "tables" \in MemoryTab(view)
       /\ "memray" \in files => "frame" \in MemoryTab(view)
       /\ "page" \notin view.bad

\* The page keeps up with its task to the end.
FollowsTask ==
    <>[](rtid = "" \/ /\ view.task.tid = rtid
                      /\ view.task.stage = row[rtid].stage
                      /\ row[rtid].stage \in {"failed", "analysed", "afailed"})

\* When loads are answered before the next tick, the first one does not fail and
\* no load meets a collected task whose analysis has not begun, polling brings
\* the page to the task's final state in spite of failed polls
\* (TaskResult.tsx 29-34 and 351-362).
FollowsPromptTask == world.prompt => FollowsTask

=============================================================================
