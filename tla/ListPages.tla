------------------------------- MODULE ListPages -------------------------------
(* The pages of the web console that show a list of the server: the table of *)
(* TaskList.tsx, ScheduleTasksPanel.tsx, Agents.tsx and AgentDetail.tsx.     *)
(* Each loads its list in one or more rounds of requests and loads it again  *)
(* after a change; loads overlap, and their answers arrive in any order.     *)
EXTENDS WebWorld, Naturals, Sequences, SequencesExt

CONSTANTS
    MaxItems,     \* bound: ids of rows, two and one for each click
    PageSize      \* pageSize of the table, 20 in the code

VARIABLES
    items,        \* the server's rows, newest first; for the page of one agent,
                  \* which filters by its address, that agent
    online,       \* the rows that are agents online
    lview,        \* the React state of the page
    lops,         \* the chains of requests under way
    lclicks,      \* history: chains started by clicks, bounded by world.clicks
    lfails        \* history: requests that failed or were refused

lvars == <<items, online, lview, lops, lclicks, lfails>>

Keywords == {"", "k"}
\* The rounds of a load: the requests of a round run in parallel.
Rounds(page) ==
    CASE page = "tasks" -> <<{"rows", "all"}>>
      [] page = "schedules" -> <<{"rows"}>>
      [] page = "agents" -> <<{"rows"}, {"stats"}, {"audit"}>>
      [] page = "agent" -> <<{"rows", "all"}, {"stats"}>>
      [] OTHER -> <<>>

\* What the server answers: the rows that match, of which the table asks a page.
Matching(rows, kw, match) == SelectSeq(rows, LAMBDA r : kw = "" \/ r \in match)
PageOf(rows, p) ==
    SubSeq(rows, (p - 1) * PageSize + 1,
           IF p * PageSize < Len(rows) THEN p * PageSize ELSE Len(rows))
TotalPages(total) ==
    IF total = 0 THEN 1 ELSE (total + PageSize - 1) \div PageSize

\* outdated: the last answer applied was overtaken by a change on its way.
EmptyList ==
    [rows |-> <<>>, total |-> 0, page |-> 1, all |-> <<>>, up |-> {}, stats |-> {},
     search |-> "", asked |-> "", busy |-> TRUE, submitting |-> FALSE,
     error |-> FALSE, outdated |-> FALSE]

\* A chain: its change, if it makes one, then a load of a page with the keyword
\* of the render that was clicked.
Chain(kind, id, p, round) ==
    [kind |-> kind, id |-> id, new |-> 3 + lclicks, page |-> p,
     kw |-> lview.search, round |-> round,
     open |-> IF round = 0 THEN {"change"} ELSE Rounds(world.page)[1],
     rows |-> <<>>, all |-> <<>>, up |-> {}, stale |-> FALSE]

LoadStarts(v) == [v EXCEPT !.busy = TRUE, !.error = FALSE]

StartChain(chain, v) ==
    /\ Len(lops) < 2 /\ lclicks < world.clicks
    /\ lops' = Append(lops, chain)
    /\ lclicks' = lclicks + 1
    /\ lview' = v
    /\ UNCHANGED <<items, online, lfails>>

-----------------------------------------------------------------------------
(* Clicks.                                                                  *)

\* The search and the refresh buttons, and the pager of the table; the page of
\* one agent has no such button.
ClickLoad(p) ==
    /\ world.page # "agent"
    /\ \/ p = 1
       \/ /\ world.page = "tasks"
          /\ \/ p = lview.page - 1 /\ lview.page > 1
             \/ p = lview.page + 1 /\ lview.page < TotalPages(lview.total)
    /\ StartChain(Chain("load", 0, p, 1), LoadStarts(lview))

TypeSearch(kw) ==
    /\ world.page = "tasks" /\ world.match # {} /\ kw # lview.search
    /\ lview' = [lview EXCEPT !.search = kw]
    /\ UNCHANGED <<items, online, lops, lclicks, lfails>>

\* removeTask, and remove of the schedules.
ClickRemove(id) ==
    /\ world.page \in {"tasks", "schedules"} /\ ~lview.busy
    /\ id \in ToSet(lview.rows)
    /\ StartChain(Chain("remove", id, IF world.page = "tasks" THEN lview.page ELSE 1, 0),
                  IF world.page = "tasks" THEN lview
                  ELSE [lview EXCEPT !.error = FALSE])

\* retry: nothing keeps a second click from making a second task.
ClickRetry(id) ==
    /\ world.page = "tasks" /\ ~lview.busy /\ id \in ToSet(lview.rows)
    /\ StartChain(Chain("retry", id, 1, 0), lview)

\* submit of a schedule, when canSubmit.
SubmitSchedule ==
    /\ world.page = "schedules" /\ ~lview.submitting
    /\ StartChain(Chain("create", 0, 1, 0),
                  [lview EXCEPT !.submitting = TRUE, !.error = FALSE])

-----------------------------------------------------------------------------
(* The server.                                                              *)

\* A change overtakes the answers that are on their way.
Overtake(ops) ==
    [k \in DOMAIN ops |->
        [ops[k] EXCEPT !.stale = @ \/ (ops[k].round > 0
                                       /\ ops[k].open # Rounds(world.page)[1])]]

ServeListChange(i) ==
    LET op == lops[i]
    IN  /\ op.open = {"change"}
        /\ op.kind \in {"retry", "remove"} => op.id \in ToSet(items)
        /\ items' = IF op.kind = "remove"
                    THEN SelectSeq(items, LAMBDA r : r # op.id)
                    ELSE <<op.new>> \o items
        /\ lops' = [Overtake(lops) EXCEPT ![i].open = {}]
        /\ UNCHANGED <<online, lview, lclicks, lfails>>

\* One request of a round is served.  Statistics are asked for the agents that
\* the list had online.
ServeRequest(i, r) ==
    LET op == lops[i]
    IN  /\ r \in op.open \ {"change"}
        /\ lops' = [lops EXCEPT ![i] =
              [op EXCEPT !.open = @ \ {r},
                         !.rows = IF r = "rows" THEN items ELSE @,
                         !.all = IF r = "all" THEN items ELSE @,
                         !.up = CASE r = "rows" -> online
                                  [] r = "stats" -> @ \cap online
                                  [] OTHER -> @]]
        /\ UNCHANGED <<items, online, lview, lclicks, lfails>>

\* An agent goes up or down; nobody tells the page.
AgentFlips(a) ==
    /\ world.page \in {"agents", "agent"} /\ lclicks < world.clicks
    /\ a \in ToSet(items)
    /\ online' = IF a \in online THEN online \ {a} ELSE online \cup {a}
    /\ lclicks' = lclicks + 1
    /\ lops' = Overtake(lops)
    /\ lview' = [lview EXCEPT !.outdated = TRUE]
    /\ UNCHANGED <<items, lfails>>

-----------------------------------------------------------------------------
(* The answers of a round arrive together.                                  *)

\* What a round changes: the list, for the details of an agent the agent and the
\* tasks; then the statistics of the agents online; the audit log is not modelled.
RoundApplied(v, op) ==
    CASE op.round = 1 /\ world.page = "tasks" ->
            [v EXCEPT !.rows = PageOf(Matching(op.rows, op.kw, world.match), op.page),
                      !.total = Len(Matching(op.rows, op.kw, world.match)), !.page = op.page,
                      !.all = op.all, !.asked = op.kw, !.outdated = op.stale]
      [] op.round = 1 /\ world.page # "tasks" ->
            [v EXCEPT !.rows = op.rows, !.all = op.all, !.up = op.up,
                      !.stats = IF world.page = "agent" THEN @ \cap op.up ELSE @,
                      !.outdated = op.stale]
      [] op.round = 2 -> [v EXCEPT !.stats = op.up, !.outdated = @ \/ op.stale]
      [] OTHER -> v

\* The next round; the detail page asks for statistics of an agent online only.
NextRound(op) ==
    IF world.page = "agent" /\ op.round = 1 /\ op.up = {} THEN 3 ELSE op.round + 1

ChainEnds(v, op) ==
    [v EXCEPT !.busy = FALSE,
              !.submitting = IF op.kind = "create" THEN FALSE ELSE @]

RoundArrives(i) ==
    LET op == lops[i]
        next == NextRound(op)
        v == IF op.round = 0 THEN LoadStarts(lview) ELSE RoundApplied(lview, op)
    IN  /\ op.open = {}
        /\ IF next <= Len(Rounds(world.page))
           THEN /\ lops' = [lops EXCEPT ![i].round = next,
                                        ![i].open = Rounds(world.page)[next]]
                /\ lview' = v
           ELSE lops' = RemoveAt(lops, i) /\ lview' = ChainEnds(v, op)
        /\ UNCHANGED <<items, online, lclicks, lfails>>

\* A request fails or is refused.  A failed change is shown by the schedules
\* only; a failed list empties the table and the agents; on the page of agents
\* the statistics of one agent, or the audit log, are let go.
RequestLost(i) ==
    LET op == lops[i]
        refused == op.round = 0 /\ op.id # 0 /\ op.id \notin ToSet(items)
        quiet == world.page = "agents" /\ op.round > 1
        next == NextRound(op)
    IN  /\ refused \/ lfails < world.fails
        /\ quiet /\ op.round = 2 => op.up # {}
        /\ lfails' = IF lfails < world.fails + 1 THEN lfails + 1 ELSE lfails
        /\ IF quiet /\ next <= Len(Rounds(world.page))
           THEN /\ lops' = [lops EXCEPT ![i].round = next,
                                        ![i].open = Rounds(world.page)[next]]
                /\ lview' = [lview EXCEPT !.stats = op.up \ {CHOOSE a \in op.up : TRUE}]
           ELSE /\ lops' = RemoveAt(lops, i)
                /\ lview' =
                     CASE op.round = 0 ->
                            [lview EXCEPT !.error = @ \/ world.page = "schedules",
                                !.submitting = IF op.kind = "create" THEN FALSE ELSE @]
                       [] op.round > 0 /\ quiet -> ChainEnds(lview, op)
                       [] OTHER -> ChainEnds(
                            [lview EXCEPT !.error = TRUE,
                                !.rows = IF world.page \in {"tasks", "agents"}
                                         THEN <<>> ELSE @,
                                !.total = 0], op)
        /\ UNCHANGED <<items, online, lclicks>>

-----------------------------------------------------------------------------

ListInit ==
    /\ items = IF world.page = "agent" THEN <<1>> ELSE <<2, 1>>
    /\ online = {1}
    /\ lview = EmptyList
    /\ lops = IF Rounds(world.page) = <<>> THEN <<>>
              ELSE <<[kind |-> "load", id |-> 0, new |-> 0, page |-> 1, kw |-> "",
                      round |-> 1, open |-> Rounds(world.page)[1], rows |-> <<>>,
                      all |-> <<>>, up |-> {}, stale |-> FALSE]>>
    /\ lclicks = 0 /\ lfails = 0

ListNext ==
    /\ \/ \E p \in 1 .. MaxItems : ClickLoad(p)
       \/ \E kw \in Keywords : TypeSearch(kw)
       \/ \E id \in 1 .. MaxItems :
             ClickRemove(id) \/ ClickRetry(id) \/ AgentFlips(id)
       \/ SubmitSchedule
       \/ \E i \in 1 .. Len(lops) :
             \/ ServeListChange(i) \/ RoundArrives(i) \/ RequestLost(i)
             \/ \E r \in {"rows", "all", "stats", "audit"} : ServeRequest(i, r)
    /\ UNCHANGED world

-----------------------------------------------------------------------------
(* Properties.                                                              *)

\* Once nothing is under way no spinner turns and the submit button is back.
ListsComeToRest ==
    lops = <<>> /\ Rounds(world.page) # <<>> => ~lview.busy /\ ~lview.submitting

\* Without failures, once nothing is under way the page shows what the server
\* holds, unless the last answer was overtaken by a change on its way: the table
\* one page of the rows that match, its total and the counts of all tasks; the
\* agents the statistics of those online and of no other (TaskList.tsx 94-117
\* and 211-222, ScheduleTasksPanel.tsx 88-147, Agents.tsx 55-88, AgentDetail.tsx
\* 39-63).
ListsSettled ==
    lops = <<>> /\ lfails = 0 /\ Rounds(world.page) # <<>> /\ ~lview.outdated =>
        CASE world.page = "tasks" ->
                /\ lview.rows = PageOf(Matching(items, lview.asked, world.match), lview.page)
                /\ lview.total = Len(Matching(items, lview.asked, world.match))
                /\ lview.all = items
          [] world.page = "schedules" -> lview.rows = items
          [] OTHER -> /\ lview.rows = items /\ lview.up = online
                      /\ lview.stats = online

=============================================================================
