----------------------------- MODULE MCWebConsole -----------------------------
EXTENDS WebConsole

One(x) == [t \in Tids |-> x]
Surroundings ==
    [page |-> "", fair |-> FALSE, fails |-> 0, clicks |-> 0,
     kind |-> One("cpu"), raw |-> One({}), artifacts |-> One({}),
     prompt |-> FALSE, triggers |-> 0, tabs |-> {}, tids |-> {"t1"},
     refresh |-> FALSE, leave |-> FALSE, row |-> NoRow,
     subs |-> 0, visits |-> 1, losses |-> FALSE, modes |-> {}, types |-> {},
     fields |-> {}, typed |-> {},
     ranges |-> {}, picks |-> FALSE, stops |-> FALSE, shared |-> FALSE, match |-> {}]

Done == [stage |-> "analysed", made |-> TRUE]
R == [Surroundings EXCEPT !.page = "result"]
C == [Surroundings EXCEPT !.page = "create", !.subs = 1]
T == [Surroundings EXCEPT !.page = "timeline", !.ranges = {2}]

\* A task of each kind, watched, refreshed, triggered and left; two tasks.
ResultWorlds ==
    {[R EXCEPT !.artifacts = One({"collapsed", "top", "evidence"}),
               !.triggers = 1, !.tabs = {"flame"}],
     [R EXCEPT !.raw = One({"collapsed"}), !.artifacts = One({"top", "svg"}),
               !.prompt = TRUE, !.fair = TRUE, !.fails = 1],
     [R EXCEPT !.kind = One("memory"), !.raw = One({"memray"}), !.row = Done,
               !.artifacts = One({"memory"}), !.tids = Tids, !.leave = TRUE],
     [R EXCEPT !.kind = One("memory"), !.raw = One({"memray"}), !.row = Done,
               !.artifacts = One({"memory"}), !.refresh = TRUE],
     [R EXCEPT !.kind = One("ebpf"), !.artifacts = One({"ebpf", "evidence"}),
               !.tabs = {"ebpf"}, !.fails = 1],
     [R EXCEPT !.kind = One("pprof"), !.artifacts = One({"pprof"}), !.fails = 1,
               !.tabs = {"info", "pprof"}],
     [R EXCEPT !.kind = One("continuous")]}

\* Submissions that overlap, every task type, numbers out of range, losses.
CreationWorlds ==
    {[C EXCEPT !.modes = Modes, !.visits = 2, !.subs = 2, !.fields = {"pid"},
               !.typed = {7}],
     [C EXCEPT !.modes = {"oneshot"}, !.visits = 3, !.fields = {"pid"},
               !.typed = {7}, !.losses = TRUE, !.fair = TRUE],
     [C EXCEPT !.modes = {"oneshot"}, !.types = {0, 1, 4, 5, 6, 10, 11, 12},
               !.fields = {"pid"}, !.typed = {7}],
     [C EXCEPT !.modes = {"oneshot"}, !.fields = {"pid", "duration", "hz"},
               !.typed = {NaN, 0, 1, 9999}],
     [C EXCEPT !.modes = {"continuous"}, !.fields = {"pid", "chz", "window"},
               !.typed = {NaN, 0, 1, 9999}]}

\* Windows picked by hand, time ranges searched and edited, lost list requests.
TimelineWorlds ==
    {[T EXCEPT !.picks = TRUE], [T EXCEPT !.ranges = {1, 2}], [T EXCEPT !.fair = TRUE],
     [T EXCEPT !.ranges = {}, !.stops = TRUE, !.fails = 1, !.fair = TRUE]}

FlameWorlds == {[Surroundings EXCEPT !.page = p] : p \in {"trees", "chart", "diff"}}

\* A single tab, and one that shares its cookies with another.
SessionWorlds ==
    {[Surroundings EXCEPT !.page = "session", !.shared = s] : s \in BOOLEAN}

\* Three clicks, and two with a lost request.
ManagementWorlds ==
    {[Surroundings EXCEPT !.page = p, !.clicks = n, !.fails = 3 - n] :
        p \in {"groups", "tasks", "schedules", "agents", "agent", "settings"},
        n \in {2, 3}}
    \cup {[Surroundings EXCEPT !.page = "tasks", !.clicks = 2, !.match = {1}]}

AllWorlds ==
    ResultWorlds \cup CreationWorlds \cup TimelineWorlds \cup FlameWorlds
    \cup SessionWorlds \cup ManagementWorlds

\* A task that the page may see collected before its analysis has begun.
UnhurriedWorlds ==
    {[R EXCEPT !.artifacts = One({"collapsed"}), !.fair = TRUE]}

=============================================================================
