----------------------------- MODULE TimelinePage -----------------------------
(* The timeline of a continuous task (web/src/pages/ContinuousTimeline.tsx): *)
(* a list of windows, polled every five seconds unless it is filtered by    *)
(* time, and the flame graph of the selected window.  Each change of the    *)
(* selection or the filter asks for the list again; answers come back in    *)
(* any order and are applied by the closure that asked.                     *)
EXTENDS WebWorld, Naturals, FiniteSets, FiniteSetsExt

CONSTANTS
    MaxWins,      \* bound: windows of the task
    MaxLists,     \* bound: list requests under way
    MaxFlames     \* bound: flame requests under way, cancelled ones included

VARIABLES
    wins,         \* the server's windows: number -> status
    tlist,        \* windows, as last received
    tsel,         \* selected: a copy of a list entry, w = 0 for none
    filter,       \* 0: not filtering, else the time range in force
    lists,        \* list requests under way
    flames,       \* flame requests under way
    pane,         \* loading, flame and error of the right side
    stopping,     \* the stop request is under way
    lost          \* history: list requests that failed

tvars == <<wins, tlist, tsel, filter, lists, flames, pane, stopping, lost>>

\* A window is recorded when it has ended: done, with the key of its artifact;
\* bare, done as well but without a key, because the upload failed and the agent
\* embedded the file in its report; failed, without a key.
WinStatus == {"done", "bare", "failed"}
NoSel == [w |-> 0, st |-> "none"]
Snapshot(ws, from) == [w \in {x \in DOMAIN ws : x >= from} |-> ws[w]]

\* The request closure: its filter, and whether it found nothing selected.
ListRequest(f, sel) == [filter |-> f, free |-> sel = NoSel, at |-> "out",
                        got |-> <<>>]

-----------------------------------------------------------------------------
(* The effect on [selected]: the right side follows the selection.          *)

\* No window, or one without a key: the pane is emptied, its spinner is not.
\* (A window with a key is done: the third branch of the effect never runs.)
PaneFor(sel, p) ==
    IF sel.st = "done"
    THEN [loading |-> TRUE, flame |-> 0, error |-> 0]
    ELSE [p EXCEPT !.flame = 0, !.error = 0]

Cancelled(fs) == {[f EXCEPT !.cancelled = TRUE] : f \in fs}

FlamesFor(sel, fs) ==
    Cancelled(fs) \cup (IF sel.st = "done"
                        THEN {[w |-> sel.w, at |-> "key", cancelled |-> FALSE]}
                        ELSE {})

\* selected and the filter become sel and f, and both effects run.  `again`: sel
\* is an object of a later list, which is a change also if it says the same.
Render(sel, f, again, ls) ==
    /\ tsel' = sel /\ filter' = f
    /\ IF ~again THEN UNCHANGED <<pane, flames>>
       ELSE /\ pane' = PaneFor(sel, pane)
            /\ flames' = FlamesFor(sel, flames)
            /\ Cardinality(flames') <= MaxFlames
    /\ lists' = IF again \/ f # filter THEN ls \cup {ListRequest(f, sel)} ELSE ls
    /\ Cardinality(lists') <= MaxLists

-----------------------------------------------------------------------------
(* The user.                                                                *)

SelectWindow(w) ==
    /\ LET sel == [w |-> w, st |-> tlist[w]]
       IN  \E again \in {TRUE, sel # tsel} : Render(sel, filter, again, lists)
    /\ UNCHANGED <<wins, tlist, stopping, lost>>

\* handleSearch, handleLastFiveMinutes and handleFiveMinuteWindow.
SearchRange(f) ==
    /\ Render(NoSel, f, tsel # NoSel, lists)
    /\ UNCHANGED <<wins, tlist, stopping, lost>>

\* A time input changes while the filter is on.
EditRange(f) ==
    /\ filter # 0 /\ f # filter
    /\ Render(tsel, f, FALSE, lists)
    /\ UNCHANGED <<wins, tlist, stopping, lost>>

HandleReset ==
    /\ filter # 0
    /\ Render(NoSel, 0, tsel # NoSel, lists)
    /\ UNCHANGED <<wins, tlist, stopping, lost>>

HandleStop ==
    /\ ~stopping /\ world.stops
    /\ stopping' = TRUE
    /\ UNCHANGED <<wins, tlist, tsel, filter, lists, flames, pane, lost>>

StopAnswered ==
    /\ stopping
    /\ stopping' = FALSE
    /\ UNCHANGED <<wins, tlist, tsel, filter, lists, flames, pane, lost>>

-----------------------------------------------------------------------------
(* The list.                                                                *)

\* Mutant: leaving the filter does not start the interval again.
PollAfterResetOnly ==
    /\ filter = 0 /\ lists = {} /\ DOMAIN tlist \subseteq {1}
    /\ lists' = {ListRequest(filter, tsel)}
    /\ UNCHANGED <<wins, tlist, tsel, filter, flames, pane, stopping, lost>>

\* The interval, of which there is none while filtering.  A poll with another
\* one still out is left out: it would ask the same.
PollWindows ==
    /\ filter = 0
    /\ Cardinality(lists) < MaxLists
    /\ ListRequest(filter, tsel) \notin lists
    /\ lists' = lists \cup {ListRequest(filter, tsel)}
    /\ UNCHANGED <<wins, tlist, tsel, filter, flames, pane, stopping, lost>>

ServeList(r) ==
    /\ r.at = "out"
    /\ lists' = (lists \ {r})
                \cup {[r EXCEPT !.at = "back",
                                !.got = Snapshot(wins, IF r.filter = 0 THEN 1
                                                       ELSE r.filter)]}
    /\ UNCHANGED <<wins, tlist, tsel, filter, flames, pane, stopping, lost>>

\* An answer replaces the list, whatever the filter is by now; if the closure
\* saw no selection, the newest window with status done, with or without a key,
\* is selected.
ListArrives(r) ==
    LET done == {w \in DOMAIN r.got : r.got[w] \in {"done", "bare"}}
        picks == r.free /\ done # {}
        sel == IF picks THEN [w |-> Max(done), st |-> r.got[Max(done)]] ELSE tsel
    IN  /\ r.at = "back"
        /\ tlist' = r.got
        /\ Render(sel, filter, picks, lists \ {r})
        /\ UNCHANGED <<wins, stopping, lost>>

ListFails(r) ==
    /\ lost < world.fails
    /\ lost' = lost + 1
    /\ lists' = lists \ {r}
    /\ UNCHANGED <<wins, tlist, tsel, filter, flames, pane, stopping>>

-----------------------------------------------------------------------------
(* The flame graph of a window: its key, then the artifact.                 *)

\* Mutant: the artifact is shown although another window was selected since.
FlameArrivesDeaf(f, ok) ==
    /\ IF f.at = "key" /\ ok /\ ~f.cancelled
       THEN flames' = (flames \ {f}) \cup {[f EXCEPT !.at = "artifact"]}
            /\ UNCHANGED pane
       ELSE /\ flames' = flames \ {f}
            /\ pane' = IF f.at = "key" /\ f.cancelled THEN pane
                       ELSE [loading |-> IF f.cancelled THEN pane.loading ELSE FALSE,
                             flame |-> IF ok THEN f.w ELSE 0,
                             error |-> IF ok THEN 0 ELSE f.w]
    /\ UNCHANGED <<wins, tlist, tsel, filter, lists, stopping, lost>>

\* ok: there is something to draw.  A cancelled request changes nothing.
FlameArrives(f, ok) ==
    /\ IF f.at = "key" /\ ok /\ ~f.cancelled
       THEN flames' = (flames \ {f}) \cup {[f EXCEPT !.at = "artifact"]}
            /\ UNCHANGED pane
       ELSE /\ flames' = flames \ {f}
            /\ pane' = IF f.cancelled THEN pane
                       ELSE [loading |-> FALSE, flame |-> IF ok THEN f.w ELSE 0,
                             error |-> IF ok THEN 0 ELSE f.w]
    /\ UNCHANGED <<wins, tlist, tsel, filter, lists, stopping, lost>>

\* The next window ends and is recorded, as it stays.
WindowMoves ==
    /\ Cardinality(DOMAIN wins) < MaxWins
    /\ \E s \in WinStatus :
          wins' = [w \in DOMAIN wins \cup {Cardinality(DOMAIN wins) + 1} |->
                      IF w \in DOMAIN wins THEN wins[w] ELSE s]
    /\ UNCHANGED <<tlist, tsel, filter, lists, flames, pane, stopping, lost>>

\* What the right side shows of the pane.
RightSide ==
    CASE tsel = NoSel -> "hint"
      [] tsel # NoSel /\ pane.loading -> "spinner"
      [] tsel # NoSel /\ ~pane.loading /\ pane.flame # 0 -> "graph"
      [] OTHER -> "text"

TimelineInit ==
    /\ wins = <<>> /\ tlist = <<>> /\ tsel = NoSel /\ filter = 0
    /\ lists = {ListRequest(0, NoSel)}
    /\ flames = {} /\ pane = [loading |-> FALSE, flame |-> 0, error |-> 0]
    /\ stopping = FALSE /\ lost = 0

FlameStep == \E f \in flames : FlameArrives(f, TRUE) \/ FlameArrives(f, FALSE)
ServeSomeList == \E r \in lists : ServeList(r)
SomeListArrives == \E r \in lists : ListArrives(r)

TimelineNext ==
    /\ \/ \E w \in DOMAIN tlist : world.picks /\ SelectWindow(w)
       \/ \E f \in world.ranges : SearchRange(f) \/ EditRange(f)
       \/ HandleReset \/ HandleStop \/ StopAnswered
       \/ PollWindows \/ ServeSomeList \/ SomeListArrives
       \/ \E r \in lists : ListFails(r)
       \/ FlameStep
       \/ WindowMoves
    /\ UNCHANGED world

FairTimeline == world.page = "timeline" /\ world.fair

\* The interval fires and requests are answered or time out.
TimelineFairness ==
    /\ WF_<<world, tvars>>(FairTimeline /\ PollWindows /\ UNCHANGED world)
    /\ WF_<<world, tvars>>(FairTimeline /\ ServeSomeList /\ UNCHANGED world)
    /\ WF_<<world, tvars>>(FairTimeline /\ SomeListArrives /\ UNCHANGED world)
    /\ WF_<<world, tvars>>(FairTimeline /\ FlameStep /\ UNCHANGED world)

-----------------------------------------------------------------------------
(* Properties.                                                              *)

\* The graph and the message on the right are those of the selected window, in
\* whatever order the answers for earlier selections come in
\* (ContinuousTimeline.tsx 54-105).
FlameOfSelection ==
    /\ pane.flame \in {0, tsel.w}
    /\ pane.error \in {0, tsel.w}
    /\ RightSide = "graph" => tsel.st = "done"

\* The spinner over a window with an artifact turns only while its graph is
\* being fetched.  (Over a bare or a failed one it may be left from the window
\* before, until a window with an artifact is selected: the effect returns early
\* and the cancelled request does not end it.)
SpinnerHasRequest ==
    RightSide = "spinner" /\ tsel.st = "done" =>
        \E f \in flames : f.w = tsel.w /\ ~f.cancelled

\* Polling makes up for lost and overtaken answers: a list that is not filtered
\* any more comes to hold the windows of the server
\* (ContinuousTimeline.tsx 25-52).
UnfilteredListCatchesUp ==
    FairTimeline => (<>[](filter = 0) => <>[](tlist = wins \/ filter # 0))

=============================================================================
