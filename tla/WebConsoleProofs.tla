-------------------------- MODULE WebConsoleProofs --------------------------
(***************************************************************************)
(* Theorems about the pages of the web console that show, create and       *)
(* compare tasks, for any tasks and numbers of requests under way, and     *)
(* about what all pages of the console have in common.                     *)
(***************************************************************************)
EXTENDS ManagementProofs

-----------------------------------------------------------------------------
(* Flame graphs.                                                           *)

GivenTexts == Texts \cup SampleTexts
Chart == [on : BOOLEAN, text : GivenTexts, w : Nat, h : Nat, mark : {"", "f", "g"}]

ChartTypeOK ==
    /\ chart \in Chart /\ ftext \in GivenTexts
    /\ fwidth \in Nat /\ fheight \in Nat /\ hnow \in Nat
    /\ full \in BOOLEAN /\ ftimer \in BOOLEAN /\ term \in {"", "f", "g"}

\* What is not drawn is not highlighted: a chart that comes later does not bring
\* an old term back.
ChartInv == ChartTypeOK /\ ChartIsCurrent /\ (~chart.on => chart.mark = "")

\* What renderChart draws.
LEMMA RenderChartResult ==
    ASSUME NEW text \in GivenTexts, NEW h \in Nat, fwidth \in Nat
    PROVE  LET c == RenderChart(text, h)
           IN  /\ c \in Chart /\ c.mark = ""
               /\ c.on <=> HasRoot(text)
               /\ c.on => c.text = text /\ c.h = h /\ c.w = fwidth
<1>1. <<>> \in GivenTexts
  BY DEF GivenTexts, SampleTexts
<1>2. CASE HasRoot(text)
  BY <1>2 DEF RenderChart, Chart
<1>3. CASE ~HasRoot(text)
  BY <1>1, <1>3 DEF RenderChart, Chart, NoChart
<1>4. QED BY <1>2, <1>3

\* A render of the component.
LEMMA RenderedChartInv ==
    ASSUME ChartInv, NEW text \in GivenTexts, NEW isFull \in BOOLEAN,
           NEW t \in {"", "f", "g"}, Rendered(text, isFull, t)
    PROVE  ChartInv'
<1> USE DEF ChartInv, ChartTypeOK
<1> DEFINE h == IF isFull THEN fheight ELSE 0
           redraw == text # ftext \/ h # hnow
           drawn == IF redraw THEN RenderChart(text, h) ELSE chart
<1>1. /\ ftext' = text /\ term' = t /\ hnow' = h /\ full' = isFull
      /\ fwidth' = fwidth /\ fheight' = fheight
      /\ chart' = IF t # term /\ drawn.on THEN [drawn EXCEPT !.mark = t] ELSE drawn
      /\ ftimer' = (ftimer /\ h = hnow)
  BY DEF Rendered
<1>2. h \in Nat
  OBVIOUS
<1>3. /\ drawn \in Chart /\ drawn.mark \in {"", term} /\ (~drawn.on => drawn.mark = "")
      /\ drawn.on <=> HasRoot(text)
      /\ drawn.on => drawn.text = text /\ drawn.h = h
      /\ drawn.on /\ (redraw \/ ~ftimer) => drawn.w = fwidth
  <2>1. CASE redraw
    BY <1>2, <2>1, RenderChartResult
  <2>2. CASE ~redraw
    BY <2>2 DEF ChartIsCurrent
  <2>3. QED BY <2>1, <2>2
<1> HIDE DEF drawn
<1>4. CASE t # term /\ drawn.on
  <2>1. chart' = [drawn EXCEPT !.mark = t]
    BY <1>1, <1>4
  <2>2. /\ chart' \in Chart /\ chart'.mark = t /\ chart'.on /\ chart'.text = drawn.text
        /\ chart'.h = drawn.h /\ chart'.w = drawn.w
    BY <1>3, <1>4, <2>1 DEF Chart
  <2>3. QED
    BY <1>1, <1>2, <1>3, <1>4, <2>2 DEF ChartIsCurrent
<1>5. CASE ~(t # term /\ drawn.on)
  <2>1. chart' = drawn
    BY <1>1, <1>5
  <2>2. QED
    BY <1>1, <1>2, <1>3, <1>5, <2>1 DEF ChartIsCurrent
<1>6. QED BY <1>4, <1>5

\* Every step of the pages with flame graphs.
LEMMA FlameNextChartInv == ChartInv /\ FlameNext => ChartInv'
<1> SUFFICES ASSUME ChartInv, FlameNext PROVE ChartInv'
  OBVIOUS
<1>0. 1 .. 2 \subseteq Nat
  OBVIOUS
<1> USE DEF ChartInv, ChartTypeOK
<1>1. ASSUME NEW text \in SampleTexts, NewData(text) PROVE ChartInv'
  BY <1>1, RenderedChartInv DEF NewData, GivenTexts
<1>2. CASE FullscreenChange
  BY <1>2, RenderedChartInv DEF FullscreenChange
<1>3. ASSUME NEW t \in {"", "f", "g"}, Search(t) PROVE ChartInv'
  BY <1>3, RenderedChartInv DEF Search
<1>4. ASSUME NEW w \in 1 .. 2, NEW h \in 1 .. 2, WindowResizes(w, h) PROVE ChartInv'
  <2>1. /\ fwidth' = w /\ fheight' = h /\ ftimer' = TRUE
        /\ UNCHANGED <<ftext, full, term, hnow, chart>>
    BY <1>4 DEF WindowResizes
  <2>2. HasRoot(ftext)' <=> HasRoot(ftext)
    BY <2>1
  <2>3. w \in Nat /\ h \in Nat
    BY <1>0
  <2>4. QED
    BY <2>1, <2>2, <2>3 DEF ChartIsCurrent
<1>5. CASE ResizeTimer
  <2>1. /\ chart' = RenderChart(ftext, hnow) /\ ftimer' = FALSE
        /\ UNCHANGED <<ftext, fwidth, fheight, full, term, hnow>>
    BY <1>5 DEF ResizeTimer
  <2>2. QED
    BY <2>1, RenderChartResult DEF ChartIsCurrent
<1>6. CASE KeepChart
  BY <1>6 DEF KeepChart, ChartIsCurrent
<1>7. QED
  BY <1>1, <1>2, <1>3, <1>4, <1>5, <1>6 DEF FlameNext, ChangePair, DoDiff, DiffAnswered

\* The other pages do not touch it.
LEMMA NextChartInv == ChartInv /\ [Next]_wvars => ChartInv'
<1>1. ASSUME ChartInv, UNCHANGED fvars PROVE ChartInv'
  <2>1. UNCHANGED <<ftext, fwidth, fheight, full, term, hnow, chart, ftimer>>
    BY <1>1 DEF fvars
  <2>2. QED
    BY <1>1, <2>1 DEF ChartInv, ChartTypeOK, ChartIsCurrent
<1>2. QED
  BY <1>1, FlameNextChartInv
     DEF Next, wvars, ResultPage, CreationPages, Timeline, FlamePages, SessionOfTab, Groups,
         Lists, Settings

\* A chart that waits for no timer shows the current data at the size of its
\* container, and highlights what the search field says or nothing
\* (FlameGraph.tsx, FlameDiff.tsx).
THEOREM ChartsAreCurrent == Spec => []ChartIsCurrent
<1>1. Init => ChartInv
  <2> SUFFICES ASSUME FlameInit PROVE ChartInv
    BY DEF Init
  <2>1. /\ ftext \in GivenTexts /\ fwidth = 1 /\ fheight = 1 /\ hnow = 0 /\ full = FALSE
        /\ term = "" /\ ftimer = FALSE /\ chart = RenderChart(ftext, 0)
    BY DEF FlameInit, GivenTexts, SampleTexts
  <2>2. /\ chart \in Chart /\ chart.mark = ""
        /\ chart.on <=> HasRoot(ftext)
        /\ chart.on => chart.text = ftext /\ chart.h = 0 /\ chart.w = fwidth
    BY <2>1, RenderChartResult
  <2>3. QED
    BY <2>1, <2>2 DEF ChartInv, ChartTypeOK, ChartIsCurrent
<1>2. ChartInv => ChartIsCurrent
  BY DEF ChartInv
<1>3. QED
  BY <1>1, <1>2, NextChartInv, PTL DEF Spec

-----------------------------------------------------------------------------
(* The result page.                                                        *)

ResultRow == [stage : Stages, made : BOOLEAN]
ShownTask == {NoTask} \cup [tid : Tids, stage : Stages]
RequestKinds == {"detail", "answer", "suggest", "flame", "cosfiles", "top", "collapsed",
                 "ebpf", "pprof", "memory", "evidence", "memray"}
LoadCall == [tid : Tids, at : RequestKinds, seen : ResultRow, files : SUBSET Artifacts]
ResultView ==
    [task : ShownTask, shown : [Slots -> Tids \cup {""}],
     busy : SUBSET (Spinners \cup {"page"}), bad : SUBSET {"page", "flame", "memray"},
     tab : Panels \cup {"info", "states", "files"}, frame : 0 .. 3]

ResultTypeOK ==
    /\ world \in Worlds
    /\ row \in [Tids -> ResultRow] /\ rtid \in Tids \cup {""}
    /\ view \in ResultView /\ loads \in Seq(LoadCall)
    /\ trigger \in Tids \cup {""} /\ live \subseteq 1 .. 3 /\ urlRef \in 0 .. 3
    /\ mixed \in BOOLEAN /\ ticker \in BOOLEAN
    /\ ticker => rtid # ""                    \* leaving the page clears the interval

\* The spinner of the page turns while some load is under way, that of a panel
\* while a load has the request of this panel out.
SpinnersInv ==
    rtid # "" =>
        \A s \in view.busy : \/ s = "page" /\ loads # <<>>
                             \/ \E k \in 1 .. Len(loads) : loads[k].at = s

\* Until the tid changes under a request, all that is shown and all that is under
\* way belongs to the task in the URL.
OwnTaskInv ==
    rtid # "" /\ ~mixed =>
        /\ view.task.tid \in {"", rtid} /\ trigger \in {"", rtid}
        /\ \A s \in Slots : view.shown[s] \in {"", rtid}
        /\ \A k \in 1 .. Len(loads) : loads[k].tid = rtid

ResultInv == ResultTypeOK /\ MemrayFrameIsLive /\ SpinnersInv /\ OwnTaskInv

\* A set of places in the list of requests has a first one.
LEMMA FirstRequest ==
    ASSUME NEW S \in SUBSET (1 .. 12), S # {}
    PROVE  Min(S) \in S
<1>1. \E x \in S : \A y \in S : x <= y
  <2> SUFFICES ASSUME \A x \in S : \E y \in S : ~(x <= y) PROVE FALSE
    OBVIOUS
  <2>1. \A x \in S : x \in 1 .. 12
    OBVIOUS
  <2>2. 1 \notin S
    BY <2>1
  <2>3. 2 \notin S /\ 3 \notin S /\ 4 \notin S
    BY <2>1, <2>2
  <2>4. 5 \notin S /\ 6 \notin S /\ 7 \notin S
    BY <2>1, <2>2, <2>3
  <2>5. 8 \notin S /\ 9 \notin S /\ 10 \notin S
    BY <2>1, <2>2, <2>3, <2>4
  <2>6. 11 \notin S /\ 12 \notin S
    BY <2>1, <2>2, <2>3, <2>4, <2>5
  <2>7. PICK x \in S : TRUE
    OBVIOUS
  <2>8. \/ x = 1 \/ x = 2 \/ x = 3 \/ x = 4 \/ x = 5 \/ x = 6
        \/ x = 7 \/ x = 8 \/ x = 9 \/ x = 10 \/ x = 11 \/ x = 12
    BY <2>1
  <2>9. QED
    BY <2>2, <2>3, <2>4, <2>5, <2>6, <2>7, <2>8
<1>2. QED
  BY <1>1 DEF Min

\* loadTask goes on with one of its requests or is done.
LEMMA NextRequestKind ==
    ASSUME NEW l, NEW after \in RequestKinds
    PROVE  NextRequest(l, after) \in RequestKinds \cup {"done"}
<1>1. /\ Len(Requests) = 12
      /\ \A n \in 1 .. 12 : Requests[n] \in RequestKinds
      /\ \E n \in 1 .. 12 : Requests[n] = after
  BY DEF Requests, RequestKinds
<1> DEFINE place == CHOOSE n \in 1 .. Len(Requests) : Requests[n] = after
           rest == {n \in place + 1 .. Len(Requests) : Wanted(l, Requests[n])}
<1>2. place \in 1 .. 12
  BY <1>1
<1> HIDE DEF place
<1>3. rest \in SUBSET (1 .. 12)
  BY <1>1, <1>2
<1>4. NextRequest(l, after) = IF rest = {} THEN "done" ELSE Requests[Min(rest)]
  BY DEF NextRequest, place
<1> HIDE DEF rest
<1>5. QED
  BY <1>1, <1>3, <1>4, FirstRequest

\* The tabs of a page.
LEMMA VisibleTabs ==
    ASSUME world \in Worlds, NEW v \in ResultView, v.task # NoTask
    PROVE  /\ Kind(v.task.tid) \in Kinds
           /\ VisibleTabKeys(v) \subseteq Panels \cup {"info", "states", "files"}
<1>1. v.task \in [tid : Tids, stage : Stages]
  BY DEF ResultView, ShownTask
<1>2. Kind(v.task.tid) \in Kinds
  BY <1>1, WorldsAssumption DEF Kind
<1>3. ExpectedPanels(Kind(v.task.tid)) \subseteq Panels
  BY <1>2 DEF ExpectedPanels, Kinds, Panels
<1>4. QED
  BY <1>2, <1>3 DEF VisibleTabKeys

\* The effect after a render changes at most the tab.
LEMMA SettledView ==
    ASSUME world \in Worlds, NEW v \in ResultView
    PROVE  /\ Settled(v) \in ResultView
           /\ Settled(v).task = v.task /\ Settled(v).shown = v.shown
           /\ Settled(v).busy = v.busy /\ Settled(v).frame = v.frame /\ Settled(v).bad = v.bad
<1>1. CASE v.task = NoTask \/ v.tab \in VisibleTabKeys(v)
  BY <1>1 DEF Settled
<1>2. CASE ~(v.task = NoTask \/ v.tab \in VisibleTabKeys(v))
  <2> DEFINE primary == PrimaryPanel(Kind(v.task.tid))
             tab == IF primary \in VisibleTabKeys(v) THEN primary ELSE "info"
  <2>3. tab \in Panels \cup {"info", "states", "files"}
    BY <1>2, VisibleTabs
  <2>4. Settled(v) = [v EXCEPT !.tab = tab]
    BY <1>2 DEF Settled
  <2> HIDE DEF tab
  <2>5. QED
    BY <2>3, <2>4 DEF ResultView
<1>3. QED BY <1>1, <1>2

\* What Show leaves on the page.
LEMMA ShowView ==
    ASSUME world \in Worlds, view \in ResultView, NEW v \in ResultView, Show(v)
    PROVE  /\ view' \in ResultView
           /\ rtid # "" => /\ view'.task = v.task /\ view'.shown = v.shown
                           /\ view'.busy = v.busy /\ view'.frame = v.frame
                           /\ view'.bad = v.bad
BY SettledView DEF Show


\* The sequence of loads when one of them goes on.
LEMMA LoadReplaced ==
    ASSUME loads \in Seq(LoadCall), NEW i \in 1 .. Len(loads), NEW m \in LoadCall,
           loads' = ReplaceAt(loads, i, m)
    PROVE  /\ loads' \in Seq(LoadCall) /\ Len(loads') = Len(loads)
           /\ loads'[i] = m /\ \A k \in 1 .. Len(loads) : k # i => loads'[k] = loads[k]
BY DEF ReplaceAt

\* The sequence of loads when one begins.
LEMMA LoadAppended ==
    ASSUME loads \in Seq(LoadCall), NEW l \in LoadCall, loads' = Append(loads, l)
    PROVE  /\ loads' \in Seq(LoadCall) /\ Len(loads') = Len(loads) + 1 /\ Len(loads) \in Nat
           /\ loads'[Len(loads) + 1] = l
           /\ \A k \in 1 .. Len(loads) : loads'[k] = loads[k]
           /\ 1 .. Len(loads') = (1 .. Len(loads)) \cup {Len(loads) + 1}
BY AppendElements

\* The page before anything has arrived, and when a load of it has begun.
LEMMA EmptyPage ==
    ASSUME NEW b \in SUBSET {"page", "flame", "memray"}
    PROVE  LET v == LoadBegins([EmptyView EXCEPT !.bad = b])
           IN  /\ v \in ResultView /\ v.task = NoTask /\ v.frame = 0 /\ v.busy = {"page"}
               /\ \A s \in Slots : v.shown[s] = ""
               /\ "page" \notin v.bad
<1> DEFINE e == [s \in Slots |-> ""]
           x == {"page"}
           u == [EmptyView EXCEPT !.bad = b]
           w == Without(u, {"ebpf", "pprof", "memory", "evidence"})
<1>1. e \in [Slots -> Tids \cup {""}] /\ \A s \in Slots : e[s] = ""
  OBVIOUS
<1>2. "flame" \in Panels \cup {"info", "states", "files"}
      /\ NoTask \in ShownTask /\ 0 \in 0 .. 3 /\ x \subseteq Spinners \cup {"page"}
  BY DEF Panels, ShownTask
<1>3. EmptyView = [task |-> NoTask, shown |-> e, busy |-> x, bad |-> {}, tab |-> "flame",
                   frame |-> 0]
  BY DEF EmptyView
<1> HIDE DEF e, x
<1>4. /\ EmptyView \in ResultView /\ EmptyView.task = NoTask /\ EmptyView.frame = 0
      /\ EmptyView.busy = x /\ EmptyView.shown = e
  BY <1>1, <1>2, <1>3 DEF ResultView
<1>5. u \in ResultView /\ u.task = NoTask /\ u.frame = 0 /\ u.busy = x /\ u.shown = e
  BY <1>4 DEF ResultView
<1> HIDE DEF u
<1>6. /\ w \in ResultView /\ w.task = NoTask /\ w.frame = 0 /\ w.busy = x
      /\ \A s \in Slots : w.shown[s] = ""
  BY <1>1, <1>5 DEF Without, ResultView
<1>7. LoadBegins(u) = [w EXCEPT !.busy = @ \ {"ebpf", "pprof"}, !.bad = @ \ {"page", "memray"}]
  BY DEF LoadBegins
<1> HIDE DEF w
<1>8. x \ {"ebpf", "pprof"} = x
  BY DEF x
<1>9. /\ LoadBegins(u) \in ResultView /\ LoadBegins(u).task = w.task
      /\ LoadBegins(u).frame = w.frame /\ LoadBegins(u).busy = x
      /\ LoadBegins(u).shown = w.shown /\ LoadBegins(u).bad = w.bad \ {"page", "memray"}
  BY <1>6, <1>7, <1>8, ZenonT(60) DEF ResultView
<1>10. QED
  BY <1>6, <1>9 DEF u, x

\* One request of a load is over: the load goes on or ends, and every spinner
\* that is left has its request.
LEMMA ProceedKeeps ==
    ASSUME ResultTypeOK, SpinnersInv, NEW i \in 1 .. Len(loads), NEW l \in LoadCall,
           NEW after \in RequestKinds, NEW v \in ResultView, Proceed(i, l, after, v),
           l.tid = loads[i].tid, v.busy \subseteq view.busy, loads[i].at \notin v.busy,
           rtid' \in {rtid, ""}
    PROVE  /\ view' \in ResultView /\ loads' \in Seq(LoadCall) /\ SpinnersInv'
           /\ rtid # "" => /\ view'.task = v.task /\ view'.shown = v.shown
                           /\ view'.frame = v.frame
           /\ \A k \in 1 .. Len(loads') : \E j \in 1 .. Len(loads) : loads'[k].tid = loads[j].tid
<1>b. /\ world \in Worlds /\ view \in ResultView /\ loads \in Seq(LoadCall)
  BY DEF ResultTypeOK
<1>a. /\ world \in Worlds /\ view \in ResultView /\ loads \in Seq(LoadCall)
      /\ Len(loads) \in Nat
  BY <1>b, LenProperties
<1> DEFINE next == NextRequest(l, after)
<1>0. next \in RequestKinds \cup {"done"}
  BY NextRequestKind
<1>1. CASE next = "done"
  <2> DEFINE w == [v EXCEPT !.busy = @ \ {"page"}]
  <2>1. loads' = RemoveAt(loads, i) /\ Show(w)
    BY <1>1 DEF Proceed
  <2>2. w \in ResultView /\ w.task = v.task /\ w.shown = v.shown /\ w.frame = v.frame
        /\ w.busy = v.busy \ {"page"}
    BY DEF ResultView
  <2> HIDE DEF w
  <2>3. /\ view' \in ResultView
        /\ rtid # "" => /\ view'.task = v.task /\ view'.shown = v.shown
                        /\ view'.frame = v.frame /\ view'.busy = v.busy \ {"page"}
    BY <1>a, <2>1, <2>2, ShowView
  <2>4. /\ loads' \in Seq(LoadCall)
        /\ \A k \in 1 .. Len(loads') : \E j \in 1 .. Len(loads) : loads'[k] = loads[j]
        /\ \A j \in 1 .. Len(loads) : j # i => \E k \in 1 .. Len(loads') : loads'[k] = loads[j]
    <3> DEFINE r == RemoveAt(loads, i)
    <3>1. /\ r \in Seq(LoadCall)
          /\ \A k \in 1 .. Len(r) : \E j \in 1 .. Len(loads) : j # i /\ r[k] = loads[j]
          /\ \A j \in 1 .. Len(loads) : j # i => \E k \in 1 .. Len(r) : r[k] = loads[j]
      BY <1>b, RemoveAtElements, ZenonT(60)
    <3> HIDE DEF r
    <3>2. loads' = r
      BY <2>1 DEF r
    <3>3. QED BY <3>1, <3>2, Zenon
  <2>5. SpinnersInv'
    <3> SUFFICES ASSUME rtid' # "", NEW s \in view'.busy
                 PROVE  \E k \in 1 .. Len(loads') : loads'[k].at = s
      BY DEF SpinnersInv
    <3>1. s \in view.busy /\ s # "page" /\ s # loads[i].at /\ rtid # ""
      BY <2>3
    <3>2. PICK j \in 1 .. Len(loads) : loads[j].at = s
      BY <3>1 DEF SpinnersInv
    <3>3. j # i
      BY <3>1, <3>2
    <3>4. QED
      BY <2>4, <3>2, <3>3
  <2>6. QED
    BY <2>3, <2>4, <2>5
<1>2. CASE next # "done"
  <2> DEFINE w == [v EXCEPT !.busy = @ \cup ({next} \cap Spinners)]
             m == [l EXCEPT !.at = next]
  <2>0. next \in RequestKinds
    BY <1>0, <1>2
  <2>1. loads' = ReplaceAt(loads, i, m) /\ Show(w)
    BY <1>2 DEF Proceed
  <2> HIDE DEF next
  <2>2. /\ w \in ResultView /\ w.task = v.task /\ w.shown = v.shown /\ w.frame = v.frame
        /\ w.busy = v.busy \cup ({next} \cap Spinners)
    BY DEF ResultView
  <2>3. m \in LoadCall /\ m.at = next /\ m.tid = l.tid
    BY <2>0 DEF LoadCall
  <2> HIDE DEF w, m
  <2>4. /\ view' \in ResultView
        /\ rtid # "" => /\ view'.task = v.task /\ view'.shown = v.shown
                        /\ view'.frame = v.frame
                        /\ view'.busy = v.busy \cup ({next} \cap Spinners)
    BY <1>a, <2>1, <2>2, ShowView
  <2>5. /\ loads' \in Seq(LoadCall) /\ Len(loads') = Len(loads)
        /\ loads'[i] = m /\ \A k \in 1 .. Len(loads) : k # i => loads'[k] = loads[k]
    BY <1>b, <2>1, <2>3, LoadReplaced, Zenon
  <2>6. SpinnersInv'
    <3> SUFFICES ASSUME rtid' # "", NEW s \in view'.busy
                 PROVE  \/ s = "page" /\ loads' # <<>>
                        \/ \E k \in 1 .. Len(loads') : loads'[k].at = s
      BY DEF SpinnersInv
    <3>0. loads' # <<>>
      BY <2>5, NotEmpty, Zenon
    <3>1. CASE s = next
      BY <2>3, <2>5, <3>1
    <3>2. CASE s # next /\ s = "page"
      BY <3>0, <3>2
    <3>3. CASE s # next /\ s # "page"
      <4>1. s \in view.busy /\ s # loads[i].at /\ rtid # ""
        BY <2>4, <3>3
      <4>2. PICK j \in 1 .. Len(loads) : loads[j].at = s
        BY <3>3, <4>1 DEF SpinnersInv
      <4>3. QED
        BY <2>5, <4>1, <4>2
    <3>4. QED BY <3>1, <3>2, <3>3
  <2>7. QED
    BY <2>3, <2>4, <2>5, <2>6
<1>3. QED BY <1>1, <1>2

\* A load begins, for the task t.
LEMMA BeginLoadKeeps ==
    ASSUME ResultTypeOK, SpinnersInv, NEW t \in Tids, BeginLoad(t, view), UNCHANGED rtid
    PROVE  /\ view' \in ResultView /\ loads' \in Seq(LoadCall) /\ SpinnersInv'
           /\ rtid # "" => /\ view'.task = view.task /\ view'.frame = view.frame
                           /\ \A s \in Slots : view'.shown[s] \in {"", view.shown[s]}
           /\ \A k \in 1 .. Len(loads') :
                 loads'[k].tid = t \/ \E j \in 1 .. Len(loads) : loads'[k].tid = loads[j].tid
<1>b. /\ world \in Worlds /\ view \in ResultView /\ loads \in Seq(LoadCall)
  BY DEF ResultTypeOK
<1>a. /\ world \in Worlds /\ view \in ResultView /\ loads \in Seq(LoadCall)
      /\ Len(loads) \in Nat
  BY <1>b, LenProperties
<1> DEFINE v == LoadBegins(view)
           l == NewLoad(t)
<1>1. loads' = Append(loads, l) /\ Show(v)
  BY DEF BeginLoad
<1>2. l \in LoadCall /\ l.tid = t
  BY DEF NewLoad, LoadCall, NoRow, ResultRow, RequestKinds, Stages
<1>3. /\ v \in ResultView /\ v.task = view.task /\ v.frame = view.frame
      /\ v.busy = view.busy \ {"ebpf", "pprof"}
      /\ \A s \in Slots : v.shown[s] \in {"", view.shown[s]}
  <2> DEFINE u == Without(view, {"ebpf", "pprof", "memory", "evidence"})
  <2>1. /\ u \in ResultView /\ u.task = view.task /\ u.frame = view.frame
        /\ u.busy = view.busy /\ u.bad = view.bad
        /\ \A s \in Slots : u.shown[s] \in {"", view.shown[s]}
    BY <1>a DEF Without, ResultView
  <2>2. v = [u EXCEPT !.busy = @ \ {"ebpf", "pprof"}, !.bad = @ \ {"page", "memray"}]
    BY DEF LoadBegins
  <2> HIDE DEF u, v
  <2>3. QED
    BY <2>1, <2>2 DEF ResultView
<1> HIDE DEF v, l
<1>4. /\ view' \in ResultView
      /\ rtid # "" => /\ view'.task = v.task /\ view'.shown = v.shown
                      /\ view'.frame = v.frame /\ view'.busy = v.busy
  BY <1>a, <1>1, <1>3, ShowView
<1>5. /\ loads' \in Seq(LoadCall) /\ Len(loads') = Len(loads) + 1 /\ Len(loads) \in Nat
      /\ loads'[Len(loads) + 1] = l
      /\ \A k \in 1 .. Len(loads) : loads'[k] = loads[k]
      /\ 1 .. Len(loads') = (1 .. Len(loads)) \cup {Len(loads) + 1}
  BY <1>a, <1>1, <1>2, LoadAppended, Zenon
<1>6. SpinnersInv'
  <2> SUFFICES ASSUME rtid # "", NEW s \in view'.busy
               PROVE  \/ s = "page" /\ loads' # <<>>
                      \/ \E k \in 1 .. Len(loads') : loads'[k].at = s
    BY DEF SpinnersInv
  <2>1. s \in view.busy
    BY <1>3, <1>4
  <2>2. loads' # <<>>
    BY <1>5, NotEmpty, Zenon
  <2>3. QED
    BY <1>5, <2>1, <2>2 DEF SpinnersInv
<1>7. QED
  BY <1>2, <1>3, <1>4, <1>5, <1>6

\* A function on the slots that puts t into some of them.
LEMMA SlotSet ==
    ASSUME NEW f \in [Slots -> Tids \cup {""}], NEW r, NEW t \in Tids \cup {""}
    PROVE  /\ [f EXCEPT ![r] = t] \in [Slots -> Tids \cup {""}]
           /\ \A s \in Slots : [f EXCEPT ![r] = t][s] \in {t, f[s]}
OBVIOUS

\* What an answer changes: the slot of the request, for the task of the load, and
\* its spinner goes.
LEMMA AppliedView ==
    ASSUME NEW v \in ResultView, NEW l \in LoadCall,
           NEW request \in RequestKinds \ {"detail", "answer"}
    PROVE  LET w == Applied(v, l, request)
           IN  /\ w \in ResultView /\ w.task = v.task /\ w.frame = v.frame
               /\ w.busy \subseteq v.busy /\ request \notin w.busy
               /\ \A s \in Slots : w.shown[s] \in {"", l.tid, v.shown[s]}
<1>0. /\ v.shown \in [Slots -> Tids \cup {""}] /\ l.tid \in Tids
      /\ v.busy \subseteq Spinners \cup {"page"} /\ v.bad \subseteq {"page", "flame", "memray"}
  BY DEF ResultView, LoadCall
<1>1. CASE request = "suggest"
  <2> DEFINE t == Suggested(l.tid, row[l.tid])
             g == [v.shown EXCEPT !["suggestions"] = t]
  <2>1. t \in {"", l.tid}
    BY DEF Suggested
  <2>2. Applied(v, l, request) = [v EXCEPT !.shown = g]
    BY <1>1 DEF Applied, ResultView
  <2>3. g \in [Slots -> Tids \cup {""}] /\ \A s \in Slots : g[s] \in {t, v.shown[s]}
    BY <1>0, <2>1, SlotSet
  <2>4. request \notin v.busy
    BY <1>0, <1>1 DEF Spinners
  <2> HIDE DEF t, g
  <2>5. QED
    BY <2>1, <2>2, <2>3, <2>4, ZenonT(60) DEF ResultView
<1>2. CASE request = "flame"
  <2> DEFINE g == [s \in Slots |-> IF s \in FlameArtifact(l.tid) THEN l.tid ELSE v.shown[s]]
             b == IF FlameArtifact(l.tid) = {} THEN v.bad \cup {"flame"} ELSE v.bad \ {"flame"}
  <2>1. Applied(v, l, request) = [v EXCEPT !.shown = g, !.bad = b]
    BY <1>2 DEF Applied, ResultView
  <2>2. /\ g \in [Slots -> Tids \cup {""}] /\ \A s \in Slots : g[s] \in {l.tid, v.shown[s]}
        /\ b \subseteq {"page", "flame", "memray"}
    BY <1>0
  <2>3. request \notin v.busy
    BY <1>0, <1>2 DEF Spinners
  <2> HIDE DEF g, b
  <2>4. QED
    BY <2>1, <2>2, <2>3, ZenonT(60) DEF ResultView
<1>3. CASE request = "cosfiles"
  <2> DEFINE t == IF Storage(l.tid) = {} THEN "" ELSE l.tid
             g == [v.shown EXCEPT !["files"] = t]
  <2>1. Applied(v, l, request) = [v EXCEPT !.shown = g]
    BY <1>3 DEF Applied, ResultView
  <2>2. t \in {"", l.tid}
    OBVIOUS
  <2> HIDE DEF t
  <2>3. g \in [Slots -> Tids \cup {""}] /\ \A s \in Slots : g[s] \in {t, v.shown[s]}
    BY <1>0, <2>2, SlotSet
  <2>4. request \notin v.busy
    BY <1>0, <1>3 DEF Spinners
  <2> HIDE DEF g
  <2>5. QED
    BY <2>1, <2>2, <2>3, <2>4 DEF ResultView
<1>4. CASE request \notin {"suggest", "flame", "cosfiles"}
  <2> DEFINE g == [v.shown EXCEPT ![request] = l.tid]
             b == v.busy \ {request}
  <2>1. Applied(v, l, request) = [v EXCEPT !.shown = g, !.busy = b]
    BY <1>4 DEF Applied, ResultView
  <2>2. g \in [Slots -> Tids \cup {""}] /\ \A s \in Slots : g[s] \in {l.tid, v.shown[s]}
    BY <1>0, SlotSet
  <2>3. b \subseteq v.busy /\ request \notin b
    OBVIOUS
  <2> HIDE DEF g, b
  <2>4. QED
    BY <2>1, <2>2, <2>3, ZenonT(60) DEF ResultView
<1>5. QED BY <1>1, <1>2, <1>3, <1>4

\* What a failed request changes: its slot is emptied at most, and its spinner goes.
LEMMA FailedView ==
    ASSUME NEW v \in ResultView, NEW request \in RequestKinds \ {"detail", "answer"}
    PROVE  LET w == Failed(v, request)
           IN  /\ w \in ResultView /\ w.task = v.task /\ w.frame = v.frame
               /\ w.busy \subseteq v.busy /\ request \notin w.busy
               /\ \A s \in Slots : w.shown[s] \in {"", v.shown[s]}
<1>0. /\ v.shown \in [Slots -> Tids \cup {""}]
      /\ v.busy \subseteq Spinners \cup {"page"} /\ v.bad \subseteq {"page", "flame", "memray"}
  BY DEF ResultView
<1>1. ASSUME NEW S
      PROVE  LET w == Without(v, S)
             IN  /\ w \in ResultView /\ w.task = v.task /\ w.frame = v.frame
                 /\ w.busy = v.busy /\ \A s \in Slots : w.shown[s] \in {"", v.shown[s]}
  BY <1>0 DEF Without, ResultView
<1>2. request \notin Spinners => request \notin v.busy
  BY <1>0 DEF RequestKinds
<1>3. CASE request = "flame"
  BY <1>2, <1>3 DEF Failed, ResultView, Spinners
<1>4. CASE request = "cosfiles"
  BY <1>1, <1>2, <1>4 DEF Failed, Spinners
<1>5. CASE request = "top"
  BY <1>1, <1>2, <1>5 DEF Failed, Spinners
<1>6. CASE request \in {"ebpf", "pprof"}
  <2> DEFINE u == Without(v, {request})
             b == v.busy \ {request}
             w == [u EXCEPT !.busy = @ \ {request}]
  <2>1. Failed(v, request) = w
    BY <1>6 DEF Failed
  <2>2. /\ u \in ResultView /\ u.task = v.task /\ u.frame = v.frame
        /\ u.busy = v.busy /\ \A s \in Slots : u.shown[s] \in {"", v.shown[s]}
    BY <1>1
  <2> HIDE DEF u
  <2>3. u.busy \ {request} = b /\ b \subseteq Spinners \cup {"page"}
    BY <1>0, <2>2
  <2>4. /\ w \in ResultView /\ w.task = u.task /\ w.frame = u.frame /\ w.shown = u.shown
        /\ w.busy = b
    BY <2>2, <2>3 DEF ResultView
  <2> HIDE DEF w
  <2>5. QED
    BY <2>1, <2>2, <2>4
<1>7. CASE request = "memray"
  BY <1>0, <1>7 DEF Failed, ResultView
<1>8. CASE request \notin {"flame", "cosfiles", "top", "ebpf", "pprof", "memray"}
  BY <1>2, <1>8 DEF Failed, Spinners, ResultView
<1>9. QED BY <1>3, <1>4, <1>5, <1>6, <1>7, <1>8

\* The object URLs, when neither a URL nor the frame is new.
LEMMA SameFrame ==
    ASSUME MemrayFrameIsLive, UNCHANGED <<live, urlRef>>, rtid' \in {rtid, ""},
           rtid # "" => view'.frame = view.frame
    PROVE  MemrayFrameIsLive'
BY DEF MemrayFrameIsLive

\* The task of the URL, when loads only go on or end.
LEMMA SameTask ==
    ASSUME OwnTaskInv, UNCHANGED <<trigger, mixed>>, rtid' \in {rtid, ""},
           NEW t \in {loads[j].tid : j \in 1 .. Len(loads)},
           rtid # "" => /\ view'.task.tid \in {t, view.task.tid}
                        /\ \A s \in Slots : view'.shown[s] \in {"", t, view.shown[s]},
           \A k \in 1 .. Len(loads') : \E j \in 1 .. Len(loads) : loads'[k].tid = loads[j].tid
    PROVE  OwnTaskInv'
<1> SUFFICES ASSUME rtid' # "", ~mixed' PROVE OwnTaskInv'
  BY DEF OwnTaskInv
<1>1. rtid' = rtid /\ rtid # "" /\ ~mixed
  OBVIOUS
<1>2. /\ view.task.tid \in {"", rtid} /\ trigger \in {"", rtid}
      /\ \A s \in Slots : view.shown[s] \in {"", rtid}
      /\ \A k \in 1 .. Len(loads) : loads[k].tid = rtid
  BY <1>1 DEF OwnTaskInv
<1>3. t = rtid
  BY <1>2
<1>4. view'.task.tid \in {"", rtid} /\ \A s \in Slots : view'.shown[s] \in {"", rtid}
  BY <1>1, <1>2, <1>3
<1>5. \A k \in 1 .. Len(loads') : loads'[k].tid = rtid
  BY <1>2
<1>6. QED
  BY <1>1, <1>2, <1>4, <1>5 DEF OwnTaskInv

\* The files of a task.
LEMMA StorageFiles ==
    ASSUME ResultTypeOK, NEW t \in Tids
    PROVE  Storage(t) \subseteq Artifacts /\ DetailFiles(t) \subseteq Artifacts
<1>1. world.raw[t] \subseteq Artifacts /\ world.artifacts[t] \subseteq Artifacts
  BY WorldsAssumption DEF ResultTypeOK
<1>2. QED
  BY <1>1 DEF Storage, DetailFiles

\* The detail request reaches the server.
LEMMA ServeDetailKeeps ==
    ASSUME ResultInv, NEW i \in 1 .. Len(loads), ServeDetail(i), UNCHANGED world
    PROVE  ResultInv'
<1> DEFINE l == loads[i]
           m == [l EXCEPT !.at = "answer", !.seen = row[l.tid], !.files = DetailFiles(l.tid)]
<1>1. ResultTypeOK /\ MemrayFrameIsLive /\ SpinnersInv /\ OwnTaskInv
  BY DEF ResultInv
<1>a. loads \in Seq(LoadCall)
  BY <1>1 DEF ResultTypeOK
<1>2. loads \in Seq(LoadCall) /\ l \in LoadCall
  BY <1>a, ElementOfSeq
<1>3. l.tid \in Tids
  BY <1>2 DEF LoadCall
<1>4. row[l.tid] \in ResultRow /\ DetailFiles(l.tid) \subseteq Artifacts
  BY <1>1, <1>3, StorageFiles DEF ResultTypeOK
<1>5. l.at = "detail" /\ loads' = [loads EXCEPT ![i] = m]
      /\ UNCHANGED <<row, rtid, view, ticker, trigger, live, urlRef, mixed>>
  BY <1>2 DEF ServeDetail
<1>6. m \in LoadCall /\ m.tid = l.tid
  BY <1>2, <1>4 DEF LoadCall, RequestKinds
<1> HIDE DEF m
<1>7. /\ loads' \in Seq(LoadCall) /\ Len(loads') = Len(loads)
      /\ loads'[i] = m /\ \A k \in 1 .. Len(loads) : k # i => loads'[k] = loads[k]
  BY <1>2, <1>5, <1>6, LoadReplaced DEF ReplaceAt
<1>8. ResultTypeOK'
  BY <1>1, <1>5, <1>7 DEF ResultTypeOK
<1>9. SpinnersInv'
  <2> SUFFICES ASSUME rtid # "", NEW s \in view.busy
               PROVE  \/ s = "page" /\ loads' # <<>>
                      \/ \E k \in 1 .. Len(loads) : loads'[k].at = s
    BY <1>5, <1>7 DEF SpinnersInv
  <2>1. s # "detail" /\ loads' # <<>>
    <3>1. s # "detail"
      BY <1>1 DEF ResultTypeOK, ResultView, Spinners
    <3>2. loads' # <<>>
      BY <1>7, NotEmpty, Zenon
    <3>3. QED BY <3>1, <3>2
  <2>2. QED
    BY <1>1, <1>5, <1>7, <2>1 DEF SpinnersInv
<1>10. OwnTaskInv'
  <2>1. \A k \in 1 .. Len(loads') : loads'[k].tid = loads[k].tid
    BY <1>6, <1>7
  <2>2. QED
    BY <1>1, <1>5, <1>7, <2>1 DEF OwnTaskInv
<1>11. MemrayFrameIsLive'
  BY <1>1, <1>5 DEF MemrayFrameIsLive
<1>12. QED
  BY <1>8, <1>9, <1>10, <1>11 DEF ResultInv

\* What the invariant says of the load that makes a step.
LEMMA LoadOfStep ==
    ASSUME ResultInv, NEW i \in 1 .. Len(loads)
    PROVE  /\ loads[i] \in LoadCall /\ loads[i].tid \in Tids /\ loads[i].at \in RequestKinds
           /\ loads[i].tid \in {loads[j].tid : j \in 1 .. Len(loads)}
           /\ view \in ResultView /\ view.busy \subseteq Spinners \cup {"page"}
<1>1. loads \in Seq(LoadCall) /\ view \in ResultView
  BY DEF ResultInv, ResultTypeOK
<1>2. loads[i] \in LoadCall
  BY <1>1, ElementOfSeq
<1>3. loads[i].tid \in Tids /\ loads[i].at \in RequestKinds
  BY <1>2 DEF LoadCall
<1>4. view.busy \subseteq Spinners \cup {"page"}
  BY <1>1 DEF ResultView
<1>5. QED BY <1>1, <1>2, <1>3, <1>4

\* The task arrives.
LEMMA DetailArrivesKeeps ==
    ASSUME ResultInv, NEW i \in 1 .. Len(loads), DetailArrives(i), UNCHANGED world
    PROVE  ResultInv'
<1> DEFINE l == loads[i]
           k == [l EXCEPT !.seen = NoRow]
           task == [tid |-> l.tid, stage |-> l.seen.stage]
           g == [[view.shown EXCEPT !["suggestions"] = Suggested(l.tid, l.seen)]
                    EXCEPT !["files"] = IF l.files = {} THEN "" ELSE l.tid]
           v == [view EXCEPT !.task = task,
                             !.shown["suggestions"] = Suggested(l.tid, l.seen),
                             !.shown["files"] = IF l.files = {} THEN "" ELSE l.tid]
<1>1. ResultTypeOK /\ MemrayFrameIsLive /\ SpinnersInv /\ OwnTaskInv
  BY DEF ResultInv
<1>2. /\ l \in LoadCall /\ l.tid \in Tids /\ l.tid \in {loads[j].tid : j \in 1 .. Len(loads)}
      /\ view \in ResultView /\ view.busy \subseteq Spinners \cup {"page"}
  BY LoadOfStep
<1>3. /\ l.at = "answer" /\ Proceed(i, k, "answer", v)
      /\ rtid' \in {rtid, ""} /\ live' \in {live, live \ {urlRef}}
      /\ rtid' # "" => live' = live
      /\ (ticker' = ticker /\ rtid' = rtid) \/ ticker' = FALSE
      /\ UNCHANGED <<row, trigger, urlRef, mixed>>
  BY DEF DetailArrives
<1>4. task \in ShownTask /\ task.tid = l.tid
  BY <1>2 DEF ShownTask, LoadCall, ResultRow
<1>5. g \in [Slots -> Tids \cup {""}] /\ \A s \in Slots : g[s] \in {"", l.tid, view.shown[s]}
  <2> DEFINE a == Suggested(l.tid, l.seen)
             b == IF l.files = {} THEN "" ELSE l.tid
             h == [view.shown EXCEPT !["suggestions"] = a]
  <2>1. a \in {"", l.tid} /\ b \in {"", l.tid}
    BY DEF Suggested
  <2> HIDE DEF a, b
  <2>2. view.shown \in [Slots -> Tids \cup {""}]
    BY <1>2 DEF ResultView
  <2>3. h \in [Slots -> Tids \cup {""}] /\ \A s \in Slots : h[s] \in {a, view.shown[s]}
    BY <1>2, <2>1, <2>2, SlotSet
  <2> HIDE DEF h
  <2>4. /\ [h EXCEPT !["files"] = b] \in [Slots -> Tids \cup {""}]
        /\ \A s \in Slots : [h EXCEPT !["files"] = b][s] \in {b, h[s]}
    BY <1>2, <2>1, <2>3, SlotSet
  <2>5. g = [h EXCEPT !["files"] = b]
    BY DEF a, b, h
  <2>6. QED
    BY <2>1, <2>3, <2>4, <2>5
<1>6. v = [view EXCEPT !.task = task, !.shown = g]
  BY <1>2, ZenonT(60) DEF ResultView
<1> HIDE DEF task, g
<1>7. /\ v \in ResultView /\ v.task = task /\ v.shown = g /\ v.busy = view.busy
      /\ v.frame = view.frame
  BY <1>2, <1>4, <1>5, <1>6, ZenonT(60) DEF ResultView
<1>8. k \in LoadCall /\ k.tid = l.tid
  BY <1>2 DEF LoadCall, NoRow, ResultRow, Stages
<1>9. l.at \notin v.busy /\ "answer" \in RequestKinds
  BY <1>2, <1>3, <1>7 DEF Spinners, RequestKinds
<1> HIDE DEF v, k
<1>10. /\ view' \in ResultView /\ loads' \in Seq(LoadCall) /\ SpinnersInv'
       /\ rtid # "" => /\ view'.task = v.task /\ view'.shown = v.shown
                       /\ view'.frame = v.frame
       /\ \A n \in 1 .. Len(loads') : \E j \in 1 .. Len(loads) : loads'[n].tid = loads[j].tid
  BY <1>1, <1>3, <1>7, <1>8, <1>9, ProceedKeeps
<1>11. OwnTaskInv'
  BY <1>1, <1>2, <1>3, <1>4, <1>5, <1>7, <1>10, SameTask
<1>12. MemrayFrameIsLive'
  BY <1>1, <1>3, <1>7, <1>10 DEF MemrayFrameIsLive
<1>13. ResultTypeOK'
  <2>1. /\ world' \in Worlds /\ row' \in [Tids -> ResultRow] /\ trigger' \in Tids \cup {""}
        /\ urlRef' \in 0 .. 3 /\ mixed' \in BOOLEAN /\ rtid' \in Tids \cup {""}
    BY <1>1, <1>3 DEF ResultTypeOK
  <2>2. live' \subseteq 1 .. 3
    BY <1>1, <1>3 DEF ResultTypeOK
  <2>3. ticker' \in BOOLEAN /\ (ticker' => rtid' # "")
    <3>1. ticker \in BOOLEAN /\ (ticker => rtid # "")
      BY <1>1 DEF ResultTypeOK
    <3>2. CASE ticker' = ticker /\ rtid' = rtid
      BY <3>1, <3>2, Zenon
    <3>3. CASE ticker' = FALSE
      BY <3>3, Zenon
    <3>4. QED BY <1>3, <3>2, <3>3, Zenon
  <2>4. QED
    BY <1>10, <2>1, <2>2, <2>3 DEF ResultTypeOK
<1>14. QED
  BY <1>10, <1>11, <1>12, <1>13 DEF ResultInv

\* A later request of the chain is answered.
LEMMA RequestAnsweredKeeps ==
    ASSUME ResultInv, NEW i \in 1 .. Len(loads), RequestAnswered(i), UNCHANGED world
    PROVE  ResultInv'
<1> DEFINE l == loads[i]
           known == IF l.at = "cosfiles" THEN [l EXCEPT !.files = Storage(l.tid)] ELSE l
           v == Applied(view, l, l.at)
<1>1. ResultTypeOK /\ MemrayFrameIsLive /\ SpinnersInv /\ OwnTaskInv
  BY DEF ResultInv
<1>2. /\ l \in LoadCall /\ l.tid \in Tids /\ l.tid \in {loads[j].tid : j \in 1 .. Len(loads)}
      /\ l.at \in RequestKinds /\ view \in ResultView
  BY LoadOfStep
<1>3. /\ l.at \notin {"detail", "answer", "memray"} /\ Proceed(i, known, l.at, v)
      /\ UNCHANGED <<row, rtid, ticker, trigger, live, urlRef, mixed>>
  BY DEF RequestAnswered
<1>4. /\ v \in ResultView /\ v.task = view.task /\ v.frame = view.frame
      /\ v.busy \subseteq view.busy /\ l.at \notin v.busy
      /\ \A s \in Slots : v.shown[s] \in {"", l.tid, view.shown[s]}
  BY <1>2, <1>3, AppliedView
<1>5. known \in LoadCall /\ known.tid = l.tid
  BY <1>1, <1>2, StorageFiles DEF LoadCall
<1> HIDE DEF v, known
<1>6. /\ view' \in ResultView /\ loads' \in Seq(LoadCall) /\ SpinnersInv'
      /\ rtid # "" => /\ view'.task = v.task /\ view'.shown = v.shown
                      /\ view'.frame = v.frame
      /\ \A n \in 1 .. Len(loads') : \E j \in 1 .. Len(loads) : loads'[n].tid = loads[j].tid
  BY <1>1, <1>2, <1>3, <1>4, <1>5, ProceedKeeps
<1>7. OwnTaskInv'
  BY <1>1, <1>2, <1>3, <1>4, <1>6, SameTask
<1>8. MemrayFrameIsLive'
  BY <1>1, <1>3, <1>4, <1>6, SameFrame
<1>9. ResultTypeOK'
  BY <1>1, <1>3, <1>6 DEF ResultTypeOK
<1>10. QED
  BY <1>6, <1>7, <1>8, <1>9 DEF ResultInv

\* The Memray page arrives.
LEMMA MemrayArrivesKeeps ==
    ASSUME ResultInv, NEW i \in 1 .. Len(loads), MemrayArrives(i), UNCHANGED world
    PROVE  ResultInv'
<1> DEFINE l == loads[i]
           u == Applied(view, l, l.at)
           v == [u EXCEPT !.frame = FreshUrl]
<1>1. ResultTypeOK /\ MemrayFrameIsLive /\ SpinnersInv /\ OwnTaskInv
  BY DEF ResultInv
<1>2. /\ l \in LoadCall /\ l.tid \in Tids /\ l.tid \in {loads[j].tid : j \in 1 .. Len(loads)}
      /\ view \in ResultView
  BY LoadOfStep
<1>3. /\ l.at = "memray" /\ Proceed(i, l, l.at, v)
      /\ live' = (live \ {urlRef}) \cup {FreshUrl} /\ urlRef' = FreshUrl
      /\ UNCHANGED <<row, rtid, ticker, trigger, mixed>>
  BY DEF MemrayArrives
<1>4. FreshUrl \in 1 .. 3
  <2>1. \E n \in 1 .. 3 : n \notin live \cup {urlRef}
    <3>1. live \subseteq {urlRef}
      BY <1>1 DEF MemrayFrameIsLive
    <3>2. 1 # urlRef \/ 2 # urlRef
      OBVIOUS
    <3>3. 1 \in 1 .. 3 /\ 2 \in 1 .. 3
      OBVIOUS
    <3>4. QED BY <3>1, <3>2, <3>3
  <2>2. QED
    BY <2>1 DEF FreshUrl
<1>5. FreshUrl \in 0 .. 3 /\ FreshUrl # 0
  BY <1>4
<1>6. live' = {FreshUrl}
  BY <1>1, <1>3 DEF MemrayFrameIsLive
<1>7. l.at \in RequestKinds \ {"detail", "answer"}
  BY <1>3 DEF RequestKinds
<1>8. /\ u \in ResultView /\ u.task = view.task
      /\ u.busy \subseteq view.busy /\ l.at \notin u.busy
      /\ \A s \in Slots : u.shown[s] \in {"", l.tid, view.shown[s]}
  BY <1>2, <1>3, <1>7, AppliedView
<1> HIDE DEF u
<1>9. /\ v \in ResultView /\ v.task = u.task /\ v.busy = u.busy /\ v.shown = u.shown
      /\ v.frame = FreshUrl
  BY <1>5, <1>8 DEF ResultView
<1> HIDE DEF v
<1>10. /\ view' \in ResultView /\ loads' \in Seq(LoadCall) /\ SpinnersInv'
       /\ rtid # "" => /\ view'.task = v.task /\ view'.shown = v.shown
                       /\ view'.frame = v.frame
       /\ \A n \in 1 .. Len(loads') : \E j \in 1 .. Len(loads) : loads'[n].tid = loads[j].tid
  BY <1>1, <1>2, <1>3, <1>7, <1>8, <1>9, ProceedKeeps
<1>11. OwnTaskInv'
  BY <1>1, <1>2, <1>3, <1>8, <1>9, <1>10, SameTask
<1>12. MemrayFrameIsLive'
  BY <1>3, <1>6, <1>9, <1>10 DEF MemrayFrameIsLive
<1>13. ResultTypeOK'
  BY <1>1, <1>3, <1>4, <1>5, <1>6, <1>10 DEF ResultTypeOK
<1>14. QED
  BY <1>10, <1>11, <1>12, <1>13 DEF ResultInv

\* A request fails.
LEMMA RequestFailsKeeps ==
    ASSUME ResultInv, NEW i \in 1 .. Len(loads), RequestFails(i), UNCHANGED world
    PROVE  ResultInv'
<1> DEFINE l == loads[i]
<1>1. ResultTypeOK /\ MemrayFrameIsLive /\ SpinnersInv /\ OwnTaskInv
  BY DEF ResultInv
<1>2. /\ l \in LoadCall /\ l.tid \in Tids /\ l.tid \in {loads[j].tid : j \in 1 .. Len(loads)}
      /\ l.at \in RequestKinds /\ view \in ResultView
      /\ view.busy \subseteq Spinners \cup {"page"}
  BY LoadOfStep
<1>3. UNCHANGED <<row, rtid, ticker, trigger, live, urlRef, mixed>>
  BY DEF RequestFails
<1>4. /\ view' \in ResultView /\ loads' \in Seq(LoadCall) /\ SpinnersInv'
      /\ rtid # "" => /\ view'.task = view.task /\ view'.frame = view.frame
                      /\ \A s \in Slots : view'.shown[s] \in {"", view.shown[s]}
      /\ \A n \in 1 .. Len(loads') : \E j \in 1 .. Len(loads) : loads'[n].tid = loads[j].tid
  <2>1. CASE l.at \in {"detail", "answer"}
    <3> DEFINE w == [view EXCEPT !.bad = @ \cup {"page"}, !.busy = @ \ {"page"}]
    <3>1. loads' = RemoveAt(loads, i) /\ Show(w)
      BY <2>1 DEF RequestFails
    <3>2. /\ w \in ResultView /\ w.task = view.task /\ w.shown = view.shown
          /\ w.frame = view.frame /\ w.busy = view.busy \ {"page"}
      BY <1>2 DEF ResultView
    <3> HIDE DEF w
    <3>3. world \in Worlds /\ loads \in Seq(LoadCall)
      BY <1>1 DEF ResultTypeOK
    <3>4. /\ view' \in ResultView
          /\ rtid # "" => /\ view'.task = view.task /\ view'.shown = view.shown
                          /\ view'.frame = view.frame /\ view'.busy = view.busy \ {"page"}
      BY <1>2, <3>1, <3>2, <3>3, ShowView
    <3>5. /\ loads' \in Seq(LoadCall)
          /\ \A k \in 1 .. Len(loads') : \E j \in 1 .. Len(loads) : j # i /\ loads'[k] = loads[j]
          /\ \A j \in 1 .. Len(loads) : j # i => \E k \in 1 .. Len(loads') : loads'[k] = loads[j]
      <4> DEFINE r == RemoveAt(loads, i)
      <4>1. /\ r \in Seq(LoadCall)
            /\ \A k \in 1 .. Len(r) : \E j \in 1 .. Len(loads) : j # i /\ r[k] = loads[j]
            /\ \A j \in 1 .. Len(loads) : j # i => \E k \in 1 .. Len(r) : r[k] = loads[j]
        BY <3>3, RemoveAtElements, Zenon
      <4> HIDE DEF r
      <4>2. loads' = r
        BY <3>1 DEF r
      <4>3. QED BY <4>1, <4>2, Zenon
    <3>6. SpinnersInv'
      <4> SUFFICES ASSUME rtid # "", NEW s \in view'.busy
                   PROVE  \E k \in 1 .. Len(loads') : loads'[k].at = s
        BY <1>3 DEF SpinnersInv
      <4>1. s \in view.busy /\ s # "page" /\ s # l.at
        BY <1>2, <2>1, <3>4 DEF Spinners
      <4>2. PICK j \in 1 .. Len(loads) : loads[j].at = s
        BY <1>1, <4>1 DEF SpinnersInv
      <4>3. QED
        BY <3>5, <4>1, <4>2
    <3>7. QED
      BY <3>4, <3>5, <3>6
  <2>2. CASE l.at \notin {"detail", "answer"}
    <3> DEFINE v == Failed(view, l.at)
               after == IF l.at = "memory" THEN "evidence" ELSE l.at
    <3>1. Proceed(i, l, after, v)
      BY <2>2 DEF RequestFails
    <3>2. after \in RequestKinds
      BY <1>2 DEF RequestKinds
    <3>3. /\ v \in ResultView /\ v.task = view.task /\ v.frame = view.frame
          /\ v.busy \subseteq view.busy /\ l.at \notin v.busy
          /\ \A s \in Slots : v.shown[s] \in {"", view.shown[s]}
      BY <1>2, <2>2, FailedView
    <3> HIDE DEF v, after
    <3>4. /\ view' \in ResultView /\ loads' \in Seq(LoadCall) /\ SpinnersInv'
          /\ rtid # "" => /\ view'.task = v.task /\ view'.shown = v.shown
                          /\ view'.frame = v.frame
          /\ \A n \in 1 .. Len(loads') : \E j \in 1 .. Len(loads) : loads'[n].tid = loads[j].tid
      BY <1>1, <1>2, <1>3, <3>1, <3>2, <3>3, ProceedKeeps
    <3>5. QED BY <3>3, <3>4
  <2>3. QED BY <2>1, <2>2
<1>5. OwnTaskInv'
  BY <1>1, <1>2, <1>3, <1>4, SameTask
<1>6. MemrayFrameIsLive'
  BY <1>1, <1>3, <1>4, SameFrame
<1>7. ResultTypeOK'
  BY <1>1, <1>3, <1>4 DEF ResultTypeOK
<1>8. QED
  BY <1>4, <1>5, <1>6, <1>7 DEF ResultInv

\* The interval, the refresh button or an analysis starts a load: of the task in
\* the URL, or of the one whose analysis was triggered.
LEMMA NewLoadKeeps ==
    ASSUME ResultInv, NEW t \in Tids, t \in {rtid, trigger}, BeginLoad(t, view),
           UNCHANGED <<world, rtid, ticker, live, urlRef, mixed>>,
           row' \in [Tids -> ResultRow], trigger' \in {trigger, ""}
    PROVE  ResultInv'
<1>1. ResultTypeOK /\ MemrayFrameIsLive /\ SpinnersInv /\ OwnTaskInv
  BY DEF ResultInv
<1>2. /\ view' \in ResultView /\ loads' \in Seq(LoadCall) /\ SpinnersInv'
      /\ rtid # "" => /\ view'.task = view.task /\ view'.frame = view.frame
                      /\ \A s \in Slots : view'.shown[s] \in {"", view.shown[s]}
      /\ \A k \in 1 .. Len(loads') :
            loads'[k].tid = t \/ \E j \in 1 .. Len(loads) : loads'[k].tid = loads[j].tid
  BY <1>1, BeginLoadKeeps
<1>3. OwnTaskInv'
  <2> SUFFICES ASSUME rtid # "", ~mixed PROVE OwnTaskInv'
    BY DEF OwnTaskInv
  <2>0. t # "" /\ trigger \in {"", rtid}
    BY <1>1, TidsAssumption DEF OwnTaskInv
  <2>1. t = rtid
    BY <2>0
  <2>2. QED
    BY <1>1, <1>2, <2>1 DEF OwnTaskInv
<1>4. MemrayFrameIsLive'
  BY <1>1, <1>2, SameFrame
<1>5. ResultTypeOK'
  BY <1>1, <1>2 DEF ResultTypeOK
<1>6. QED
  BY <1>2, <1>3, <1>4, <1>5 DEF ResultInv

\* The URL names another task.
LEMMA OpenTaskKeeps ==
    ASSUME ResultInv, NEW t \in Tids, OpenTask(t), UNCHANGED world
    PROVE  ResultInv'
<1> DEFINE l == NewLoad(t)
           u == ResetOnTid(view)
           v == LoadBegins(u)
<1>1. ResultTypeOK /\ MemrayFrameIsLive /\ SpinnersInv /\ OwnTaskInv
  BY DEF ResultInv
<1>2. /\ rtid' = t /\ loads' = Append(loads, l) /\ view' = v /\ ticker' = TRUE
      /\ live' = live \ {urlRef} /\ urlRef' = 0
      /\ mixed' = (mixed \/ loads # <<>> \/ trigger # "")
      /\ UNCHANGED <<row, trigger>>
  BY DEF OpenTask
<1>3. l \in LoadCall /\ l.tid = t
  BY DEF NewLoad, LoadCall, NoRow, ResultRow, RequestKinds, Stages
<1>4. /\ v \in ResultView /\ v.task = NoTask /\ v.frame = 0 /\ v.busy = {"page"}
      /\ \A s \in Slots : v.shown[s] = ""
  <2> DEFINE b == view.bad \cap {"page"}
  <2>1. b \in SUBSET {"page", "flame", "memray"}
    OBVIOUS
  <2>2. v = LoadBegins([EmptyView EXCEPT !.bad = b])
    BY DEF ResetOnTid
  <2> HIDE DEF b, v
  <2>3. QED
    BY <2>1, <2>2, EmptyPage
<1> HIDE DEF l, u, v
<1>5. loads \in Seq(LoadCall)
  BY <1>1 DEF ResultTypeOK
<1>6. /\ loads' \in Seq(LoadCall) /\ Len(loads') = Len(loads) + 1 /\ Len(loads) \in Nat
      /\ loads'[Len(loads) + 1] = l
      /\ \A k \in 1 .. Len(loads) : loads'[k] = loads[k]
      /\ 1 .. Len(loads') = (1 .. Len(loads)) \cup {Len(loads) + 1}
  BY <1>2, <1>3, <1>5, LoadAppended, Zenon
<1>7. SpinnersInv'
  <2>1. loads' # <<>>
    BY <1>6, NotEmpty, Zenon
  <2>2. QED
    BY <1>2, <1>4, <2>1 DEF SpinnersInv
<1>8. OwnTaskInv'
  <2> SUFFICES ASSUME ~mixed' PROVE OwnTaskInv'
    BY DEF OwnTaskInv
  <2>1. loads = <<>> /\ trigger = ""
    BY <1>2
  <2>2. Len(loads) = 0
    BY <2>1
  <2>3. 1 .. Len(loads') = {1} /\ loads'[1] = l
    BY <1>6, <2>2
  <2>4. NoTask.tid = ""
    BY DEF NoTask
  <2>5. QED
    BY <1>2, <1>3, <1>4, <2>1, <2>3, <2>4 DEF OwnTaskInv
<1>9. MemrayFrameIsLive'
  BY <1>1, <1>2, <1>4 DEF MemrayFrameIsLive
<1>10. ResultTypeOK'
  <2>1. t # ""
    BY TidsAssumption
  <2>2. mixed' \in BOOLEAN
    BY <1>2
  <2>3. /\ world' \in Worlds /\ row' \in [Tids -> ResultRow] /\ trigger' \in Tids \cup {""}
    BY <1>1, <1>2 DEF ResultTypeOK
  <2>a. live' \subseteq 1 .. 3 /\ urlRef' \in 0 .. 3
    <3>1. live \subseteq 1 .. 3
      BY <1>1 DEF ResultTypeOK
    <3>2. live' \subseteq live
      BY <1>2
    <3>3. 0 \in 0 .. 3
      OBVIOUS
    <3>4. urlRef' \in 0 .. 3
      BY <1>2, <3>3, Zenon
    <3>5. QED BY <3>1, <3>2, <3>4, Zenon
  <2>4. QED
    BY <1>2, <1>4, <1>6, <2>1, <2>2, <2>3, <2>a DEF ResultTypeOK
<1>11. QED
  BY <1>7, <1>8, <1>9, <1>10 DEF ResultInv

\* The server's row of a task changes, and nothing else.
LEMMA ServerStepKeeps ==
    ASSUME ResultInv, NEW t \in Tids, ServerStep(t), UNCHANGED world
    PROVE  ResultInv'
<1>1. row \in [Tids -> ResultRow]
  BY DEF ResultInv, ResultTypeOK
<1>2. row[t] \in ResultRow
  BY <1>1
<1>3. ASSUME NEW s \in Stages PROVE [row[t] EXCEPT !.stage = s] \in ResultRow
  BY <1>2 DEF ResultRow
<1>4. [row[t] EXCEPT !.made = TRUE] \in ResultRow
  BY <1>2 DEF ResultRow
<1>5. \E r \in ResultRow : row' = [row EXCEPT ![t] = r]
  <2>1. ASSUME NEW s \in Stages, row' = [row EXCEPT ![t].stage = s]
        PROVE  \E r \in ResultRow : row' = [row EXCEPT ![t] = r]
    BY <1>1, <1>3, <2>1
  <2>2. ASSUME row' = [row EXCEPT ![t].made = TRUE]
        PROVE  \E r \in ResultRow : row' = [row EXCEPT ![t] = r]
    BY <1>1, <1>4, <2>2
  <2>3. {"failed", "analysing", "collected", "analysed", "afailed"} \subseteq Stages
    BY DEF Stages
  <2>4. QED
    BY <2>1, <2>2, <2>3 DEF ServerStep
<1>6. row' \in [Tids -> ResultRow]
  BY <1>1, <1>5
<1>7. UNCHANGED <<rtid, view, ticker, loads, trigger, live, urlRef, mixed>>
  BY DEF ServerStep
<1>8. QED
  BY <1>6, <1>7 DEF ResultInv, ResultTypeOK, MemrayFrameIsLive, SpinnersInv, OwnTaskInv

\* The server answers the trigger of an analysis.
LEMMA TriggerAnsweredKeeps ==
    ASSUME ResultInv, TriggerAnswered, UNCHANGED world
    PROVE  ResultInv'
<1>1. ResultTypeOK
  BY DEF ResultInv
<1>2. trigger \in Tids /\ row \in [Tids -> ResultRow] /\ row[trigger] \in ResultRow
  BY <1>1 DEF TriggerAnswered, ResultTypeOK
<1>3. trigger' = "" /\ UNCHANGED <<rtid, ticker, live, urlRef, mixed>>
  BY DEF TriggerAnswered
<1>4. CASE row[trigger].stage = "analysing"
  <2>1. UNCHANGED <<row, loads, view>>
    BY <1>4 DEF TriggerAnswered
  <2>2. QED
    BY <1>3, <2>1 DEF ResultInv, ResultTypeOK, MemrayFrameIsLive, SpinnersInv, OwnTaskInv
<1>5. CASE row[trigger].stage # "analysing"
  <2>1. row' = [row EXCEPT ![trigger].stage = "analysing"] /\ BeginLoad(trigger, view)
    BY <1>5 DEF TriggerAnswered
  <2>2. [row[trigger] EXCEPT !.stage = "analysing"] \in ResultRow
    BY <1>2 DEF ResultRow, Stages
  <2>3. row' \in [Tids -> ResultRow]
    BY <1>2, <2>1, <2>2
  <2>4. QED
    BY <1>2, <1>3, <2>1, <2>3, NewLoadKeeps
<1>6. QED BY <1>4, <1>5

\* Every step of the page.
LEMMA ResultNextKeeps ==
    ASSUME ResultInv, ResultNext
    PROVE  ResultInv'
<1> USE DEF ResultInv
<1>1. UNCHANGED world
  BY DEF ResultNext
<1>2. world.tids \subseteq Tids
  BY WorldsAssumption DEF ResultTypeOK
<1>3. CASE Tick
  <2>1. ticker /\ UNCHANGED <<row, rtid, trigger, live, urlRef, mixed>>
    BY <1>3 DEF Tick
  <2>2. rtid \in Tids /\ row \in [Tids -> ResultRow]
    BY <2>1 DEF ResultTypeOK
  <2>3. CASE ShouldPollTask(view.task)
    <3>1. BeginLoad(rtid, view) /\ UNCHANGED ticker
      BY <1>3, <2>3 DEF Tick
    <3>2. QED
      BY <1>1, <2>1, <2>2, <3>1, NewLoadKeeps
  <2>4. CASE ~ShouldPollTask(view.task)
    <3>1. ticker' = FALSE /\ UNCHANGED <<loads, view>>
      BY <1>3, <2>4 DEF Tick
    <3>2. QED
      BY <1>1, <2>1, <3>1 DEF ResultTypeOK, MemrayFrameIsLive, SpinnersInv, OwnTaskInv
  <2>5. QED BY <2>3, <2>4
<1>4. CASE Refresh
  <2>1. rtid # "" /\ BeginLoad(rtid, view)
        /\ UNCHANGED <<row, rtid, ticker, trigger, live, urlRef, mixed>>
    BY <1>4 DEF Refresh
  <2>2. rtid \in Tids /\ row \in [Tids -> ResultRow]
    BY <2>1 DEF ResultTypeOK
  <2>3. QED
    BY <1>1, <2>1, <2>2, NewLoadKeeps
<1>5. CASE LeavePage
  <2>1. /\ rtid' = "" /\ ticker' = FALSE /\ live' = live \ {urlRef}
        /\ UNCHANGED <<row, view, loads, trigger, urlRef, mixed>>
    BY <1>5 DEF LeavePage
  <2>2. MemrayFrameIsLive' /\ SpinnersInv' /\ OwnTaskInv'
    BY <2>1 DEF MemrayFrameIsLive, SpinnersInv, OwnTaskInv
  <2>3. live' \subseteq 1 .. 3
    <3>1. live \subseteq 1 .. 3
      BY DEF ResultTypeOK
    <3>2. QED BY <2>1, <3>1
  <2>4. ResultTypeOK'
    BY <1>1, <2>1, <2>3 DEF ResultTypeOK
  <2>5. QED BY <2>2, <2>4
<1>6. CASE RunAnalysis
  <2>1. /\ trigger' = rtid /\ UNCHANGED <<row, rtid, view, ticker, loads, live, urlRef, mixed>>
    BY <1>6 DEF RunAnalysis
  <2>2. QED
    BY <1>1, <2>1 DEF ResultTypeOK, MemrayFrameIsLive, SpinnersInv, OwnTaskInv
<1>7. ASSUME NEW k, ChooseTab(k) PROVE ResultInv'
  <2>1. /\ k \in VisibleTabKeys(view) /\ view' = [view EXCEPT !.tab = k] /\ view.task # NoTask
        /\ UNCHANGED <<row, rtid, ticker, loads, trigger, live, urlRef, mixed>>
    BY <1>7 DEF ChooseTab
  <2>2. view \in ResultView /\ world \in Worlds
    BY DEF ResultTypeOK
  <2>3. k \in Panels \cup {"info", "states", "files"}
    BY <2>1, <2>2, VisibleTabs
  <2>4. /\ view' \in ResultView /\ view'.task = view.task /\ view'.shown = view.shown
        /\ view'.busy = view.busy /\ view'.frame = view.frame
    BY <2>1, <2>2, <2>3 DEF ResultView
  <2>5. UNCHANGED <<row, rtid, ticker, loads, trigger, live, urlRef, mixed>>
    BY <2>1
  <2>6. ResultTypeOK'
    BY <1>1, <2>4, <2>5 DEF ResultTypeOK
  <2>7. MemrayFrameIsLive' /\ SpinnersInv'
    BY <2>4, <2>5 DEF MemrayFrameIsLive, SpinnersInv
  <2>8. OwnTaskInv'
    BY <2>4, <2>5 DEF OwnTaskInv
  <2>9. QED
    BY <2>6, <2>7, <2>8
<1>8. CASE LoadStep
  BY <1>1, <1>8, ServeDetailKeeps, DetailArrivesKeeps, RequestAnsweredKeeps, MemrayArrivesKeeps
     DEF LoadStep
<1>9. CASE ResultServer
  BY <1>1, <1>2, <1>9, ServerStepKeeps DEF ResultServer
<1>10. ASSUME NEW t \in world.tids, OpenTask(t) PROVE ResultInv'
  BY <1>1, <1>2, <1>10, OpenTaskKeeps
<1>11. CASE TriggerAnswered
  BY <1>1, <1>11, TriggerAnsweredKeeps
<1>12. ASSUME NEW i \in 1 .. Len(loads), RequestFails(i) PROVE ResultInv'
  BY <1>1, <1>12, RequestFailsKeeps
<1>13. QED
  BY <1>3, <1>4, <1>5, <1>6, <1>7, <1>8, <1>9, <1>10, <1>11, <1>12 DEF ResultNext

\* The page when it is opened.
LEMMA ResultInitInv == Init => ResultInv
<1> SUFFICES ASSUME Init PROVE ResultInv
  OBVIOUS
<1>1. /\ world \in Worlds /\ rtid \in {CHOOSE t \in Tids : TRUE}
      /\ row = [t \in Tids |-> IF world.page = "result" THEN world.row ELSE NoRow]
      /\ view = LoadBegins(EmptyView) /\ ticker = TRUE /\ loads = <<NewLoad(rtid)>>
      /\ trigger = "" /\ live = {} /\ urlRef = 0 /\ mixed = FALSE
  BY DEF Init, ResultInit
<1>2. rtid \in Tids /\ rtid # ""
  BY <1>1, TidsAssumption
<1>3. NoRow \in ResultRow /\ world.row \in ResultRow
  BY <1>1, WorldsAssumption DEF NoRow, ResultRow, Stages
<1>4. row \in [Tids -> ResultRow]
  BY <1>1, <1>3
<1>5. NewLoad(rtid) \in LoadCall /\ NewLoad(rtid).tid = rtid
  BY <1>2, <1>3 DEF NewLoad, LoadCall, RequestKinds
<1> DEFINE l == NewLoad(rtid)
<1>a. l \in LoadCall /\ l.tid = rtid /\ loads = <<l>>
  BY <1>1, <1>5
<1> HIDE DEF l
<1>6. loads \in Seq(LoadCall) /\ Len(loads) = 1 /\ loads[1] = l /\ loads # <<>>
  <2>1. /\ <<l>> \in Seq(LoadCall) /\ Len(<<l>>) = 1 /\ <<l>>[1] = l /\ <<l>> # <<>>
    BY <1>a
  <2>2. QED BY <1>a, <2>1
<1>7. /\ view \in ResultView /\ view.task = NoTask /\ view.frame = 0 /\ view.busy = {"page"}
      /\ \A s \in Slots : view.shown[s] = ""
  <2>1. EmptyView.bad = {}
    BY DEF EmptyView
  <2>2. [EmptyView EXCEPT !.bad = {}] = EmptyView
    BY <2>1 DEF EmptyView
  <2>3. view = LoadBegins([EmptyView EXCEPT !.bad = {}])
    BY <1>1, <2>2
  <2>4. {} \in SUBSET {"page", "flame", "memray"}
    OBVIOUS
  <2> DEFINE b == {}
             v == LoadBegins([EmptyView EXCEPT !.bad = b])
  <2> HIDE DEF b
  <2>5. /\ v \in ResultView /\ v.task = NoTask /\ v.frame = 0 /\ v.busy = {"page"}
        /\ \A s \in Slots : v.shown[s] = ""
    BY <2>4, EmptyPage DEF b
  <2>6. view = v
    BY <2>3 DEF b
  <2> HIDE DEF v
  <2>7. QED BY <2>5, <2>6
<1>8. ResultTypeOK
  <2>1. /\ live \subseteq 1 .. 3 /\ urlRef \in 0 .. 3 /\ mixed \in BOOLEAN /\ ticker \in BOOLEAN
        /\ trigger \in Tids \cup {""} /\ world \in Worlds
    <3>1. 0 \in 0 .. 3
      OBVIOUS
    <3>2. QED BY <1>1, <3>1, Zenon
  <2>2. QED
    BY <1>2, <1>4, <1>6, <1>7, <2>1 DEF ResultTypeOK
<1>9. OwnTaskInv
  <2>1. NoTask.tid = ""
    BY DEF NoTask
  <2>2. \A k \in 1 .. Len(loads) : loads[k].tid = rtid
    BY <1>a, <1>6
  <2>3. trigger = ""
    BY <1>1
  <2>4. QED
    BY <1>7, <2>1, <2>2, <2>3 DEF OwnTaskInv
<1>10. SpinnersInv /\ MemrayFrameIsLive
  <2>1. live = {}
    BY <1>1
  <2>2. QED
    BY <1>6, <1>7, <2>1 DEF SpinnersInv, MemrayFrameIsLive
<1>11. QED
  BY <1>8, <1>9, <1>10 DEF ResultInv

\* Every step of the console.
LEMMA NextResultInv == ResultInv /\ [Next]_wvars => ResultInv'
<1> SUFFICES ASSUME ResultInv, [Next]_wvars PROVE ResultInv'
  OBVIOUS
<1>1. CASE ResultNext
  BY <1>1, ResultNextKeeps
<1>2. CASE UNCHANGED rvars /\ UNCHANGED world
  <2>1. UNCHANGED <<row, rtid, view, ticker, loads, trigger, live, urlRef, mixed>>
    BY <1>2 DEF rvars
  <2>2. QED
    BY <1>2, <2>1 DEF ResultInv, ResultTypeOK, MemrayFrameIsLive, SpinnersInv, OwnTaskInv
<1>3. QED
  BY <1>1, <1>2
     DEF Next, wvars, ResultPage, CreationPages, Timeline, FlamePages, SessionOfTab, Groups,
         Lists, Settings, CreationNext, TimelineNext, FlameNext, SessionNext, GroupsNext,
         ListNext, SettingsNext

\* Of the object URLs made for Memray pages, by loads that overlap, that a new tid
\* overtakes or that outlive the page, at most one is alive, and the frame on the
\* page shows that one (TaskResult.tsx).
THEOREM FramesAreLive == Spec => []MemrayFrameIsLive
<1>1. ResultInv => MemrayFrameIsLive
  BY DEF ResultInv
<1>2. QED
  BY <1>1, ResultInitInv, NextResultInv, PTL DEF Spec

-----------------------------------------------------------------------------
(* The result page once its loads are over.                                *)

\* Where a request stands in the order of loadTask.
Place(r) == CHOOSE n \in 1 .. 12 : Requests[n] = r

\* Each request stands in one place.
LEMMA Places ==
    /\ Len(Requests) = 12
    /\ \A r \in RequestKinds : Place(r) \in 1 .. 12 /\ Requests[Place(r)] = r
    /\ \A n \in 1 .. 12 : Requests[n] \in RequestKinds /\ Place(Requests[n]) = n
<1>1. /\ Len(Requests) = 12
      /\ \A n \in 1 .. 12 : Requests[n] \in RequestKinds
  BY DEF Requests, RequestKinds
<1>2. \A r \in RequestKinds : \E n \in 1 .. 12 : Requests[n] = r
  BY DEF Requests, RequestKinds
<1>3. ASSUME NEW m \in 1 .. 12, NEW n \in 1 .. 12, Requests[m] = Requests[n] PROVE m = n
  BY <1>3 DEF Requests
<1>4. \A r \in RequestKinds : Place(r) \in 1 .. 12 /\ Requests[Place(r)] = r
  BY <1>2 DEF Place
<1>5. QED
  BY <1>1, <1>3, <1>4

\* The places that the argument compares.
LEMMA PlacesInOrder ==
    /\ Place("detail") = 1 /\ Place("answer") = 2 /\ Place("flame") = 4 /\ Place("memray") = 12
    /\ \A r \in {"top", "collapsed", "ebpf", "pprof", "memory"} : Place(r) \in 6 .. 10
<1>1. /\ Requests[1] = "detail" /\ Requests[2] = "answer" /\ Requests[4] = "flame"
      /\ Requests[6] = "top" /\ Requests[7] = "collapsed" /\ Requests[8] = "ebpf"
      /\ Requests[9] = "pprof" /\ Requests[10] = "memory" /\ Requests[12] = "memray"
  BY DEF Requests
<1>2. /\ Place("detail") = 1 /\ Place("answer") = 2 /\ Place("flame") = 4
      /\ Place("memray") = 12
  BY <1>1, Places
<1>3. /\ Place("top") = 6 /\ Place("collapsed") = 7 /\ Place("ebpf") = 8
      /\ Place("pprof") = 9 /\ Place("memory") = 10
  BY <1>1, Places
<1>4. QED
  BY <1>2, <1>3

\* What comes after the answer of the detail request is another request.
LEMMA AfterAnswer == \A r : Place("answer") < Place(r) => r # "answer"
<1> SUFFICES ASSUME NEW r, Place("answer") < Place(r), r = "answer" PROVE FALSE
  OBVIOUS
<1>1. Place(r) = 2 /\ Place("answer") = 2
  BY PlacesInOrder
<1>2. QED BY <1>1

\* The same for every later request.
LEMMA LaterThanAnswer ==
    ASSUME NEW a \in RequestKinds \ {"detail", "answer"}, NEW r, Place(a) < Place(r)
    PROVE  r # "answer"
<1>1. /\ Place("detail") = 1 /\ Place("answer") = 2
  BY PlacesInOrder
<1>2. /\ Place(a) \in 1 .. 12 /\ Requests[Place(a)] = a
      /\ Requests[1] = "detail" /\ Requests[2] = "answer"
  BY Places DEF Requests
<1>3. PICK n \in 1 .. 12 : n = Place(a)
  BY <1>2
<1>4. n # 1 /\ n # 2
  BY <1>2, <1>3
<1>5. ASSUME r = "answer" PROVE FALSE
  BY <1>1, <1>3, <1>4, <1>5
<1>6. QED BY <1>5

\* Different requests stand in different places.
LEMMA StrictlyLater ==
    ASSUME NEW a \in RequestKinds, NEW r \in RequestKinds, Place(a) <= Place(r), a # r
    PROVE  Place(a) < Place(r)
<1>1. PICK n \in 1 .. 12 : n = Place(a) /\ Requests[n] = a
  BY Places
<1>2. PICK k \in 1 .. 12 : k = Place(r) /\ Requests[k] = r
  BY Places
<1>3. n # k
  BY <1>1, <1>2
<1>4. n <= k
  BY <1>1, <1>2
<1>5. n < k
  BY <1>3, <1>4
<1>6. QED BY <1>1, <1>2, <1>5

\* The request of the Memray page is the last.
LEMMA MemrayIsLast ==
    ASSUME NEW r \in RequestKinds, Place("memray") <= Place(r)
    PROVE  r = "memray"
<1>1. PICK n \in 1 .. 12 : n = Place(r) /\ Requests[n] = r
  BY Places
<1>2. Place("memray") = 12 /\ Requests[12] = "memray"
  BY PlacesInOrder DEF Requests
<1>3. n = 12
  BY <1>1, <1>2
<1>4. QED BY <1>1, <1>2, <1>3

\* loadTask goes on to a later request and passes over none that is wanted.
LEMMA NoneSkipped ==
    ASSUME NEW l, NEW after \in RequestKinds
    PROVE  LET next == NextRequest(l, after)
           IN  /\ next \in RequestKinds \cup {"done"}
               /\ next # "done" => Place(after) < Place(next)
               /\ \A r \in RequestKinds :
                     Place(after) < Place(r) /\ Wanted(l, r) =>
                        next # "done" /\ Place(next) <= Place(r)
<1> DEFINE place == Place(after)
           rest == {n \in place + 1 .. 12 : Wanted(l, Requests[n])}
           least == Min(rest)
           next == NextRequest(l, after)
<1>1. next = IF rest = {} THEN "done" ELSE Requests[least]
  BY Places DEF NextRequest, Place
<1>2. place \in 1 .. 12
  BY Places
<1> HIDE DEF place, next
<1>3. rest \subseteq Nat /\ \A n \in rest : n \in 1 .. 12 /\ place < n
  BY <1>2
<1>4. rest # {} => least \in rest /\ \A y \in rest : least <= y
  BY <1>3, LeastMember
<1>5. ASSUME NEW r \in RequestKinds, place < Place(r), Wanted(l, r) PROVE Place(r) \in rest
  BY <1>2, <1>5, Places
<1> HIDE DEF rest, least
<1>6. next # "done" => next \in RequestKinds /\ rest # {} /\ Place(next) = least
  BY <1>1, <1>3, <1>4, Places
<1>7. next \in RequestKinds \cup {"done"} /\ (next # "done" => place < Place(next))
  BY <1>3, <1>4, <1>6
<1>a. "done" \notin RequestKinds
  BY DEF RequestKinds
<1>8. ASSUME NEW r \in RequestKinds, place < Place(r), Wanted(l, r)
      PROVE  next # "done" /\ Place(next) <= Place(r)
  <2>1. Place(r) \in rest
    BY <1>5, <1>8
  <2>2. least \in rest /\ least <= Place(r)
    BY <1>4, <2>1
  <2>3. next = Requests[least] /\ least \in 1 .. 12
    BY <1>1, <1>3, <2>1, <2>2
  <2>4. next \in RequestKinds /\ Place(next) = least
    BY <2>3, Places
  <2>5. QED BY <1>a, <2>2, <2>4
<1>9. QED
  BY <1>7, <1>8 DEF place, next

FilePanels == {"top", "collapsed", "ebpf", "pprof", "memory"}

\* The analysis of a task has made its artifacts.
Ready(r) == r.stage \in Collected /\ r.made

\* The requests whose answers the panels of the task t need.
Due(t) ==
    (Storage(t) \cap (FilePanels \cup {"memray"}))
    \cup (IF "svg" \in FlameArtifact(t) THEN {"flame"} ELSE {})

\* What the answer to the request r leaves on the page.
Delivered(v, r) ==
    CASE r = "memray" -> v.frame # 0
      [] r = "flame" -> v.shown["svg"] # ""
      [] OTHER -> v.shown[r] # ""

\* The load l will make the request r.
Owes(l, r) ==
    \/ l.at = "detail"
    \/ Place(l.at) <= Place(r) /\ (r = "flame" \/ r \in l.files)

\* Every panel is filled, or a load under way will fill it.
Promised(v, ls, due) ==
    /\ v.shown["suggestions"] # ""
    /\ \A r \in due : Delivered(v, r) \/ \E k \in 1 .. Len(ls) : Owes(ls[k], r)

\* An answer on its way that tells of an analysed task names all its files.
TellsAll(l) ==
    l.at = "answer" /\ l.seen.stage = "analysed" =>
        l.seen.made /\ Ready(row[l.tid]) /\ l.files = Storage(l.tid)

RowsInv ==
    /\ fails \in Nat
    /\ \A t \in Tids : row[t].stage = "analysed" => row[t].made
    /\ \A k \in 1 .. Len(loads) : TellsAll(loads[k])

\* As long as nothing fails, a page that shows an analysed task is complete or
\* waits for what it lacks.
PageInv ==
    rtid # "" /\ ~mixed /\ fails = 0 =>
        /\ "page" \notin view.bad
        /\ urlRef # 0 => view.frame # 0
        /\ view.task.stage = "analysed" =>
              Ready(row[rtid]) /\ Promised(view, loads, Due(rtid))

CompleteInv == RowsInv /\ PageInv

\* A load goes on after a request, or ends: the others stay, and what the load
\* still wants it will ask for.
LEMMA ProceedOwes ==
    ASSUME ResultTypeOK, NEW i \in 1 .. Len(loads), NEW l \in LoadCall,
           NEW after \in RequestKinds, NEW v \in ResultView, Proceed(i, l, after, v)
    PROVE  /\ rtid # "" => /\ view'.task = v.task /\ view'.shown = v.shown
                           /\ view'.frame = v.frame /\ view'.bad = v.bad
           /\ \A j \in 1 .. Len(loads) : j # i => \E n \in 1 .. Len(loads') : loads'[n] = loads[j]
           /\ \A r \in RequestKinds :
                 Place(after) < Place(r) /\ Wanted(l, r) /\ (r = "flame" \/ r \in l.files) =>
                    \E n \in 1 .. Len(loads') : Owes(loads'[n], r)
           /\ \A n \in 1 .. Len(loads') :
                 \/ \E j \in 1 .. Len(loads) : j # i /\ loads'[n] = loads[j]
                 \/ Place(after) < Place(loads'[n].at)
<1>1. world \in Worlds /\ view \in ResultView /\ loads \in Seq(LoadCall)
  BY DEF ResultTypeOK
<1> DEFINE next == NextRequest(l, after)
<1>2. /\ next \in RequestKinds \cup {"done"}
      /\ next # "done" => Place(after) < Place(next)
      /\ \A r \in RequestKinds :
            Place(after) < Place(r) /\ Wanted(l, r) => next # "done" /\ Place(next) <= Place(r)
  BY NoneSkipped
<1>3. CASE next = "done"
  <2> DEFINE w == [v EXCEPT !.busy = @ \ {"page"}]
             s == RemoveAt(loads, i)
  <2>1. loads' = s /\ Show(w)
    BY <1>3 DEF Proceed
  <2>2. /\ w \in ResultView /\ w.task = v.task /\ w.shown = v.shown /\ w.frame = v.frame
        /\ w.bad = v.bad
    BY DEF ResultView
  <2>3. /\ s \in Seq(LoadCall)
        /\ \A k \in 1 .. Len(s) : \E j \in 1 .. Len(loads) : j # i /\ s[k] = loads[j]
        /\ \A j \in 1 .. Len(loads) : j # i => \E k \in 1 .. Len(s) : s[k] = loads[j]
    BY <1>1, RemoveAtElements, ZenonT(60)
  <2> HIDE DEF w, s, next
  <2>4. rtid # "" => /\ view'.task = v.task /\ view'.shown = v.shown
                     /\ view'.frame = v.frame /\ view'.bad = v.bad
    BY <1>1, <2>1, <2>2, ShowView
  <2>5. QED
    BY <1>2, <1>3, <2>1, <2>3, <2>4, ZenonT(60)
<1>4. CASE next # "done"
  <2> DEFINE w == [v EXCEPT !.busy = @ \cup ({next} \cap Spinners)]
             m == [l EXCEPT !.at = next]
  <2>1. loads' = ReplaceAt(loads, i, m) /\ Show(w)
    BY <1>4 DEF Proceed
  <2>2. next \in RequestKinds
    BY <1>2, <1>4
  <2> HIDE DEF next
  <2>3. /\ w \in ResultView /\ w.task = v.task /\ w.shown = v.shown /\ w.frame = v.frame
        /\ w.bad = v.bad
    BY DEF ResultView
  <2>4. m \in LoadCall /\ m.at = next /\ m.files = l.files
    BY <2>2 DEF LoadCall
  <2> HIDE DEF w, m
  <2>5. rtid # "" => /\ view'.task = v.task /\ view'.shown = v.shown
                     /\ view'.frame = v.frame /\ view'.bad = v.bad
    BY <1>1, <2>1, <2>3, ShowView
  <2>6. /\ Len(loads') = Len(loads)
        /\ loads'[i] = m /\ \A k \in 1 .. Len(loads) : k # i => loads'[k] = loads[k]
    BY <1>1, <2>1, <2>4, LoadReplaced, Zenon
  <2>7. ASSUME NEW r \in RequestKinds, Place(after) < Place(r), Wanted(l, r),
               r = "flame" \/ r \in l.files
        PROVE  Owes(loads'[i], r)
    BY <1>2, <2>4, <2>6, <2>7 DEF Owes
  <2>8. ASSUME NEW n \in 1 .. Len(loads')
        PROVE  \/ \E j \in 1 .. Len(loads) : j # i /\ loads'[n] = loads[j]
               \/ Place(after) < Place(loads'[n].at)
    <3>1. CASE n = i
      BY <1>2, <1>4, <2>4, <2>6, <3>1
    <3>2. CASE n # i
      BY <2>6, <3>2, Zenon
    <3>3. QED BY <3>1, <3>2
  <2>9. i \in 1 .. Len(loads')
    BY <2>6
  <2>10. QED
    BY <2>5, <2>6, <2>7, <2>8, <2>9, ZenonT(60)
<1>5. QED BY <1>3, <1>4

\* What an answer leaves on the page: the request's panel is filled, no other is
\* emptied.
LEMMA AppliedFills ==
    ASSUME NEW v \in ResultView, NEW l \in LoadCall,
           NEW request \in RequestKinds \ {"detail", "answer"}
    PROVE  LET w == Applied(v, l, request)
           IN  /\ "page" \in w.bad => "page" \in v.bad
               /\ \A s \in Slots \ {"suggestions", "files"} : w.shown[s] \in {l.tid, v.shown[s]}
               /\ row[l.tid].made => w.shown["suggestions"] \in {l.tid, v.shown["suggestions"]}
               /\ request \in FilePanels => w.shown[request] = l.tid
               /\ request = "flame" /\ "svg" \in FlameArtifact(l.tid) => w.shown["svg"] = l.tid
<1>0. /\ v.shown \in [Slots -> Tids \cup {""}] /\ l.tid \in Tids
  BY DEF ResultView, LoadCall
<1>a. {"suggestions", "files", "svg"} \subseteq Slots /\ FilePanels \subseteq Slots
  BY DEF Slots, Artifacts, FilePanels
<1>1. CASE request = "suggest"
  <2> DEFINE t == Suggested(l.tid, row[l.tid])
             g == [v.shown EXCEPT !["suggestions"] = t]
  <2>1. row[l.tid].made => t = l.tid
    BY DEF Suggested
  <2>2. Applied(v, l, request) = [v EXCEPT !.shown = g]
    BY <1>1 DEF Applied, ResultView
  <2> HIDE DEF t
  <2>3. g["suggestions"] = t /\ \A s \in Slots \ {"suggestions"} : g[s] = v.shown[s]
    BY <1>0, <1>a
  <2> HIDE DEF g
  <2>4. [v EXCEPT !.shown = g].shown = g /\ [v EXCEPT !.shown = g].bad = v.bad
    BY DEF ResultView
  <2>5. request \notin FilePanels /\ request # "flame"
    BY <1>1 DEF FilePanels
  <2>6. QED
    BY <2>1, <2>2, <2>3, <2>4, <2>5
<1>2. CASE request = "flame"
  <2> DEFINE g == [s \in Slots |-> IF s \in FlameArtifact(l.tid) THEN l.tid ELSE v.shown[s]]
             b == IF FlameArtifact(l.tid) = {} THEN v.bad \cup {"flame"} ELSE v.bad \ {"flame"}
  <2>1. Applied(v, l, request) = [v EXCEPT !.shown = g, !.bad = b]
    BY <1>2 DEF Applied, ResultView
  <2>2. /\ \A s \in Slots : g[s] \in {l.tid, v.shown[s]}
        /\ "svg" \in FlameArtifact(l.tid) => g["svg"] = l.tid
        /\ "page" \in b => "page" \in v.bad
    BY <1>a
  <2> HIDE DEF g, b
  <2>3. [v EXCEPT !.shown = g, !.bad = b].shown = g /\ [v EXCEPT !.shown = g, !.bad = b].bad = b
    BY DEF ResultView
  <2>4. request \notin FilePanels
    BY <1>2 DEF FilePanels
  <2>5. QED
    BY <1>a, <2>1, <2>2, <2>3, <2>4
<1>3. CASE request = "cosfiles"
  <2> DEFINE t == IF Storage(l.tid) = {} THEN "" ELSE l.tid
             g == [v.shown EXCEPT !["files"] = t]
  <2>1. Applied(v, l, request) = [v EXCEPT !.shown = g]
    BY <1>3 DEF Applied, ResultView
  <2> HIDE DEF t
  <2>2. \A s \in Slots \ {"files"} : g[s] = v.shown[s]
    BY <1>0
  <2> HIDE DEF g
  <2>3. [v EXCEPT !.shown = g].shown = g /\ [v EXCEPT !.shown = g].bad = v.bad
    BY DEF ResultView
  <2>4. request \notin FilePanels /\ request # "flame"
    BY <1>3 DEF FilePanels
  <2>5. QED
    BY <1>a, <2>1, <2>2, <2>3, <2>4
<1>4. CASE request \notin {"suggest", "flame", "cosfiles"}
  <2> DEFINE g == [v.shown EXCEPT ![request] = l.tid]
             b == v.busy \ {request}
  <2>1. Applied(v, l, request) = [v EXCEPT !.shown = g, !.busy = b]
    BY <1>4 DEF Applied, ResultView
  <2>2. /\ \A s \in Slots : g[s] \in {l.tid, v.shown[s]}
        /\ request \in Slots => g[request] = l.tid
    BY <1>0
  <2> HIDE DEF g, b
  <2>3. /\ [v EXCEPT !.shown = g, !.busy = b].shown = g
        /\ [v EXCEPT !.shown = g, !.busy = b].bad = v.bad
    BY DEF ResultView
  <2>4. QED
    BY <1>4, <1>a, <2>1, <2>2, <2>3
<1>5. QED BY <1>1, <1>2, <1>3, <1>4

\* The files of an analysed task stay what they are.
LEMMA FilesStay ==
    ASSUME UNCHANGED world, NEW t, Ready(row[t]), Ready(row[t])'
    PROVE  Storage(t)' = Storage(t) /\ Due(t)' = Due(t)
<1>1. Storage(t)' = Storage(t)
  BY DEF Ready, Storage
<1>2. QED
  BY <1>1 DEF Due, FlameArtifact

\* A step that takes no task back and brings no answer.
LEMMA RowsKept ==
    ASSUME ResultTypeOK, RowsInv, UNCHANGED world, fails' \in Nat,
           \A t \in Tids : /\ Ready(row[t]) => Ready(row'[t])
                           /\ row'[t].stage = "analysed" => row'[t].made,
           \A n \in 1 .. Len(loads') : \/ \E j \in 1 .. Len(loads) : loads'[n] = loads[j]
                                       \/ loads'[n].at # "answer"
    PROVE  RowsInv'
<1> SUFFICES ASSUME NEW n \in 1 .. Len(loads') PROVE TellsAll(loads[n])'
  BY DEF RowsInv
<1>1. CASE loads'[n].at # "answer"
  BY <1>1 DEF TellsAll
<1>2. ASSUME NEW j \in 1 .. Len(loads), loads'[n] = loads[j] PROVE TellsAll(loads[n])'
  <2> DEFINE l == loads[j]
  <2>1. loads \in Seq(LoadCall)
    BY DEF ResultTypeOK
  <2>2. l \in LoadCall
    BY <2>1, ElementOfSeq
  <2>3. l.tid \in Tids
    BY <2>2 DEF LoadCall
  <2>4. TellsAll(l) /\ loads'[n] = l
    BY <1>2 DEF RowsInv
  <2> HIDE DEF l
  <2>5. CASE l.at = "answer" /\ l.seen.stage = "analysed"
    <3>1. l.seen.made /\ Ready(row[l.tid]) /\ l.files = Storage(l.tid)
      BY <2>4, <2>5 DEF TellsAll
    <3>2. PICK t \in Tids : t = l.tid
      BY <2>3
    <3>3. Ready(row[t]) /\ Ready(row'[t])
      BY <3>1, <3>2
    <3>4. Storage(t)' = Storage(t)
      BY <3>3, FilesStay
    <3>5. loads'[n].seen.made /\ Ready(row'[loads'[n].tid])
      BY <2>4, <3>1, <3>2, <3>3
    <3>6. loads'[n].tid = t /\ loads'[n].files = Storage(t)
      BY <2>4, <3>1, <3>2
    <3>7. Storage(loads[n].tid)' = Storage(t)'
      BY <3>6 DEF Storage
    <3>8. QED
      BY <3>4, <3>5, <3>6, <3>7 DEF TellsAll
  <2>6. CASE ~(l.at = "answer" /\ l.seen.stage = "analysed")
    BY <2>4, <2>6 DEF TellsAll
  <2>7. QED BY <2>5, <2>6
<1>3. QED BY <1>1, <1>2

\* A step that shows nothing new, but may begin a load.
LEMMA PageKept ==
    ASSUME ResultTypeOK, PageInv, UNCHANGED <<world, rtid, mixed, urlRef>>,
           fails' = 0 => fails = 0,
           \A t \in Tids : Ready(row[t]) => Ready(row'[t]),
           rtid # "" => /\ view'.task = view.task /\ view'.frame = view.frame
                        /\ view'.shown["suggestions"] = view.shown["suggestions"]
                        /\ "page" \in view'.bad => "page" \in view.bad,
           \/ UNCHANGED loads /\ view'.shown = view.shown
           \/ \E n \in 1 .. Len(loads') : loads'[n].at = "detail"
    PROVE  PageInv'
<1> SUFFICES ASSUME rtid # "", ~mixed, fails' = 0 PROVE PageInv'
  BY DEF PageInv
<1>1. /\ "page" \notin view.bad /\ (urlRef # 0 => view.frame # 0)
      /\ view.task.stage = "analysed" => Ready(row[rtid]) /\ Promised(view, loads, Due(rtid))
  BY DEF PageInv
<1>2. ASSUME view'.task.stage = "analysed"
      PROVE  Ready(row'[rtid]) /\ Promised(view', loads', Due(rtid)')
  <2>1. Ready(row[rtid]) /\ Promised(view, loads, Due(rtid))
    BY <1>1, <1>2
  <2>2. PICK t \in Tids : t = rtid
    BY DEF ResultTypeOK
  <2>3. Ready(row[t]) /\ Ready(row'[t])
    BY <2>1, <2>2
  <2>4. Due(t)' = Due(t)
    BY <2>3, FilesStay
  <2>5. Due(rtid)' = Due(rtid)
    <3>1. Due(rtid) = Due(t) /\ Due(rtid)' = Due(t)'
      BY <2>2 DEF Due, Storage, FlameArtifact
    <3>2. QED BY <2>4, <3>1
  <2>6. PICK due : due = Due(rtid)
    OBVIOUS
  <2>7. Promised(view', loads', due)
    <3>1. Promised(view, loads, due)
      BY <2>1, <2>6
    <3>2. CASE UNCHANGED loads /\ view'.shown = view.shown
      BY <3>1, <3>2 DEF Promised, Delivered
    <3>3. CASE \E n \in 1 .. Len(loads') : loads'[n].at = "detail"
      BY <3>1, <3>3 DEF Promised, Owes
    <3>4. QED BY <3>2, <3>3
  <2>8. QED
    BY <2>2, <2>3, <2>5, <2>6, <2>7
<1>3. QED
  BY <1>1, <1>2 DEF PageInv

\* A load begins.
LEMMA LoadBeginsComplete ==
    ASSUME ResultInv, CompleteInv, NEW t \in Tids, BeginLoad(t, view),
           UNCHANGED <<world, rtid, mixed, urlRef, fails>>,
           \A u \in Tids : /\ Ready(row[u]) => Ready(row'[u])
                           /\ row'[u].stage = "analysed" => row'[u].made
    PROVE  CompleteInv'
<1>1. ResultTypeOK /\ RowsInv /\ PageInv
  BY DEF ResultInv, CompleteInv
<1>2. world \in Worlds /\ view \in ResultView /\ loads \in Seq(LoadCall)
  BY <1>1 DEF ResultTypeOK
<1> DEFINE v == LoadBegins(view)
           l == NewLoad(t)
<1>3. loads' = Append(loads, l) /\ Show(v)
  BY DEF BeginLoad
<1>4. l \in LoadCall /\ l.at = "detail"
  BY DEF NewLoad, LoadCall, NoRow, ResultRow, RequestKinds, Stages
<1>5. /\ v \in ResultView /\ v.task = view.task /\ v.frame = view.frame
      /\ v.shown["suggestions"] = view.shown["suggestions"]
      /\ "page" \notin v.bad
  <2> DEFINE S == {"ebpf", "pprof", "memory", "evidence"}
             w == Without(view, S)
  <2>1. "suggestions" \in Slots /\ "suggestions" \notin S
    BY DEF Slots
  <2> HIDE DEF S
  <2>2. /\ w \in ResultView /\ w.task = view.task /\ w.frame = view.frame
        /\ w.shown["suggestions"] = view.shown["suggestions"]
    BY <1>2, <2>1 DEF Without, ResultView
  <2>3. v = [w EXCEPT !.busy = @ \ {"ebpf", "pprof"}, !.bad = @ \ {"page", "memray"}]
    BY DEF LoadBegins, S
  <2> HIDE DEF w, v
  <2>4. QED
    BY <2>2, <2>3 DEF ResultView
<1> HIDE DEF v, l
<1>6. rtid # "" => /\ view'.task = v.task /\ view'.shown = v.shown
                   /\ view'.frame = v.frame /\ view'.bad = v.bad
  BY <1>2, <1>3, <1>5, ShowView
<1>7. /\ loads'[Len(loads) + 1] = l
      /\ \A k \in 1 .. Len(loads) : loads'[k] = loads[k]
      /\ 1 .. Len(loads') = (1 .. Len(loads)) \cup {Len(loads) + 1}
  BY <1>2, <1>3, <1>4, LoadAppended, Zenon
<1>8. \A n \in 1 .. Len(loads') : \/ \E j \in 1 .. Len(loads) : loads'[n] = loads[j]
                                  \/ loads'[n].at # "answer"
  BY <1>4, <1>7
<1>9. \E n \in 1 .. Len(loads') : loads'[n].at = "detail"
  BY <1>4, <1>7
<1>10. RowsInv'
  <2>1. fails' \in Nat
    BY <1>1 DEF RowsInv
  <2>2. QED BY <1>1, <1>8, <2>1, RowsKept
<1>11. PageInv'
  BY <1>1, <1>5, <1>6, <1>9, PageKept
<1>12. QED
  BY <1>10, <1>11 DEF CompleteInv

\* The requests that the panels need, in the files of the task.
LEMMA DueRequests ==
    ASSUME NEW t
    PROVE  \A r \in Due(t) : /\ r \in FilePanels \cup {"memray", "flame"} /\ r \in RequestKinds
                             /\ 2 < Place(r) /\ Place("answer") <= Place(r)
                             /\ r = "flame" \/ r \in Storage(t)
                             /\ r = "flame" => "svg" \in FlameArtifact(t)
<1> SUFFICES ASSUME NEW r \in Due(t)
             PROVE  /\ r \in FilePanels \cup {"memray", "flame"} /\ r \in RequestKinds
                    /\ 2 < Place(r) /\ Place("answer") <= Place(r)
                    /\ r = "flame" \/ r \in Storage(t)
                    /\ r = "flame" => "svg" \in FlameArtifact(t)
  OBVIOUS
<1>1. r \in FilePanels \cup {"memray", "flame"} /\ (r = "flame" \/ r \in Storage(t))
  BY DEF Due
<1>2. r = "flame" => "svg" \in FlameArtifact(t)
  BY DEF Due, FilePanels
<1>3. r \in RequestKinds
  BY <1>1 DEF FilePanels, RequestKinds
<1>4. 2 < Place(r) /\ Place("answer") <= Place(r)
  BY <1>1, PlacesInOrder DEF FilePanels
<1>5. QED BY <1>1, <1>2, <1>3, <1>4

\* What the load in the URL's name knows of its task.
LEMMA OwnLoad ==
    ASSUME ResultInv, rtid # "", ~mixed, NEW i \in 1 .. Len(loads)
    PROVE  loads[i].tid = rtid /\ rtid \in Tids
BY DEF ResultInv, ResultTypeOK, OwnTaskInv

\* The detail request reaches the server.
LEMMA ServeDetailComplete ==
    ASSUME ResultInv, CompleteInv, NEW i \in 1 .. Len(loads), ServeDetail(i), UNCHANGED world
    PROVE  CompleteInv'
<1> DEFINE l == loads[i]
           m == [l EXCEPT !.at = "answer", !.seen = row[l.tid], !.files = DetailFiles(l.tid)]
<1>1. ResultTypeOK /\ RowsInv /\ PageInv
  BY DEF ResultInv, CompleteInv
<1>2. l \in LoadCall /\ l.tid \in Tids
  BY LoadOfStep
<1>3. loads \in Seq(LoadCall)
  BY <1>1 DEF ResultTypeOK
<1>4. l.at = "detail" /\ loads' = [loads EXCEPT ![i] = m]
      /\ UNCHANGED <<row, rtid, view, urlRef, fails, mixed>>
  BY <1>3 DEF ServeDetail
<1>5. m.tid = l.tid /\ m.at = "answer" /\ m.seen = row[l.tid] /\ m.files = DetailFiles(l.tid)
  BY <1>2 DEF LoadCall
<1> HIDE DEF m
<1>6. /\ Len(loads') = Len(loads) /\ loads'[i] = m
      /\ \A k \in 1 .. Len(loads) : k # i => loads'[k] = loads[k]
  BY <1>3, <1>4
<1>7. ASSUME NEW k \in 1 .. Len(loads') PROVE TellsAll(loads[k])'
  <2>1. CASE k # i
    BY <1>1, <1>4, <1>6, <2>1 DEF RowsInv, TellsAll, Storage
  <2>2. CASE k = i
    <3>1. loads'[k] = m /\ row' = row /\ world' = world
      BY <1>4, <1>6, <2>2
    <3>2. row[l.tid].stage = "analysed" =>
             /\ row[l.tid].made /\ Ready(row[l.tid])
             /\ DetailFiles(l.tid) = Storage(l.tid)
      BY <1>1, <1>2 DEF RowsInv, Ready, Collected, DetailFiles
    <3>3. TellsAll(m)
      BY <1>5, <3>2 DEF TellsAll
    <3>4. QED
      BY <3>1, <3>3 DEF TellsAll, Storage
  <2>3. QED BY <2>1, <2>2
<1>8. RowsInv'
  BY <1>1, <1>4, <1>7 DEF RowsInv
<1>9. PageInv'
  <2> SUFFICES ASSUME rtid # "", ~mixed, fails = 0, view.task.stage = "analysed"
               PROVE  Promised(view', loads', Due(rtid)')
    BY <1>1, <1>4 DEF PageInv
  <2>1. Ready(row[rtid]) /\ Promised(view, loads, Due(rtid))
    BY <1>1 DEF PageInv
  <2>2. Due(rtid)' = Due(rtid) /\ view' = view
    BY <1>4 DEF Due, Storage, FlameArtifact
  <2>3. l.tid = rtid
    BY OwnLoad
  <2>4. m.files = Storage(rtid)
    BY <1>5, <2>1, <2>3 DEF Ready, DetailFiles
  <2>5. ASSUME NEW r \in Due(rtid) PROVE Owes(m, r)
    <3>1. Place("answer") <= Place(r) /\ (r = "flame" \/ r \in Storage(rtid))
      BY DueRequests
    <3>2. QED
      BY <1>5, <2>4, <3>1, Zenon DEF Owes
  <2>6. i \in 1 .. Len(loads')
    BY <1>6
  <2>7. QED
    BY <1>6, <2>1, <2>2, <2>5, <2>6 DEF Promised
<1>10. QED
  BY <1>8, <1>9 DEF CompleteInv

\* Loads other than the one that makes a step are still under way after it.
LEMMA OthersOwe ==
    ASSUME NEW i \in 1 .. Len(loads), NEW v, NEW due, Promised(view, loads, due),
           \A j \in 1 .. Len(loads) : j # i => \E n \in 1 .. Len(loads') : loads'[n] = loads[j],
           v.shown["suggestions"] # "",
           \A r \in due : Delivered(view, r) => Delivered(v, r),
           \A r \in due : Owes(loads[i], r) =>
              Delivered(v, r) \/ \E n \in 1 .. Len(loads') : Owes(loads'[n], r)
    PROVE  Promised(v, loads', due)
<1> SUFFICES ASSUME NEW r \in due
             PROVE  Delivered(v, r) \/ \E n \in 1 .. Len(loads') : Owes(loads'[n], r)
  BY DEF Promised
<1>1. CASE Delivered(view, r)
  BY <1>1
<1>2. ASSUME NEW j \in 1 .. Len(loads), Owes(loads[j], r)
      PROVE  Delivered(v, r) \/ \E n \in 1 .. Len(loads') : Owes(loads'[n], r)
  <2>1. CASE j = i
    BY <1>2, <2>1
  <2>2. CASE j # i
    <3>1. PICK n \in 1 .. Len(loads') : loads'[n] = loads[j]
      BY <2>2
    <3>2. Owes(loads'[n], r)
      BY <1>2, <3>1
    <3>3. QED BY <3>2
  <2>3. QED BY <2>1, <2>2
<1>3. QED
  BY <1>1, <1>2 DEF Promised

\* The task arrives: what its panels need and the page has not is asked for.
LEMMA DetailArrivesComplete ==
    ASSUME ResultInv, CompleteInv, NEW i \in 1 .. Len(loads), DetailArrives(i), UNCHANGED world
    PROVE  CompleteInv'
<1> DEFINE l == loads[i]
           k == [l EXCEPT !.seen = NoRow]
           a == Suggested(l.tid, l.seen)
           b == IF l.files = {} THEN "" ELSE l.tid
           task == [tid |-> l.tid, stage |-> l.seen.stage]
           v == [view EXCEPT !.task = task, !.shown["suggestions"] = a, !.shown["files"] = b]
<1>1. ResultTypeOK /\ RowsInv /\ PageInv
  BY DEF ResultInv, CompleteInv
<1>2. l \in LoadCall /\ l.tid \in Tids /\ view \in ResultView
  BY LoadOfStep
<1>3. /\ l.at = "answer" /\ Proceed(i, k, "answer", v) /\ rtid' \in {rtid, ""}
      /\ UNCHANGED <<row, urlRef, fails, mixed>>
  BY DEF DetailArrives
<1>4. /\ k \in LoadCall /\ k.files = l.files
  BY <1>2 DEF LoadCall, NoRow, ResultRow, Stages
<1>5. task \in ShownTask /\ task.stage = l.seen.stage
  BY <1>2 DEF ShownTask, LoadCall, ResultRow
<1>6. a \in {"", l.tid} /\ b \in {"", l.tid}
  BY DEF Suggested
<1>a. l.seen.made => a = l.tid
  BY DEF Suggested
<1> HIDE DEF task, a, b
<1>7. /\ v \in ResultView /\ v.task = task /\ v.frame = view.frame /\ v.bad = view.bad
      /\ v.shown["suggestions"] = a
  <2> DEFINE h == [view.shown EXCEPT !["suggestions"] = a]
             g == [h EXCEPT !["files"] = b]
  <2>1. view.shown \in [Slots -> Tids \cup {""}] /\ "suggestions" \in Slots
    BY <1>2 DEF ResultView, Slots
  <2>2. h \in [Slots -> Tids \cup {""}] /\ h["suggestions"] = a
    BY <1>2, <1>6, <2>1
  <2>3. v = [view EXCEPT !.task = task, !.shown = g]
    BY <1>2, ZenonT(60) DEF ResultView
  <2> HIDE DEF h
  <2>4. g \in [Slots -> Tids \cup {""}] /\ g["suggestions"] = a
    BY <1>2, <1>6, <2>1, <2>2
  <2> HIDE DEF g, v
  <2>5. QED
    BY <1>2, <1>5, <2>3, <2>4 DEF ResultView
<1> HIDE DEF v, k
<1>8. /\ rtid # "" => /\ view'.task = v.task /\ view'.shown = v.shown
                      /\ view'.frame = v.frame /\ view'.bad = v.bad
      /\ \A r \in RequestKinds :
            Place("answer") < Place(r) /\ Wanted(k, r) /\ (r = "flame" \/ r \in k.files) =>
               \E n \in 1 .. Len(loads') : Owes(loads'[n], r)
      /\ \A n \in 1 .. Len(loads') :
            \/ \E j \in 1 .. Len(loads) : j # i /\ loads'[n] = loads[j]
            \/ Place("answer") < Place(loads'[n].at)
  <2>1. "answer" \in RequestKinds
    BY DEF RequestKinds
  <2>2. QED
    BY <1>1, <1>3, <1>4, <1>7, <2>1, ProceedOwes
<1>9. RowsInv'
  <2>1. \A n \in 1 .. Len(loads') : \/ \E j \in 1 .. Len(loads) : loads'[n] = loads[j]
                                     \/ loads'[n].at # "answer"
    BY <1>8, AfterAnswer, Zenon
  <2>2. fails' \in Nat /\ \A t \in Tids : /\ Ready(row[t]) => Ready(row'[t])
                                          /\ row'[t].stage = "analysed" => row'[t].made
    BY <1>1, <1>3 DEF RowsInv
  <2>3. QED
    BY <1>1, <2>1, <2>2, RowsKept
<1>10. PageInv'
  <2> SUFFICES ASSUME rtid' # "", ~mixed, fails = 0 PROVE PageInv'
    BY <1>3 DEF PageInv
  <2>1. rtid' = rtid /\ rtid # "" /\ l.tid = rtid /\ rtid # "" /\ rtid \in Tids
    BY <1>3, OwnLoad
  <2>2. "page" \notin view.bad /\ (urlRef # 0 => view.frame # 0)
    BY <1>1, <2>1 DEF PageInv
  <2>3. "page" \notin view'.bad /\ (urlRef' # 0 => view'.frame # 0)
    BY <1>3, <1>7, <1>8, <2>1, <2>2
  <2>4. ASSUME l.seen.stage = "analysed"
        PROVE  Ready(row'[rtid]) /\ Promised(view', loads', Due(rtid)')
    <3>1. l.seen.made /\ Ready(row[rtid]) /\ k.files = Storage(rtid)
      BY <1>1, <1>3, <1>4, <2>1, <2>4 DEF RowsInv, TellsAll
    <3>2. view'.shown["suggestions"] # ""
      BY <1>7, <1>8, <1>a, <2>1, <3>1
    <3>3. ASSUME NEW r \in Due(rtid)
          PROVE  Delivered(view', r) \/ \E n \in 1 .. Len(loads') : Owes(loads'[n], r)
      <4>1. /\ r \in FilePanels \cup {"memray", "flame"} /\ r \in RequestKinds
            /\ 2 < Place(r) /\ (r = "flame" \/ r \in k.files)
        BY <3>1, DueRequests
      <4>2. CASE r = "memray" /\ urlRef # 0
        BY <1>3, <2>3, <4>2 DEF Delivered
      <4>3. CASE ~(r = "memray" /\ urlRef # 0)
        <5>1. Wanted(k, r)
          BY <4>1, <4>3 DEF Wanted, FilePanels, Artifacts
        <5>2. QED
          BY <1>8, <4>1, <5>1, PlacesInOrder
      <4>4. QED BY <4>2, <4>3
    <3>4. Due(rtid)' = Due(rtid)
      BY <1>3, <2>1 DEF Due, Storage, FlameArtifact
    <3>5. QED
      BY <1>3, <3>1, <3>2, <3>3, <3>4 DEF Promised
  <2>5. view'.task.stage = l.seen.stage
    BY <1>5, <1>7, <1>8, <2>1
  <2>6. QED
    BY <2>1, <2>3, <2>4, <2>5 DEF PageInv
<1>11. QED
  BY <1>9, <1>10 DEF CompleteInv

\* A later request of the chain is answered: its panel is filled.
LEMMA RequestAnsweredComplete ==
    ASSUME ResultInv, CompleteInv, NEW i \in 1 .. Len(loads), RequestAnswered(i), UNCHANGED world
    PROVE  CompleteInv'
<1> DEFINE l == loads[i]
           known == IF l.at = "cosfiles" THEN [l EXCEPT !.files = Storage(l.tid)] ELSE l
           v == Applied(view, l, l.at)
<1>1. ResultTypeOK /\ RowsInv /\ PageInv
  BY DEF ResultInv, CompleteInv
<1>2. l \in LoadCall /\ l.tid \in Tids /\ l.at \in RequestKinds /\ view \in ResultView
  BY LoadOfStep
<1>3. /\ l.at \notin {"detail", "answer", "memray"} /\ Proceed(i, known, l.at, v)
      /\ UNCHANGED <<row, rtid, urlRef, fails, mixed>>
  BY DEF RequestAnswered
<1>4. v \in ResultView /\ v.task = view.task /\ v.frame = view.frame
  BY <1>2, <1>3, AppliedView
<1>5. /\ "page" \in v.bad => "page" \in view.bad
      /\ \A s \in Slots \ {"suggestions", "files"} : v.shown[s] \in {l.tid, view.shown[s]}
      /\ row[l.tid].made => v.shown["suggestions"] \in {l.tid, view.shown["suggestions"]}
      /\ l.at \in FilePanels => v.shown[l.at] = l.tid
      /\ l.at = "flame" /\ "svg" \in FlameArtifact(l.tid) => v.shown["svg"] = l.tid
  BY <1>2, <1>3, AppliedFills
<1>6. /\ known \in LoadCall
      /\ known.files = IF l.at = "cosfiles" THEN Storage(l.tid) ELSE l.files
  BY <1>1, <1>2, StorageFiles DEF LoadCall
<1> HIDE DEF v, known
<1>7. /\ rtid # "" => /\ view'.task = v.task /\ view'.shown = v.shown
                      /\ view'.frame = v.frame /\ view'.bad = v.bad
      /\ \A j \in 1 .. Len(loads) : j # i => \E n \in 1 .. Len(loads') : loads'[n] = loads[j]
      /\ \A r \in RequestKinds :
            Place(l.at) < Place(r) /\ Wanted(known, r) /\ (r = "flame" \/ r \in known.files) =>
               \E n \in 1 .. Len(loads') : Owes(loads'[n], r)
      /\ \A n \in 1 .. Len(loads') :
            \/ \E j \in 1 .. Len(loads) : j # i /\ loads'[n] = loads[j]
            \/ Place(l.at) < Place(loads'[n].at)
  BY <1>1, <1>2, <1>3, <1>4, <1>6, ProceedOwes
<1>8. RowsInv'
  <2>1. \A n \in 1 .. Len(loads') : \/ \E j \in 1 .. Len(loads) : loads'[n] = loads[j]
                                     \/ loads'[n].at # "answer"
    <3>1. \A r : Place(l.at) < Place(r) => r # "answer"
      BY <1>2, <1>3, LaterThanAnswer
    <3>2. QED BY <1>7, <3>1, Zenon
  <2>2. fails' \in Nat /\ \A t \in Tids : /\ Ready(row[t]) => Ready(row'[t])
                                          /\ row'[t].stage = "analysed" => row'[t].made
    BY <1>1, <1>3 DEF RowsInv
  <2>3. QED
    BY <1>1, <2>1, <2>2, RowsKept
<1>9. PageInv'
  <2> SUFFICES ASSUME rtid # "", ~mixed, fails = 0 PROVE PageInv'
    BY <1>3 DEF PageInv
  <2>1. l.tid = rtid /\ rtid \in Tids
    BY OwnLoad
  <2>2. /\ "page" \notin view.bad /\ (urlRef # 0 => view.frame # 0)
        /\ view.task.stage = "analysed" => Ready(row[rtid]) /\ Promised(view, loads, Due(rtid))
    BY <1>1 DEF PageInv
  <2>3. "page" \notin view'.bad /\ (urlRef' # 0 => view'.frame # 0)
    BY <1>3, <1>4, <1>5, <1>7, <2>2
  <2>4. ASSUME view.task.stage = "analysed"
        PROVE  Ready(row'[rtid]) /\ Promised(view', loads', Due(rtid)')
    <3>1. Ready(row[rtid]) /\ Promised(view, loads, Due(rtid))
      BY <2>2, <2>4
    <3>2. Due(rtid)' = Due(rtid) /\ row' = row
      BY <1>3 DEF Due, Storage, FlameArtifact
    <3>3. view'.shown["suggestions"] # ""
      BY <1>5, <1>7, <2>1, <3>1 DEF Ready, Promised
    <3>4. ASSUME NEW r \in Due(rtid), Delivered(view, r) PROVE Delivered(view', r)
      <4>1. r \in FilePanels \cup {"memray", "flame"}
        BY DueRequests
      <4>2. "svg" \in Slots \ {"suggestions", "files"}
            /\ FilePanels \subseteq Slots \ {"suggestions", "files"}
        BY DEF Slots, Artifacts, FilePanels
      <4>3. CASE r = "memray"
        BY <1>4, <1>7, <3>4, <4>3 DEF Delivered
      <4>4. CASE r = "flame"
        BY <1>5, <1>7, <2>1, <3>4, <4>2, <4>4 DEF Delivered
      <4>5. CASE r \in FilePanels
        <5>1. r # "memray" /\ r # "flame"
          BY <4>5 DEF FilePanels
        <5>2. QED
          BY <1>5, <1>7, <2>1, <3>4, <4>2, <4>5, <5>1 DEF Delivered
      <4>6. QED BY <4>1, <4>3, <4>4, <4>5
    <3>5. ASSUME NEW r \in Due(rtid), Owes(l, r)
          PROVE  Delivered(view', r) \/ \E n \in 1 .. Len(loads') : Owes(loads'[n], r)
      <4>1. /\ r \in FilePanels \cup {"memray", "flame"} /\ r \in RequestKinds
            /\ r = "flame" \/ r \in Storage(rtid)
            /\ r = "flame" => "svg" \in FlameArtifact(rtid)
        BY DueRequests
      <4>2. Place(l.at) <= Place(r) /\ (r = "flame" \/ r \in l.files)
        BY <1>3, <3>5 DEF Owes
      <4>3. CASE r = l.at
        <5>1. r \in FilePanels \cup {"flame"}
          BY <1>3, <4>1, <4>3
        <5>2. CASE r = "flame"
          BY <1>5, <1>7, <2>1, <4>1, <4>3, <5>2 DEF Delivered
        <5>3. CASE r \in FilePanels
          <6>1. r # "memray" /\ r # "flame"
            BY <5>3 DEF FilePanels
          <6>2. QED
            BY <1>5, <1>7, <2>1, <4>3, <5>3, <6>1 DEF Delivered
        <5>4. QED BY <5>1, <5>2, <5>3
      <4>4. CASE r # l.at /\ r = "memray" /\ urlRef # 0
        BY <1>3, <2>3, <4>4 DEF Delivered
      <4>5. CASE r # l.at /\ ~(r = "memray" /\ urlRef # 0)
        <5>1. Place(l.at) < Place(r)
          BY <1>2, <4>1, <4>2, <4>5, StrictlyLater
        <5>2. r = "flame" \/ r \in known.files
          BY <1>6, <2>1, <4>1, <4>2
        <5>3. Wanted(known, r)
          BY <4>1, <4>5, <5>2 DEF Wanted, FilePanels, Artifacts
        <5>4. QED
          BY <1>7, <4>1, <5>1, <5>2, <5>3
      <4>6. QED BY <4>3, <4>4, <4>5
    <3>6. PICK w, due : w = view' /\ due = Due(rtid)
      OBVIOUS
    <3>7. Promised(w, loads', due)
      <4>1. /\ w.shown["suggestions"] # "" /\ Promised(view, loads, due)
            /\ \A r \in due : Delivered(view, r) => Delivered(w, r)
            /\ \A r \in due : Owes(loads[i], r) =>
                  Delivered(w, r) \/ \E n \in 1 .. Len(loads') : Owes(loads'[n], r)
        BY <3>1, <3>3, <3>4, <3>5, <3>6
      <4>2. QED
        BY <1>7, <4>1, OthersOwe
    <3>8. QED
      BY <3>1, <3>2, <3>6, <3>7
  <2>5. QED
    BY <1>3, <1>4, <1>7, <2>3, <2>4 DEF PageInv
<1>10. QED
  BY <1>8, <1>9 DEF CompleteInv

\* The Memray page arrives: the frame shows it, and the load ends.
LEMMA MemrayArrivesComplete ==
    ASSUME ResultInv, CompleteInv, NEW i \in 1 .. Len(loads), MemrayArrives(i), UNCHANGED world
    PROVE  CompleteInv'
<1> DEFINE l == loads[i]
           u == Applied(view, l, "memray")
           v == [u EXCEPT !.frame = FreshUrl]
<1>1. ResultTypeOK /\ RowsInv /\ PageInv /\ ResultTypeOK'
  BY MemrayArrivesKeeps DEF ResultInv, CompleteInv
<1>2. l \in LoadCall /\ l.tid \in Tids /\ view \in ResultView
  BY LoadOfStep
<1>3. /\ l.at = "memray" /\ Proceed(i, l, "memray", v) /\ urlRef' = FreshUrl
      /\ UNCHANGED <<row, rtid, fails, mixed>>
  BY DEF MemrayArrives
<1>4. FreshUrl \in 1 .. 3
  <2>1. \E n \in 1 .. 3 : n \notin live \cup {urlRef}
    <3>1. live \subseteq {urlRef}
      BY DEF ResultInv, MemrayFrameIsLive
    <3>2. 1 # urlRef \/ 2 # urlRef
      OBVIOUS
    <3>3. 1 \in 1 .. 3 /\ 2 \in 1 .. 3
      OBVIOUS
    <3>4. QED BY <3>1, <3>2, <3>3
  <2>2. QED
    BY <2>1 DEF FreshUrl
<1>5. FreshUrl \in 0 .. 3 /\ FreshUrl # 0
  BY <1>4
<1>6. "memray" \in RequestKinds \ {"detail", "answer"}
  BY DEF RequestKinds
<1>7. u \in ResultView /\ u.task = view.task
  BY <1>2, <1>6, AppliedView
<1>8. /\ "page" \in u.bad => "page" \in view.bad
      /\ \A s \in Slots \ {"suggestions", "files"} : u.shown[s] \in {l.tid, view.shown[s]}
      /\ row[l.tid].made => u.shown["suggestions"] \in {l.tid, view.shown["suggestions"]}
  BY <1>2, <1>6, AppliedFills
<1> HIDE DEF u
<1>9. /\ v \in ResultView /\ v.task = u.task /\ v.shown = u.shown /\ v.bad = u.bad
      /\ v.frame = FreshUrl
  BY <1>5, <1>7 DEF ResultView
<1> HIDE DEF v
<1>10. /\ rtid # "" => /\ view'.task = v.task /\ view'.shown = v.shown
                       /\ view'.frame = v.frame /\ view'.bad = v.bad
       /\ \A j \in 1 .. Len(loads) : j # i => \E n \in 1 .. Len(loads') : loads'[n] = loads[j]
       /\ \A n \in 1 .. Len(loads') :
             \/ \E j \in 1 .. Len(loads) : j # i /\ loads'[n] = loads[j]
             \/ Place("memray") < Place(loads'[n].at)
  BY <1>1, <1>2, <1>3, <1>6, <1>9, ProceedOwes
<1>11. RowsInv'
  <2>1. \A n \in 1 .. Len(loads') : \/ \E j \in 1 .. Len(loads) : loads'[n] = loads[j]
                                     \/ loads'[n].at # "answer"
    <3>1. \A r : Place("memray") < Place(r) => r # "answer"
      BY <1>6, LaterThanAnswer
    <3>2. QED BY <1>10, <3>1, Zenon
  <2>2. fails' \in Nat /\ \A t \in Tids : /\ Ready(row[t]) => Ready(row'[t])
                                          /\ row'[t].stage = "analysed" => row'[t].made
    BY <1>1, <1>3 DEF RowsInv
  <2>3. QED
    BY <1>1, <2>1, <2>2, RowsKept
<1>12. PageInv'
  <2> SUFFICES ASSUME rtid # "", ~mixed, fails = 0 PROVE PageInv'
    BY <1>3 DEF PageInv
  <2>1. l.tid = rtid /\ rtid \in Tids
    BY OwnLoad
  <2>2. /\ "page" \notin view.bad
        /\ view.task.stage = "analysed" => Ready(row[rtid]) /\ Promised(view, loads, Due(rtid))
    BY <1>1 DEF PageInv
  <2>3. "page" \notin view'.bad /\ view'.frame # 0
    BY <1>5, <1>8, <1>9, <1>10, <2>2
  <2>4. ASSUME view.task.stage = "analysed"
        PROVE  Ready(row'[rtid]) /\ Promised(view', loads', Due(rtid)')
    <3>1. Ready(row[rtid]) /\ Promised(view, loads, Due(rtid))
      BY <2>2, <2>4
    <3>2. Due(rtid)' = Due(rtid) /\ row' = row
      BY <1>3 DEF Due, Storage, FlameArtifact
    <3>3. view'.shown["suggestions"] # ""
      BY <1>8, <1>9, <1>10, <2>1, <3>1 DEF Ready, Promised
    <3>4. ASSUME NEW r \in Due(rtid), Delivered(view, r) PROVE Delivered(view', r)
      <4>1. r \in FilePanels \cup {"memray", "flame"}
        BY DueRequests
      <4>2. "svg" \in Slots \ {"suggestions", "files"}
            /\ FilePanels \subseteq Slots \ {"suggestions", "files"}
        BY DEF Slots, Artifacts, FilePanels
      <4>3. CASE r = "memray"
        BY <2>3, <4>3 DEF Delivered
      <4>4. CASE r = "flame"
        BY <1>8, <1>9, <1>10, <2>1, <3>4, <4>2, <4>4, ZenonT(60) DEF Delivered
      <4>5. CASE r \in FilePanels
        <5>1. r # "memray" /\ r # "flame"
          BY <4>5 DEF FilePanels
        <5>2. QED
          BY <1>8, <1>9, <1>10, <2>1, <3>4, <4>2, <4>5, <5>1, ZenonT(60) DEF Delivered
      <4>6. QED BY <4>1, <4>3, <4>4, <4>5
    <3>5. ASSUME NEW r \in Due(rtid), Owes(l, r) PROVE Delivered(view', r)
      <4>1. r \in RequestKinds /\ Place("memray") <= Place(r)
        BY <1>3, <3>5, DueRequests DEF Owes
      <4>2. r = "memray"
        BY <4>1, MemrayIsLast
      <4>3. QED
        BY <2>3, <4>2 DEF Delivered
    <3>6. PICK w, due : w = view' /\ due = Due(rtid)
      OBVIOUS
    <3>7. Promised(w, loads', due)
      <4>1. /\ w.shown["suggestions"] # "" /\ Promised(view, loads, due)
            /\ \A r \in due : Delivered(view, r) => Delivered(w, r)
            /\ \A r \in due : Owes(loads[i], r) =>
                  Delivered(w, r) \/ \E n \in 1 .. Len(loads') : Owes(loads'[n], r)
        BY <3>1, <3>3, <3>4, <3>5, <3>6
      <4>2. QED
        BY <1>10, <4>1, OthersOwe
    <3>8. QED
      BY <3>1, <3>2, <3>6, <3>7
  <2>5. QED
    BY <1>3, <1>7, <1>9, <1>10, <2>3, <2>4 DEF PageInv
<1>13. QED
  BY <1>11, <1>12 DEF CompleteInv

\* A request fails: the page promises nothing from then on.
LEMMA RequestFailsComplete ==
    ASSUME ResultInv, CompleteInv, NEW i \in 1 .. Len(loads), RequestFails(i), UNCHANGED world
    PROVE  CompleteInv'
<1> DEFINE l == loads[i]
<1>1. ResultTypeOK /\ RowsInv /\ fails \in Nat
  BY DEF ResultInv, CompleteInv, RowsInv
<1>2. l \in LoadCall /\ l.at \in RequestKinds /\ view \in ResultView
  BY LoadOfStep
<1>3. fails' = fails + 1 /\ row' = row
  BY DEF RequestFails
<1>4. fails' \in Nat /\ fails' # 0
  BY <1>1, <1>3
<1>5. \A n \in 1 .. Len(loads') : \/ \E j \in 1 .. Len(loads) : loads'[n] = loads[j]
                                  \/ loads'[n].at # "answer"
  <2>1. CASE l.at \in {"detail", "answer"}
    <3> DEFINE s == RemoveAt(loads, i)
    <3>1. loads' = s
      BY <2>1 DEF RequestFails
    <3>2. loads \in Seq(LoadCall)
      BY <1>1 DEF ResultTypeOK
    <3>3. \A k \in 1 .. Len(s) : \E j \in 1 .. Len(loads) : j # i /\ s[k] = loads[j]
      BY <3>2, RemoveAtElements, ZenonT(60)
    <3> HIDE DEF s
    <3>4. QED BY <3>1, <3>3, Zenon
  <2>2. CASE l.at \notin {"detail", "answer"}
    <3> DEFINE v == Failed(view, l.at)
               after == IF l.at = "memory" THEN "evidence" ELSE l.at
    <3>1. Proceed(i, l, after, v)
      BY <2>2 DEF RequestFails
    <3>2. after \in RequestKinds \ {"detail", "answer"}
      BY <1>2, <2>2 DEF RequestKinds
    <3>3. v \in ResultView
      BY <1>2, <2>2, FailedView
    <3> HIDE DEF v, after
    <3>4. \A n \in 1 .. Len(loads') : \/ \E j \in 1 .. Len(loads) : j # i /\ loads'[n] = loads[j]
                                      \/ Place(after) < Place(loads'[n].at)
      BY <1>1, <1>2, <3>1, <3>2, <3>3, ProceedOwes
    <3>5. \A r : Place(after) < Place(r) => r # "answer"
      BY <3>2, LaterThanAnswer
    <3>6. QED BY <3>4, <3>5, Zenon
  <2>3. QED BY <2>1, <2>2
<1>6. RowsInv'
  <2>1. \A t \in Tids : /\ Ready(row[t]) => Ready(row'[t])
                        /\ row'[t].stage = "analysed" => row'[t].made
    BY <1>1, <1>3 DEF RowsInv
  <2>2. QED
    BY <1>1, <1>4, <1>5, <2>1, RowsKept
<1>7. PageInv'
  BY <1>4 DEF PageInv
<1>8. QED
  BY <1>6, <1>7 DEF CompleteInv

\* The URL names another task: the page is empty, and its load is under way.
LEMMA OpenTaskComplete ==
    ASSUME ResultInv, CompleteInv, NEW t \in Tids, OpenTask(t), UNCHANGED world
    PROVE  CompleteInv'
<1> DEFINE l == NewLoad(t)
           v == LoadBegins(ResetOnTid(view))
<1>1. ResultTypeOK /\ RowsInv
  BY DEF ResultInv, CompleteInv
<1>2. /\ loads' = Append(loads, l) /\ view' = v /\ urlRef' = 0 /\ UNCHANGED <<row, fails>>
  BY DEF OpenTask
<1>3. l \in LoadCall /\ l.at = "detail"
  BY DEF NewLoad, LoadCall, NoRow, ResultRow, RequestKinds, Stages
<1>4. v.task = NoTask /\ "page" \notin v.bad
  <2> DEFINE b == view.bad \cap {"page"}
  <2>1. b \in SUBSET {"page", "flame", "memray"}
    OBVIOUS
  <2>2. v = LoadBegins([EmptyView EXCEPT !.bad = b])
    BY DEF ResetOnTid
  <2> HIDE DEF b, v
  <2>3. QED
    BY <2>1, <2>2, EmptyPage
<1> HIDE DEF l, v
<1>5. loads \in Seq(LoadCall)
  BY <1>1 DEF ResultTypeOK
<1>6. /\ loads'[Len(loads) + 1] = l
      /\ \A k \in 1 .. Len(loads) : loads'[k] = loads[k]
      /\ 1 .. Len(loads') = (1 .. Len(loads)) \cup {Len(loads) + 1}
  BY <1>2, <1>3, <1>5, LoadAppended, Zenon
<1>7. \A n \in 1 .. Len(loads') : \/ \E j \in 1 .. Len(loads) : loads'[n] = loads[j]
                                  \/ loads'[n].at # "answer"
  BY <1>3, <1>6
<1>8. RowsInv'
  <2>1. fails' \in Nat /\ \A s \in Tids : /\ Ready(row[s]) => Ready(row'[s])
                                          /\ row'[s].stage = "analysed" => row'[s].made
    BY <1>1, <1>2 DEF RowsInv
  <2>2. QED
    BY <1>1, <1>7, <2>1, RowsKept
<1>9. PageInv'
  <2>1. NoTask.stage # "analysed"
    BY DEF NoTask
  <2>2. QED
    BY <1>2, <1>4, <2>1 DEF PageInv
<1>10. QED
  BY <1>8, <1>9 DEF CompleteInv

\* The server works on a task: what is made stays.
LEMMA ServerStepComplete ==
    ASSUME ResultInv, CompleteInv, NEW t \in Tids, ServerStep(t), UNCHANGED world
    PROVE  CompleteInv'
<1>1. ResultTypeOK /\ RowsInv /\ PageInv /\ row \in [Tids -> ResultRow]
  BY DEF ResultInv, CompleteInv, ResultTypeOK
<1>2. UNCHANGED <<rtid, view, loads, urlRef, fails, mixed>>
  BY DEF ServerStep
<1>3. \A u \in Tids \ {t} : row'[u] = row[u]
  BY <1>1 DEF ServerStep
<1>4. row[t] \in ResultRow
  BY <1>1
<1>5. /\ Ready(row[t]) => Ready(row'[t])
      /\ row'[t].stage = "analysed" => row'[t].made
  <2>1. ASSUME NEW s, s # "analysed" \/ row[t].made, s \in Collected \/ row[t].stage \notin Collected,
               row' = [row EXCEPT ![t].stage = s]
        PROVE  /\ Ready(row[t]) => Ready(row'[t])
               /\ row'[t].stage = "analysed" => row'[t].made
    <3>1. row'[t].stage = s /\ row'[t].made = row[t].made
      BY <1>1, <1>4, <2>1 DEF ResultRow
    <3>2. QED BY <2>1, <3>1 DEF Ready
  <2>2. ASSUME row' = [row EXCEPT ![t].made = TRUE]
        PROVE  /\ Ready(row[t]) => Ready(row'[t])
               /\ row'[t].stage = "analysed" => row'[t].made
    <3>1. row'[t].stage = row[t].stage /\ row'[t].made = TRUE
      BY <1>1, <1>4, <2>2 DEF ResultRow
    <3>2. QED BY <3>1 DEF Ready
  <2>3. "collecting" \notin Collected /\ {"analysing", "analysed", "afailed"} \subseteq Collected
    BY DEF Collected
  <2>4. QED
    BY <2>1, <2>2, <2>3 DEF ServerStep
<1>6. \A u \in Tids : /\ Ready(row[u]) => Ready(row'[u])
                      /\ row'[u].stage = "analysed" => row'[u].made
  BY <1>1, <1>3, <1>5 DEF RowsInv
<1>7. fails' \in Nat
  BY <1>1, <1>2 DEF RowsInv
<1>8. RowsInv'
  BY <1>1, <1>2, <1>6, <1>7, RowsKept
<1>9. PageInv'
  BY <1>1, <1>2, <1>6, PageKept
<1>10. QED
  BY <1>8, <1>9 DEF CompleteInv

\* The server answers the trigger of an analysis.
LEMMA TriggerAnsweredComplete ==
    ASSUME ResultInv, CompleteInv, TriggerAnswered, UNCHANGED world
    PROVE  CompleteInv'
<1>1. ResultTypeOK /\ RowsInv /\ PageInv
  BY DEF ResultInv, CompleteInv
<1>2. trigger \in Tids /\ row \in [Tids -> ResultRow]
  BY <1>1 DEF TriggerAnswered, ResultTypeOK
<1>3. UNCHANGED <<rtid, urlRef, fails, mixed>>
  BY DEF TriggerAnswered
<1>4. CASE row[trigger].stage = "analysing"
  <2>1. UNCHANGED <<row, loads, view>>
    BY <1>4 DEF TriggerAnswered
  <2>2. fails' \in Nat /\ \A t \in Tids : /\ Ready(row[t]) => Ready(row'[t])
                                          /\ row'[t].stage = "analysed" => row'[t].made
    BY <1>1, <1>3, <2>1 DEF RowsInv
  <2>3. RowsInv' /\ PageInv'
    BY <1>1, <1>3, <2>1, <2>2, RowsKept, PageKept
  <2>4. QED
    BY <2>3 DEF CompleteInv
<1>5. CASE row[trigger].stage # "analysing"
  <2>1. row' = [row EXCEPT ![trigger].stage = "analysing"] /\ BeginLoad(trigger, view)
    BY <1>5 DEF TriggerAnswered
  <2>2. PICK t \in Tids : t = trigger
    BY <1>2
  <2>3. row[t] \in ResultRow /\ row' = [row EXCEPT ![t].stage = "analysing"]
    BY <1>2, <2>1, <2>2
  <2>4. row'[t].stage = "analysing" /\ row'[t].made = row[t].made
        /\ \A u \in Tids \ {t} : row'[u] = row[u]
    BY <1>2, <2>3 DEF ResultRow
  <2>5. \A u \in Tids : /\ Ready(row[u]) => Ready(row'[u])
                        /\ row'[u].stage = "analysed" => row'[u].made
    BY <1>1, <2>4 DEF RowsInv, Ready, Collected
  <2>6. QED
    BY <1>3, <2>1, <2>2, <2>5, LoadBeginsComplete
<1>6. QED BY <1>4, <1>5

\* Every step of the page.
LEMMA ResultNextComplete ==
    ASSUME ResultInv, CompleteInv, ResultNext
    PROVE  CompleteInv'
<1>1. UNCHANGED world
  BY DEF ResultNext
<1>2. ResultTypeOK /\ RowsInv /\ PageInv
  BY DEF ResultInv, CompleteInv
<1>3. world.tids \subseteq Tids
  BY <1>2, WorldsAssumption DEF ResultTypeOK
<1>4. UNCHANGED <<row, fails>> =>
         fails' \in Nat /\ \A t \in Tids : /\ Ready(row[t]) => Ready(row'[t])
                                          /\ row'[t].stage = "analysed" => row'[t].made
  BY <1>2 DEF RowsInv
<1>5. ASSUME UNCHANGED <<row, loads, rtid, urlRef, fails, mixed>>, view' = view PROVE CompleteInv'
  <2>1. RowsInv' /\ PageInv'
    BY <1>1, <1>2, <1>4, <1>5, RowsKept, PageKept
  <2>2. QED BY <2>1 DEF CompleteInv
<1>6. CASE Tick
  <2>1. ticker /\ UNCHANGED <<row, rtid, urlRef, fails, mixed>>
    BY <1>6 DEF Tick
  <2>2. rtid \in Tids
    BY <1>2, <2>1 DEF ResultTypeOK
  <2>3. CASE ShouldPollTask(view.task)
    <3>1. BeginLoad(rtid, view)
      BY <1>6, <2>3 DEF Tick
    <3>2. QED
      BY <1>1, <1>4, <2>1, <2>2, <3>1, LoadBeginsComplete
  <2>4. CASE ~ShouldPollTask(view.task)
    <3>1. UNCHANGED <<loads, view>>
      BY <1>6, <2>4 DEF Tick
    <3>2. QED BY <1>5, <2>1, <3>1
  <2>5. QED BY <2>3, <2>4
<1>7. CASE Refresh
  <2>1. rtid # "" /\ BeginLoad(rtid, view) /\ UNCHANGED <<row, rtid, urlRef, fails, mixed>>
    BY <1>7 DEF Refresh
  <2>2. rtid \in Tids
    BY <1>2, <2>1 DEF ResultTypeOK
  <2>3. QED
    BY <1>1, <1>4, <2>1, <2>2, LoadBeginsComplete
<1>8. CASE LeavePage
  <2>1. rtid' = "" /\ UNCHANGED <<row, loads, fails>>
    BY <1>8 DEF LeavePage
  <2>2. RowsInv'
    BY <1>1, <1>2, <1>4, <2>1, RowsKept
  <2>3. QED
    BY <2>1, <2>2 DEF CompleteInv, PageInv
<1>9. CASE RunAnalysis
  BY <1>5, <1>9 DEF RunAnalysis
<1>10. ASSUME NEW k, ChooseTab(k) PROVE CompleteInv'
  <2>1. view' = [view EXCEPT !.tab = k]
        /\ UNCHANGED <<row, rtid, loads, urlRef, fails, mixed>>
    BY <1>10 DEF ChooseTab
  <2>2. view \in ResultView
    BY <1>2 DEF ResultTypeOK
  <2>3. /\ view'.task = view.task /\ view'.shown = view.shown /\ view'.frame = view.frame
        /\ view'.bad = view.bad
    BY <2>1, <2>2 DEF ResultView
  <2>4. RowsInv'
    BY <1>1, <1>2, <1>4, <2>1, RowsKept
  <2>5. PageInv'
    BY <1>1, <1>2, <1>4, <2>1, <2>3, PageKept
  <2>6. QED BY <2>4, <2>5 DEF CompleteInv
<1>11. CASE LoadStep
  BY <1>1, <1>11, ServeDetailComplete, DetailArrivesComplete, RequestAnsweredComplete,
     MemrayArrivesComplete DEF LoadStep
<1>12. CASE ResultServer
  BY <1>1, <1>3, <1>12, ServerStepComplete DEF ResultServer
<1>13. ASSUME NEW t \in world.tids, OpenTask(t) PROVE CompleteInv'
  BY <1>1, <1>3, <1>13, OpenTaskComplete
<1>14. CASE TriggerAnswered
  BY <1>1, <1>14, TriggerAnsweredComplete
<1>15. ASSUME NEW i \in 1 .. Len(loads), RequestFails(i) PROVE CompleteInv'
  BY <1>1, <1>15, RequestFailsComplete
<1>16. QED
  BY <1>6, <1>7, <1>8, <1>9, <1>10, <1>11, <1>12, <1>13, <1>14, <1>15 DEF ResultNext

\* The page when it is opened.
LEMMA CompleteInitInv == Init => CompleteInv
<1> SUFFICES ASSUME Init PROVE CompleteInv
  OBVIOUS
<1>1. /\ world \in Worlds /\ fails = 0 /\ urlRef = 0 /\ loads = <<NewLoad(rtid)>>
      /\ row = [t \in Tids |-> IF world.page = "result" THEN world.row ELSE NoRow]
      /\ view = LoadBegins(EmptyView)
  BY DEF Init, ResultInit
<1>2. \A t \in Tids : row[t].stage = "analysed" => row[t].made
  <2>1. world.row.stage = "analysed" => world.row.made
    BY <1>1, WorldsAssumption
  <2>2. NoRow.stage # "analysed"
    BY DEF NoRow
  <2>3. QED BY <1>1, <2>1, <2>2
<1>3. Len(loads) = 1 /\ loads[1].at = "detail"
  BY <1>1 DEF NewLoad
<1>4. \A k \in 1 .. Len(loads) : TellsAll(loads[k])
  <2>1. \A k \in 1 .. Len(loads) : k = 1
    BY <1>3
  <2>2. QED
    BY <1>3, <2>1 DEF TellsAll
<1>5. view.task = NoTask /\ "page" \notin view.bad
  <2> DEFINE b == {}
             v == LoadBegins([EmptyView EXCEPT !.bad = b])
  <2>1. view = v
    <3>1. EmptyView.bad = {}
      BY DEF EmptyView
    <3>2. [EmptyView EXCEPT !.bad = {}] = EmptyView
      BY <3>1 DEF EmptyView
    <3>3. QED BY <1>1, <3>2
  <2>2. b \in SUBSET {"page", "flame", "memray"}
    OBVIOUS
  <2> HIDE DEF b
  <2>3. v.task = NoTask /\ "page" \notin v.bad
    BY <2>2, EmptyPage
  <2> HIDE DEF v
  <2>4. QED BY <2>1, <2>3
<1>6. RowsInv
  BY <1>1, <1>2, <1>4 DEF RowsInv
<1>7. PageInv
  <2>1. NoTask.stage # "analysed"
    BY DEF NoTask
  <2>2. QED
    BY <1>1, <1>5, <2>1 DEF PageInv
<1>8. QED
  BY <1>6, <1>7 DEF CompleteInv

\* Every step of the console.
LEMMA NextCompleteInv == ResultInv /\ CompleteInv /\ [Next]_wvars => CompleteInv'
<1> SUFFICES ASSUME ResultInv, CompleteInv, [Next]_wvars PROVE CompleteInv'
  OBVIOUS
<1>1. CASE ResultNext
  BY <1>1, ResultNextComplete
<1>2. CASE UNCHANGED rvars /\ UNCHANGED world
  <2>1. UNCHANGED <<world, row, rtid, view, loads, urlRef, fails, mixed>>
    BY <1>2 DEF rvars
  <2>2. RowsInv'
    BY <2>1 DEF CompleteInv, RowsInv, TellsAll, Storage
  <2>3. PageInv'
    BY <2>1 DEF CompleteInv, PageInv, Due, Storage, FlameArtifact
  <2>4. QED BY <2>2, <2>3 DEF CompleteInv
<1>3. QED
  BY <1>1, <1>2
     DEF Next, wvars, ResultPage, CreationPages, Timeline, FlamePages, SessionOfTab, Groups,
         Lists, Settings, CreationNext, TimelineNext, FlameNext, SessionNext, GroupsNext,
         ListNext, SettingsNext

\* With no load under way, what the page shows of an analysed task is complete.
LEMMA CompleteIsSettled == ResultInv /\ CompleteInv => CompleteWhenSettled
<1> DEFINE files == Storage(rtid)
<1> SUFFICES ASSUME ResultInv, CompleteInv, rtid # "", ~mixed, fails = 0, loads = <<>>,
                    view.task.stage = "analysed"
             PROVE  /\ FlameArtifact(rtid) # {} => FlameTab(view) \in {"chart", "svg"}
                    /\ "top" \in files => TopnTab(view) = "table"
                    /\ SuggestionsTab(view) = "cards"
                    /\ "ebpf" \in files => EbpfTab(view) = "tables"
                    /\ "pprof" \in files => PprofTab(view) = "tables"
                    /\ "memory" \in files => "tables" \in MemoryTab(view)
                    /\ "memray" \in files => "frame" \in MemoryTab(view)
                    /\ "page" \notin view.bad
  BY DEF CompleteWhenSettled
<1>1. "page" \notin view.bad /\ Promised(view, loads, Due(rtid))
  BY DEF CompleteInv, PageInv
<1>2. \A k \in 1 .. Len(loads) : FALSE
  <2>1. loads \in Seq(LoadCall)
    BY DEF ResultInv, ResultTypeOK
  <2>2. QED BY <2>1, NotEmpty, Zenon
<1>3. view.busy = {}
  BY <1>2 DEF ResultInv, SpinnersInv
<1>4. view.shown["suggestions"] # "" /\ \A r \in Due(rtid) : Delivered(view, r)
  BY <1>1, <1>2 DEF Promised
<1>5. \A r \in FilePanels : r \in files => view.shown[r] # ""
  <2> SUFFICES ASSUME NEW r \in FilePanels, r \in files PROVE view.shown[r] # ""
    OBVIOUS
  <2>1. r \in Due(rtid) /\ r # "memray" /\ r # "flame"
    BY DEF Due, FilePanels
  <2>2. QED
    BY <1>4, <2>1 DEF Delivered
<1>6. "memray" \in files => view.frame # 0
  BY <1>4 DEF Due, Delivered
<1>7. "svg" \in FlameArtifact(rtid) => view.shown["svg"] # ""
  <2>1. "svg" \in FlameArtifact(rtid) => "flame" \in Due(rtid)
    BY DEF Due
  <2>2. QED
    BY <1>4, <2>1 DEF Delivered
<1>8. {"top", "collapsed", "ebpf", "pprof", "memory"} \subseteq FilePanels
  BY DEF FilePanels
<1>9. FlameArtifact(rtid) # {} => FlameTab(view) \in {"chart", "svg"}
  <2>1. CASE "collapsed" \in files \/ "top" \in files
    BY <1>5, <1>8, <2>1 DEF FlameTab, Has
  <2>2. CASE "collapsed" \notin files /\ "top" \notin files
    <3>1. FlameArtifact(rtid) = files \cap {"svg"}
      BY <2>2 DEF FlameArtifact
    <3>2. QED
      BY <1>7, <3>1 DEF FlameTab, Has
  <2>3. QED BY <2>1, <2>2
<1>10. QED
  BY <1>1, <1>3, <1>4, <1>5, <1>6, <1>8, <1>9
     DEF TopnTab, SuggestionsTab, EbpfTab, PprofTab, MemoryTab, Has

-----------------------------------------------------------------------------
(* The timeline of a continuous task.                                      *)

\* A request for the flame graph of the window w.
FlameCall(w) == [w : {w}, at : {"key", "artifact"}, cancelled : BOOLEAN]

PaneShape ==
    /\ pane = [loading |-> pane.loading, flame |-> pane.flame, error |-> pane.error]
    /\ pane.loading \in BOOLEAN

\* A request that was not cancelled is for the selected window, which has a key;
\* the pane shows that window or nothing, and waits for it only while such a
\* request is under way.
TimelineInv ==
    /\ PaneShape
    /\ \A f \in flames :
          /\ f \in FlameCall(f.w)
          /\ ~f.cancelled => f.w = tsel.w /\ tsel.st = "done"
    /\ pane.flame \in {0, tsel.w} /\ pane.error \in {0, tsel.w}
    /\ pane.flame # 0 => tsel.st = "done"
    /\ pane.loading /\ tsel.st = "done" => \E f \in flames : ~f.cancelled

\* The effects of a render: a new selection cancels what was under way.
LEMMA RenderKeeps ==
    ASSUME TimelineInv, NEW w, NEW st, NEW f, NEW again, NEW ls,
           again \/ [w |-> w, st |-> st] = tsel,
           Render([w |-> w, st |-> st], f, again, ls)
    PROVE  TimelineInv'
<1> DEFINE sel == [w |-> w, st |-> st]
<1>1. CASE ~again
  <2>1. UNCHANGED <<tsel, pane, flames>>
    BY <1>1 DEF Render
  <2>2. QED
    BY <2>1 DEF TimelineInv, PaneShape
<1>2. CASE again
  <2> DEFINE new == [w |-> w, at |-> "key", cancelled |-> FALSE]
  <2>1. tsel' = sel /\ pane' = PaneFor(sel, pane) /\ flames' = FlamesFor(sel, flames)
    BY <1>2 DEF Render
  <2>2. sel.w = w /\ sel.st = st /\ tsel'.w = w /\ tsel'.st = st
    BY <2>1
  <2>3. ASSUME NEW g \in flames
        PROVE  LET c == [g EXCEPT !.cancelled = TRUE]
               IN  c \in FlameCall(c.w) /\ c.cancelled = TRUE
    <3>1. g \in FlameCall(g.w)
      BY DEF TimelineInv
    <3>2. QED BY <3>1 DEF FlameCall
  <2>4. new \in FlameCall(new.w) /\ new.w = w /\ new.cancelled = FALSE
    BY DEF FlameCall
  <2> HIDE DEF new
  <2>5. ASSUME NEW g \in flames'
        PROVE  \/ g \in FlameCall(g.w) /\ g.cancelled = TRUE
               \/ g = new /\ st = "done"
    <3>1. (\E h \in flames : g = [h EXCEPT !.cancelled = TRUE]) \/ (g = new /\ st = "done")
      BY <2>1, <2>2 DEF FlamesFor, Cancelled, new
    <3>2. ASSUME NEW h \in flames, g = [h EXCEPT !.cancelled = TRUE]
          PROVE  g \in FlameCall(g.w) /\ g.cancelled = TRUE
      BY <2>3, <3>2
    <3>3. QED BY <3>1, <3>2
  <2>6. \A g \in flames' : /\ g \in FlameCall(g.w)
                           /\ ~g.cancelled => g.w = w /\ st = "done"
    BY <2>4, <2>5
  <2>7. CASE st = "done"
    <3>1. pane' = [loading |-> TRUE, flame |-> 0, error |-> 0] /\ new \in flames'
      BY <2>1, <2>2, <2>7 DEF PaneFor, FlamesFor, new
    <3>2. /\ pane' = [loading |-> pane'.loading, flame |-> pane'.flame, error |-> pane'.error]
          /\ pane'.loading = TRUE /\ pane'.flame = 0 /\ pane'.error = 0
      BY <3>1
    <3>3. QED
      BY <2>2, <2>4, <2>6, <3>1, <3>2 DEF TimelineInv, PaneShape
  <2>8. CASE st # "done"
    <3>1. pane' = [pane EXCEPT !.flame = 0, !.error = 0]
      BY <2>1, <2>2, <2>8 DEF PaneFor
    <3>2. pane = [loading |-> pane.loading, flame |-> pane.flame, error |-> pane.error]
          /\ pane.loading \in BOOLEAN
      BY DEF TimelineInv, PaneShape
    <3>3. pane' = [loading |-> pane.loading, flame |-> 0, error |-> 0]
      BY <3>1, <3>2
    <3>4. /\ pane' = [loading |-> pane'.loading, flame |-> pane'.flame, error |-> pane'.error]
          /\ pane'.loading = pane.loading /\ pane'.flame = 0 /\ pane'.error = 0
      BY <3>3
    <3>5. QED
      BY <2>2, <2>6, <2>8, <3>2, <3>4 DEF TimelineInv, PaneShape
  <2>9. QED BY <2>7, <2>8
<1>3. QED BY <1>1, <1>2

\* A request for a flame graph is answered.
LEMMA FlameArrivesKeeps ==
    ASSUME TimelineInv, NEW f \in flames, NEW ok \in BOOLEAN, FlameArrives(f, ok)
    PROVE  TimelineInv'
<1>1. /\ f \in FlameCall(f.w)
      /\ ~f.cancelled => f.w = tsel.w /\ tsel.st = "done"
  BY DEF TimelineInv
<1>2. tsel' = tsel
  BY DEF FlameArrives
<1>3. CASE f.at = "key" /\ ok /\ ~f.cancelled
  <2> DEFINE g == [f EXCEPT !.at = "artifact"]
  <2>1. flames' = (flames \ {f}) \cup {g} /\ pane' = pane
    BY <1>3 DEF FlameArrives
  <2>3. g \in FlameCall(g.w) /\ g.w = f.w /\ g.cancelled = f.cancelled
    BY <1>1 DEF FlameCall
  <2> HIDE DEF g
  <2>4. \E h \in flames' : ~h.cancelled
    BY <1>3, <2>1, <2>3
  <2>5. QED
    BY <1>1, <1>2, <1>3, <2>1, <2>3, <2>4 DEF TimelineInv, PaneShape
<1>4. CASE ~(f.at = "key" /\ ok /\ ~f.cancelled) /\ f.cancelled
  <2>1. flames' = flames \ {f} /\ pane' = pane
    BY <1>4 DEF FlameArrives
  <2>2. QED
    BY <1>2, <1>4, <2>1 DEF TimelineInv, PaneShape
<1>5. CASE ~(f.at = "key" /\ ok /\ ~f.cancelled) /\ ~f.cancelled
  <2>1. /\ flames' = flames \ {f}
        /\ pane' = [loading |-> FALSE, flame |-> IF ok THEN f.w ELSE 0,
                    error |-> IF ok THEN 0 ELSE f.w]
    BY <1>5 DEF FlameArrives
  <2>2. /\ pane' = [loading |-> pane'.loading, flame |-> pane'.flame, error |-> pane'.error]
        /\ pane'.loading = FALSE /\ pane'.flame \in {0, f.w} /\ pane'.error \in {0, f.w}
    BY <2>1
  <2>3. QED
    BY <1>1, <1>2, <1>5, <2>1, <2>2 DEF TimelineInv, PaneShape
<1>6. QED BY <1>3, <1>4, <1>5

LEMMA NextTimelineInv == TimelineInv /\ [Next]_wvars => TimelineInv'
<1> SUFFICES ASSUME TimelineInv, [Next]_wvars PROVE TimelineInv'
  OBVIOUS
<1>1. CASE UNCHANGED <<tsel, pane, flames>>
  BY <1>1 DEF TimelineInv, PaneShape
<1>2. CASE TimelineNext
  <2>1. ASSUME NEW w \in DOMAIN tlist, SelectWindow(w) PROVE TimelineInv'
    <3> DEFINE sel == [w |-> w, st |-> tlist[w]]
    <3>1. PICK again \in {TRUE, sel # tsel} : Render(sel, filter, again, lists)
      BY <2>1 DEF SelectWindow
    <3>2. again \/ sel = tsel
      OBVIOUS
    <3>3. QED BY <3>1, <3>2, RenderKeeps
  <2>2. ASSUME NEW f \in world.ranges, SearchRange(f) PROVE TimelineInv'
    <3>1. Render(NoSel, f, tsel # NoSel, lists)
      BY <2>2 DEF SearchRange
    <3>2. QED BY <3>1, RenderKeeps DEF NoSel
  <2>3. CASE HandleReset
    <3>1. Render(NoSel, 0, tsel # NoSel, lists)
      BY <2>3 DEF HandleReset
    <3>2. QED BY <3>1, RenderKeeps DEF NoSel
  <2>4. ASSUME NEW f \in world.ranges, EditRange(f) PROVE TimelineInv'
    <3>1. UNCHANGED <<tsel, pane, flames>>
      BY <2>4 DEF EditRange, Render
    <3>2. QED BY <1>1, <3>1
  <2>5. ASSUME NEW r \in lists, ListArrives(r) PROVE TimelineInv'
    <3> DEFINE done == {w \in DOMAIN r.got : r.got[w] \in {"done", "bare"}}
    <3>1. CASE r.free /\ done # {}
      <4>1. Render([w |-> Max(done), st |-> r.got[Max(done)]], filter, TRUE, lists \ {r})
        BY <2>5, <3>1 DEF ListArrives
      <4>2. QED BY <4>1, RenderKeeps
    <3>2. CASE ~(r.free /\ done # {})
      <4>1. Render(tsel, filter, FALSE, lists \ {r})
        BY <2>5, <3>2 DEF ListArrives
      <4>2. UNCHANGED <<tsel, pane, flames>>
        BY <4>1 DEF Render
      <4>3. QED BY <1>1, <4>2
    <3>3. QED BY <3>1, <3>2
  <2>6. CASE FlameStep
    BY <2>6, FlameArrivesKeeps DEF FlameStep
  <2>7. CASE HandleStop \/ StopAnswered \/ PollWindows \/ WindowMoves
    <3>1. UNCHANGED <<tsel, pane, flames>>
      BY <2>7 DEF HandleStop, StopAnswered, PollWindows, WindowMoves
    <3>2. QED BY <1>1, <3>1
  <2>8. CASE ServeSomeList \/ \E r \in lists : ListFails(r)
    <3>1. UNCHANGED <<tsel, pane, flames>>
      BY <2>8 DEF ServeSomeList, ServeList, ListFails
    <3>2. QED BY <1>1, <3>1
  <2>9. QED
    BY <1>2, <2>1, <2>2, <2>3, <2>4, <2>5, <2>6, <2>7, <2>8 DEF TimelineNext, SomeListArrives
<1>3. CASE UNCHANGED tvars
  BY <1>1, <1>3 DEF tvars
<1>4. QED
  BY <1>2, <1>3
     DEF Next, wvars, ResultPage, CreationPages, Timeline, FlamePages, SessionOfTab, Groups,
         Lists, Settings

LEMMA TimelineInitInv == Init => TimelineInv
<1> SUFFICES ASSUME TimelineInit PROVE TimelineInv
  BY DEF Init
<1>1. pane = [loading |-> FALSE, flame |-> 0, error |-> 0] /\ flames = {}
  BY DEF TimelineInit
<1>2. QED
  BY <1>1 DEF TimelineInv, PaneShape

-----------------------------------------------------------------------------
(* The comparison of two tasks.                                            *)

Pairs == {"", "t1", "t2", "t3"} \X {"", "t1", "t2"}

\* Until the pair changes under a comparison, every comparison under way is one
\* of the pair on the page.
DiffInv ==
    /\ dtid \in Pairs /\ diffs \in Seq(Pairs) /\ touched \in BOOLEAN
    /\ ~touched => /\ dres \in {<<>>, dtid}
                   /\ \A i \in 1 .. Len(diffs) : diffs[i] = dtid

LEMMA NextDiffInv == DiffInv /\ [Next]_wvars => DiffInv'
<1> SUFFICES ASSUME DiffInv, [Next]_wvars PROVE DiffInv'
  OBVIOUS
<1>0. dtid \in Pairs /\ diffs \in Seq(Pairs) /\ touched \in BOOLEAN
  BY DEF DiffInv
<1>1. CASE UNCHANGED <<dtid, diffs, dres, touched>>
  BY <1>1 DEF DiffInv
<1>2. ASSUME NEW pair \in Pairs, ChangePair(pair) PROVE DiffInv'
  <2>1. /\ dtid' = pair /\ dres' = <<>> /\ touched' = (touched \/ diffs # <<>>) /\ diffs' = diffs
    BY <1>2 DEF ChangePair
  <2>2. CASE touched \/ diffs # <<>>
    BY <1>0, <2>1, <2>2 DEF DiffInv
  <2>3. CASE ~(touched \/ diffs # <<>>)
    <3>1. Len(diffs) = 0
      BY <2>3
    <3>2. \A i \in 1 .. Len(diffs) : diffs[i] = pair
      BY <3>1
    <3>3. QED BY <1>0, <2>1, <3>2 DEF DiffInv
  <2>4. QED BY <2>2, <2>3
<1>3. CASE DoDiff
  <2>1. diffs' = Append(diffs, dtid) /\ dres' = <<>> /\ UNCHANGED <<dtid, touched>>
    BY <1>3 DEF DoDiff
  <2>2. /\ diffs' \in Seq(Pairs) /\ diffs'[Len(diffs) + 1] = dtid
        /\ \A k \in 1 .. Len(diffs) : diffs'[k] = diffs[k]
        /\ 1 .. Len(diffs') = (1 .. Len(diffs)) \cup {Len(diffs) + 1}
    BY <1>0, <2>1, AppendElements
  <2>3. QED BY <1>0, <2>1, <2>2 DEF DiffInv
<1>4. ASSUME NEW i \in 1 .. Len(diffs), NEW ok \in BOOLEAN, DiffAnswered(i, ok) PROVE DiffInv'
  <2>1. /\ dres' = IF ok THEN diffs[i] ELSE dres
        /\ diffs' = RemoveAt(diffs, i) /\ UNCHANGED <<dtid, touched>>
    BY <1>4 DEF DiffAnswered
  <2>2. /\ diffs' \in Seq(Pairs)
        /\ \A k \in 1 .. Len(diffs') : \E j \in 1 .. Len(diffs) : diffs'[k] = diffs[j]
    BY <1>0, <2>1, RemoveAtElements
  <2>3. QED BY <1>0, <2>1, <2>2 DEF DiffInv
<1>5. CASE FlameNext
  <2>1. CASE \/ \E text \in SampleTexts : NewData(text)
             \/ FullscreenChange \/ \E t \in {"", "f", "g"} : Search(t)
             \/ \E w \in 1 .. 2, h \in 1 .. 2 : WindowResizes(w, h)
             \/ ResizeTimer
    <3>1. UNCHANGED <<dtid, diffs, dres, touched>>
      BY <2>1 DEF NewData, FullscreenChange, Search, Rendered, WindowResizes, ResizeTimer
    <3>2. QED BY <1>1, <3>1
  <2>2. QED
    BY <1>2, <1>3, <1>4, <1>5, <2>1 DEF FlameNext, Pairs
<1>6. CASE UNCHANGED fvars
  BY <1>1, <1>6 DEF fvars
<1>7. QED
  BY <1>5, <1>6
     DEF Next, wvars, ResultPage, CreationPages, Timeline, FlamePages, SessionOfTab, Groups,
         Lists, Settings

LEMMA DiffInitInv == Init => DiffInv
<1> SUFFICES ASSUME FlameInit PROVE DiffInv
  BY DEF Init
<1>1. dtid = <<"", "">> /\ diffs = <<>> /\ dres = <<>> /\ touched = FALSE
  BY DEF FlameInit
<1>2. dtid \in Pairs
  BY <1>1 DEF Pairs
<1>3. diffs \in Seq(Pairs) /\ Len(diffs) = 0
  BY <1>1, EmptySeq
<1>4. \A i \in 1 .. Len(diffs) : diffs[i] = dtid
  BY <1>3
<1>5. QED
  BY <1>1, <1>2, <1>3, <1>4, Zenon DEF DiffInv

\* The result page, the timeline and the comparison show what is selected there,
\* in whatever order the answers for earlier selections come in (TaskResult.tsx,
\* ContinuousTimeline.tsx, FlameDiff.tsx).
THEOREM SelectionIsShown == Spec => []ShownIsSelected
<1>1. ResultInv => ShowsItsOwnTask
  BY DEF ResultInv, OwnTaskInv, ShowsItsOwnTask
<1>2. TimelineInv => FlameOfSelection
  <2> SUFFICES ASSUME TimelineInv PROVE RightSide = "graph" => tsel.st = "done"
    BY DEF TimelineInv, FlameOfSelection
  <2>1. RightSide = "graph" => pane.flame # 0
    BY DEF RightSide
  <2>2. QED
    BY <2>1 DEF TimelineInv
<1>3. DiffInv => ResultFitsPair
  BY DEF DiffInv, ResultFitsPair
<1>4. ResultInv /\ TimelineInv /\ DiffInv => ShownIsSelected
  BY <1>1, <1>2, <1>3 DEF ShownIsSelected
<1>5. QED
  BY <1>4, ResultInitInv, NextResultInv, TimelineInitInv, NextTimelineInv, DiffInitInv,
     NextDiffInv, PTL DEF Spec

-----------------------------------------------------------------------------

\* A spinner turns, and a submit button is disabled, only as long as a request is
\* under way, on the result page, the timeline, the page of groups and the pages
\* of lists, however requests overlap, fail or are overtaken (the finally blocks
\* of TaskResult.tsx, ContinuousTimeline.tsx, Groups.tsx, TaskList.tsx,
\* ScheduleTasksPanel.tsx and Agents.tsx).
THEOREM SpinnersTurnForRequests == Spec => []SpinnersHaveRequests
<1>0. loads = <<>> => \A k \in 1 .. Len(loads) : FALSE
  OBVIOUS
<1>1. ResultInv => NoSpinnerLeft
  <2> SUFFICES ASSUME ResultInv, loads = <<>>, rtid # "" PROVE view.busy = {}
    BY DEF NoSpinnerLeft
  <2>1. \A s \in view.busy : FALSE
    BY <1>0, Zenon DEF ResultInv, SpinnersInv
  <2>2. QED BY <2>1
<1>2. TimelineInv => SpinnerHasRequest
  <2> SUFFICES ASSUME TimelineInv, RightSide = "spinner", tsel.st = "done"
               PROVE  \E f \in flames : f.w = tsel.w /\ ~f.cancelled
    BY DEF SpinnerHasRequest
  <2>1. pane.loading
    BY DEF RightSide
  <2>2. QED
    BY <2>1, Zenon DEF TimelineInv
<1>3. GroupsInv => GroupsComeToRest
  <2>1. gops = <<>> => \A k \in 1 .. Len(gops) : FALSE
    OBVIOUS
  <2>2. QED
    BY <2>1, Zenon DEF GroupsInv, GroupsComeToRest
<1>4. ListsInv => ListsComeToRest
  <2>1. lops = <<>> => \A k \in 1 .. Len(lops) : FALSE
    OBVIOUS
  <2>2. QED
    BY <2>1, Zenon DEF ListsInv, ListsComeToRest
<1>5. ResultInv /\ TimelineInv /\ GroupsInv /\ ListsInv => SpinnersHaveRequests
  BY <1>1, <1>2, <1>3, <1>4 DEF SpinnersHaveRequests
<1>6. QED
  BY <1>5, ResultInitInv, NextResultInv, TimelineInitInv, NextTimelineInv, GroupsInitInv,
     NextGroupsInv, ListsInitInv, NextListsInv, PTL DEF Spec

-----------------------------------------------------------------------------
(* Creating a task.                                                        *)

TaskStages == {"collecting", "collected", "analysing", "analysed", "failed"}
ServerTask == [stage : TaskStages, kind : {"oneshot", "continuous"}]
Poller == [at : {"none", "load", "trigger", "wait", "ended"}, seen : {"collecting"},
           polls : Int, triggered : BOOLEAN, aborted : BOOLEAN]
Events == {"cpu-cycles", "cpu", "heap", "io", "sched"}

PageShape(p) ==
    p \in [open : BOOLEAN, mode : Modes, submitting : BOOLEAN, nlSubmitting : BOOLEAN,
           dialog : {p.dialog}, agents : BOOLEAN, type : Int, profiler : Int,
           event : Events, num : [Fields -> Int], poller : {p.poller}]

\* The form: the collector goes with the type, the event with those types that
\* set it, and the numbers only continuous tasks use are clamped or NaN.
CollectorFits(type, profiler, event) ==
    /\ profiler = ProfilerFor(type)
    /\ type = 10 => event = "cpu"
    /\ type = 11 => event = "heap"
RateTyped == {NaN} \cup (1 .. 1000)
WindowTyped == {NaN} \cup (15 .. 3600)
Limited(num) == num["chz"] \in RateTyped /\ num["window"] \in WindowTyped

PageOK(p) == PageShape(p) /\ CollectorFits(p.type, p.profiler, p.event) /\ Limited(p.num)

\* A submission: what it carries was true of the form.
SubOK(s) ==
    /\ s \in [inst : Nat, from : {s.from}, kind : Modes, at : {"create", "refresh"},
              tid : Nat, plan : BOOLEAN, dialog : {s.dialog}, sent : {s.sent},
              shown : {s.shown}, runs : {s.runs}]
    /\ s.kind = "oneshot" => s.runs = s.shown
    /\ \A f \in DOMAIN s.sent : InRange(f, s.sent[f])

\* The submission of the mounted page, of which there is one while its flag is up.
Mine(s) == Mounted(s) /\ s.kind # "natural"

\* A poller at work has a task to load.
PollersOK(ps, ts) ==
    /\ ps \in [TaskIds -> Poller]
    /\ \A t \in TaskIds : ps[t].at \in {"load", "trigger", "wait"} => t \in 1 .. Len(ts)

CreationInv ==
    /\ world \in Worlds /\ inst \in Nat
    /\ PageOK(pg) /\ tasks \in Seq(ServerTask) /\ PollersOK(pollers, tasks)
    /\ \A s \in subs : /\ SubOK(s) /\ s.inst \in 0 .. inst
                       /\ s.at = "refresh" => s.tid \in 1 .. Len(tasks)
    /\ \A s, u \in subs : Mine(s) /\ Mine(u) => s = u
    /\ loc \in Forms => (pg.submitting <=> \E s \in subs : Mine(s))

\* The invariant says what the properties say.
LEMMA CreationInvIsTrue == CreationInv => SubmissionsAreTrue
<1> SUFFICES ASSUME CreationInv PROVE SubmissionsAreTrue
  OBVIOUS
<1> DEFINE mine == {s \in subs : Mounted(s) /\ s.kind # "natural"}
<1>1. Cardinality(mine) <= 1
  <2>1. CASE mine = {}
    BY <2>1, FS_EmptySet
  <2>2. CASE mine # {}
    <3>1. PICK s : s \in mine
      BY <2>2
    <3>2. mine = {s}
      BY <3>1 DEF CreationInv, Mine
    <3>3. Cardinality({s}) = 1
      BY FS_Singleton
    <3> HIDE DEF mine
    <3>4. QED BY <3>2, <3>3
  <2>3. QED BY <2>1, <2>2
<1>2. loc \in Forms => (pg.submitting <=> mine # {})
  BY DEF CreationInv, Mine
<1>3. RunsWhatIsShown /\ SentInRange
  BY DEF CreationInv, SubOK, RunsWhatIsShown, SentInRange
<1>4. QED
  BY <1>1, <1>2, <1>3 DEF SubmissionsAreTrue, OneSubmissionPerPage

LEMMA DefaultNumbers ==
    DefaultNum \in [Fields -> Int] /\ DefaultNum["chz"] = 10 /\ DefaultNum["window"] = 300
<1>1. "chz" \in Fields /\ "window" \in Fields
  BY DEF Fields
<1>2. ASSUME NEW f \in Fields PROVE DefaultNum[f] \in Int
  BY SMTT(60) DEF DefaultNum, Fields
<1>3. DefaultNum \in [Fields -> Int]
  BY <1>2 DEF DefaultNum
<1>4. DefaultNum["chz"] = 10 /\ DefaultNum["window"] = 300
  BY <1>1, SMTT(60) DEF DefaultNum
<1>5. QED
  BY <1>3, <1>4

LEMMA FreshPageOK == PageOK(FreshPage) /\ FreshPage.submitting = FALSE
<1>1. /\ DefaultNum \in [Fields -> Int] /\ DefaultNum["chz"] = 10 /\ DefaultNum["window"] = 300
  BY DefaultNumbers
<1>2. CollectorFits(0, 0, "cpu-cycles")
  BY DEF ProfilerFor, CollectorFits
<1>3. Limited(DefaultNum)
  <2>1. 10 \in RateTyped /\ 300 \in WindowTyped
    BY DEF RateTyped, WindowTyped
  <2>2. QED
    BY <1>1, <2>1, Zenon DEF Limited
<1> DEFINE n == DefaultNum
<1>4. n \in [Fields -> Int] /\ Limited(n)
  BY <1>1, <1>3
<1> HIDE DEF n
<1>5. /\ PageShape(FreshPage) /\ FreshPage.submitting = FALSE /\ FreshPage.type = 0
      /\ FreshPage.profiler = 0 /\ FreshPage.event = "cpu-cycles" /\ FreshPage.num = n
  BY <1>4, SMTT(60) DEF FreshPage, PageShape, Modes, Events, n
<1>6. QED
  BY <1>2, <1>4, <1>5, Zenon DEF PageOK

\* The form as users change it.
LEMMA ClampedNumber ==
    ASSUME NEW f \in Fields, NEW x \in Int
    PROVE  /\ Clamped(f, x) \in Int
           /\ f = "chz" => Clamped(f, x) \in RateTyped
           /\ f = "window" => Clamped(f, x) \in WindowTyped
<1>1. CASE x = NaN
  BY <1>1 DEF Clamped, NaN, RateTyped, WindowTyped
<1>2. CASE x # NaN /\ f = "chz"
  BY <1>2, SMTT(60) DEF Clamped, NaN, RateTyped
<1>3. CASE x # NaN /\ f = "window"
  BY <1>3, SMTT(60) DEF Clamped, NaN, WindowTyped
<1>4. CASE x # NaN /\ f \notin {"chz", "window"}
  <2>1. Clamped(f, x) \in Int
    BY <1>4 DEF Clamped, NaN
  <2>2. QED BY <1>4, <2>1
<1>5. QED
  BY <1>1, <1>2, <1>3, <1>4

LEMMA TypedNumber ==
    ASSUME PageOK(pg), NEW f \in Fields, NEW x \in Int, NEW p,
           p = [pg EXCEPT !.num[f] = Clamped(f, x)]
    PROVE  PageOK(p) /\ p.submitting = pg.submitting
<1> DEFINE y == Clamped(f, x)
           num == pg.num
           n == [num EXCEPT ![f] = y]
<1>1. /\ y \in Int /\ (f = "chz" => y \in RateTyped)
      /\ f = "window" => y \in WindowTyped
  BY ClampedNumber
<1>2. PageShape(pg) /\ CollectorFits(pg.type, pg.profiler, pg.event) /\ Limited(num)
  BY DEF PageOK
<1>3. num \in [Fields -> Int] /\ "chz" \in Fields /\ "window" \in Fields
  BY <1>2 DEF PageShape, Fields
<1>4. p = [pg EXCEPT !.num = n]
  OBVIOUS
<1> HIDE DEF y, num
<1>5. /\ n \in [Fields -> Int]
      /\ n["chz"] = IF f = "chz" THEN y ELSE num["chz"]
      /\ n["window"] = IF f = "window" THEN y ELSE num["window"]
  BY <1>1, <1>3, SMTT(60)
<1> HIDE DEF n
<1>6. Limited(n)
  BY <1>1, <1>2, <1>5, Zenon DEF Limited
<1>7. /\ PageShape(p) /\ p.submitting = pg.submitting /\ p.num = n
      /\ p.type = pg.type /\ p.profiler = pg.profiler /\ p.event = pg.event
  BY <1>2, <1>4, <1>5 DEF PageShape
<1>8. QED
  BY <1>2, <1>6, <1>7, Zenon DEF PageOK

LEMMA ChosenType ==
    ASSUME PageOK(pg), NEW type \in Int, NEW p,
           p = [pg EXCEPT !.type = type, !.profiler = ProfilerFor(type),
                          !.event = EventFor(type, @)]
    PROVE  PageOK(p) /\ p.submitting = pg.submitting
<1> DEFINE k == ProfilerFor(type)
           e == EventFor(type, pg.event)
<1>1. PageShape(pg) /\ Limited(pg.num)
  BY DEF PageOK
<1>2. k \in Int
  BY DEF ProfilerFor
<1>3. pg.event \in Events
  BY <1>1 DEF PageShape
<1>4. e \in Events /\ CollectorFits(type, k, e)
  BY <1>3 DEF EventFor, Events, CollectorFits
<1>5. p = [pg EXCEPT !.type = type, !.profiler = k, !.event = e]
  OBVIOUS
<1> HIDE DEF k, e
<1>6. /\ PageShape(p) /\ p.submitting = pg.submitting /\ p.num = pg.num
      /\ p.type = type /\ p.profiler = k /\ p.event = e
  BY <1>1, <1>2, <1>4, <1>5 DEF PageShape
<1>7. QED
  BY <1>1, <1>4, <1>6, Zenon DEF PageOK

LEMMA ChosenEvent ==
    ASSUME PageOK(pg), NEW event \in {"io", "sched"}, pg.type = 6, NEW p,
           p = [pg EXCEPT !.event = event]
    PROVE  PageOK(p) /\ p.submitting = pg.submitting
<1>1. PageShape(pg) /\ CollectorFits(6, pg.profiler, pg.event) /\ Limited(pg.num)
  BY DEF PageOK
<1>2. CollectorFits(6, pg.profiler, event)
  BY <1>1 DEF CollectorFits
<1>3. /\ PageShape(p) /\ p.submitting = pg.submitting /\ p.num = pg.num
      /\ p.type = 6 /\ p.profiler = pg.profiler /\ p.event = event
  BY <1>1 DEF PageShape, Events
<1>4. QED
  BY <1>1, <1>2, <1>3, Zenon DEF PageOK

\* What the dialog shows is what the agent will run.
LEMMA ShownRuns ==
    ASSUME NEW type \in Int, NEW event \in Events, NEW k, CollectorFits(type, k, event)
    PROVE  ShownChoice(type, event) = CreateProfiler(k, event)
<1>1. CASE type = 1
  BY <1>1 DEF CollectorFits, ProfilerFor, ShownChoice, CreateProfiler
<1>2. CASE type = 6
  <2>1. k = 3
    BY <1>2 DEF CollectorFits, ProfilerFor
  <2>2. ShownChoice(type, event) = IF event = "sched" THEN "bpf sched" ELSE "bpf io"
    BY <1>2 DEF ShownChoice
  <2>3. CreateProfiler(k, event) = IF event \in {"sched", "schedule"} THEN "bpf sched" ELSE "bpf io"
    BY <2>1 DEF CreateProfiler
  <2>4. event # "schedule"
    BY DEF Events
  <2>5. CASE event = "sched"
    BY <2>2, <2>3, <2>5
  <2>6. CASE event # "sched"
    BY <2>2, <2>3, <2>4, <2>6
  <2>7. QED BY <2>5, <2>6
<1>3. CASE type = 10
  BY <1>3 DEF CollectorFits, ProfilerFor, ShownChoice, CreateProfiler
<1>4. CASE type = 11
  BY <1>4 DEF CollectorFits, ProfilerFor, ShownChoice, CreateProfiler
<1>5. CASE type = 4
  BY <1>5 DEF CollectorFits, ProfilerFor, ShownChoice, CreateProfiler
<1>6. CASE type = 12
  BY <1>6 DEF CollectorFits, ProfilerFor, ShownChoice, CreateProfiler
<1>7. CASE type = 5
  BY <1>7 DEF CollectorFits, ProfilerFor, ShownChoice, CreateProfiler
<1>8. CASE type \notin {1, 4, 5, 6, 10, 11, 12}
  <2>1. k = 0
    BY <1>8 DEF CollectorFits, ProfilerFor
  <2>2. ShownChoice(type, event) = "perf"
    BY <1>8 DEF ShownChoice
  <2>3. CreateProfiler(k, event) = "perf"
    BY <2>1 DEF CreateProfiler
  <2>4. QED BY <2>2, <2>3
<1>9. QED
  BY <1>1, <1>2, <1>3, <1>4, <1>5, <1>6, <1>7, <1>8

\* What is sent is within the limits of the form.
LEMMA TypedIsInRange ==
    /\ \A x \in RateTyped : InRange("chz", Or(x, 10))
    /\ \A x \in WindowTyped : InRange("window", Or(x, 300))
<1>1. ASSUME NEW x \in RateTyped PROVE InRange("chz", Or(x, 10))
  <2>1. Or(x, 10) \in 1 .. 1000
    BY DEF Or, NaN, RateTyped
  <2>2. QED
    BY <2>1, SMTT(30) DEF InRange
<1>2. ASSUME NEW x \in WindowTyped PROVE InRange("window", Or(x, 300))
  <2>1. Or(x, 300) \in 15 .. 3600
    BY DEF Or, NaN, WindowTyped
  <2>2. QED
    BY <2>1 DEF InRange
<1>3. QED
  BY <1>1, <1>2

LEMMA SentIsInRange ==
    ASSUME NEW num \in [Fields -> Int], Limited(num), NEW mode \in Modes,
           mode # "natural" => InRange("pid", num["pid"]) /\ InRange("hz", Or(num["hz"], 1)),
           mode = "oneshot" => InRange("duration", num["duration"])
    PROVE  \A f \in DOMAIN Payload(mode, num) : InRange(f, Payload(mode, num)[f])
<1>1. num["hz"] \in Int
  BY DEF Fields
<1>2. CASE mode = "oneshot"
  <2> DEFINE sent == Payload(mode, num)
  <2>1. /\ DOMAIN sent = {"pid", "duration", "hz"} /\ sent["pid"] = num["pid"]
        /\ sent["duration"] = num["duration"] /\ sent["hz"] = Or(num["hz"], 99)
    BY <1>2, SMTT(60) DEF Payload
  <2>2. InRange("hz", Or(num["hz"], 99))
    BY <1>1, <1>2 DEF InRange, Or
  <2> HIDE DEF sent
  <2>3. InRange("pid", sent["pid"]) /\ InRange("duration", sent["duration"])
        /\ InRange("hz", sent["hz"])
    BY <1>2, <2>1, <2>2
  <2>4. \A f \in DOMAIN sent : InRange(f, sent[f])
    BY <2>1, <2>3
  <2>5. QED BY <2>4 DEF sent
<1>3. CASE mode = "continuous"
  <2> DEFINE sent == Payload(mode, num)
  <2>1. /\ DOMAIN sent = {"pid", "chz", "window"} /\ sent["pid"] = num["pid"]
        /\ sent["chz"] = Or(num["chz"], 10) /\ sent["window"] = Or(num["window"], 300)
    BY <1>3, SMTT(60) DEF Payload
  <2>2. InRange("chz", Or(num["chz"], 10)) /\ InRange("window", Or(num["window"], 300))
    BY TypedIsInRange DEF Limited
  <2> HIDE DEF sent
  <2>3. InRange("pid", sent["pid"]) /\ InRange("chz", sent["chz"])
        /\ InRange("window", sent["window"])
    BY <1>3, <2>1, <2>2
  <2>4. \A f \in DOMAIN sent : InRange(f, sent[f])
    BY <2>1, <2>3
  <2>5. QED BY <2>4 DEF sent
<1>4. CASE mode = "natural"
  <2>1. DOMAIN Payload(mode, num) = {}
    BY <1>4 DEF Payload
  <2> DEFINE sent == Payload(mode, num)
  <2>2. DOMAIN sent = {}
    BY <2>1
  <2> HIDE DEF sent
  <2>3. \A f \in DOMAIN sent : InRange(f, sent[f])
    BY <2>2
  <2>4. QED BY <2>3 DEF sent
<1>5. QED
  BY <1>2, <1>3, <1>4 DEF Modes

-----------------------------------------------------------------------------

\* No task is forgotten.
Grows == tasks' \in Seq(ServerTask) /\ \A t \in 1 .. Len(tasks) : t \in 1 .. Len(tasks')

LEMMA PollersGrow ==
    ASSUME NEW ps, PollersOK(ps, tasks), Grows
    PROVE  PollersOK(ps, tasks')
BY DEF PollersOK, Grows

\* The parts of the invariant after a step.
LEMMA CreationParts ==
    ASSUME world' \in Worlds, inst' \in Nat,
           tasks' \in Seq(ServerTask), PageOK(pg'), PollersOK(pollers', tasks'),
           \A u \in subs' : /\ SubOK(u) /\ u.inst \in 0 .. inst'
                            /\ u.at = "refresh" => u.tid \in 1 .. Len(tasks'),
           \A u, v \in subs' : Mine(u)' /\ Mine(v)' => u = v,
           loc' \in Forms => (pg'.submitting <=> \E u \in subs' : Mine(u)')
    PROVE  CreationInv'
BY Zenon DEF CreationInv, PageOK, PageShape, PollersOK, SubOK, Mine, Mounted

\* A step that leaves the submissions alone and the page's flag as it is.
LEMMA SubsStay ==
    ASSUME CreationInv, UNCHANGED <<world, loc, inst, subs>>, PageOK(pg'),
           pg'.submitting = pg.submitting, Grows, PollersOK(pollers', tasks')
    PROVE  CreationInv'
<1>1. \A s : Mine(s)' <=> Mine(s)
  BY DEF Mine, Mounted
<1>2. \A s \in subs' : /\ SubOK(s) /\ s.inst \in 0 .. inst'
                       /\ s.at = "refresh" => s.tid \in 1 .. Len(tasks')
  BY DEF CreationInv, Grows
<1>3. /\ world' \in Worlds /\ inst' \in Nat /\ tasks' \in Seq(ServerTask)
  BY DEF CreationInv, Grows
<1>4. \A s, u \in subs' : Mine(s)' /\ Mine(u)' => s = u
  BY <1>1, Zenon DEF CreationInv
<1>5. loc' \in Forms => (pg'.submitting <=> \E s \in subs' : Mine(s)')
  BY <1>1, Zenon DEF CreationInv
<1>6. QED
  BY <1>2, <1>3, <1>4, <1>5, CreationParts

\* A page that is left takes its submissions with it.
LEMMA PageIsLeft ==
    ASSUME CreationInv, UNCHANGED world, subs' \subseteq subs, Grows,
           pg' = FreshPage, inst' = inst + 1, PollersOK(pollers', tasks')
    PROVE  CreationInv'
<1>1. \A s \in subs' : s.inst \in 0 .. inst' /\ s.inst # inst'
  BY DEF CreationInv
<1>2. \A s \in subs' : ~Mine(s)'
  BY <1>1 DEF Mine, Mounted
<1>3. \A s \in subs' : SubOK(s) /\ (s.at = "refresh" => s.tid \in 1 .. Len(tasks'))
  BY DEF CreationInv, Grows
<1>4. /\ world' \in Worlds /\ inst' \in Nat /\ tasks' \in Seq(ServerTask)
  BY DEF CreationInv, Grows
<1>5. PageOK(pg') /\ pg'.submitting = FALSE
  BY FreshPageOK
<1>6. QED
  BY <1>1, <1>2, <1>3, <1>4, <1>5, CreationParts

\* A submission ends on the page it was made on, mounted or not.
LEMMA EndedPage ==
    ASSUME PageOK(pg), NEW s, NEW p, p = Ended(s, pg)
    PROVE  /\ PageOK(p)
           /\ p.submitting = IF Mine(s) THEN FALSE ELSE pg.submitting
<1> DEFINE q == [pg EXCEPT !.submitting = FALSE]
           r == [pg EXCEPT !.nlSubmitting = FALSE]
<1>1. PageShape(pg) /\ CollectorFits(pg.type, pg.profiler, pg.event) /\ Limited(pg.num)
  BY DEF PageOK
<1>2. /\ PageShape(q) /\ q.submitting = FALSE /\ q.num = pg.num
      /\ q.type = pg.type /\ q.profiler = pg.profiler /\ q.event = pg.event
  BY <1>1 DEF PageShape
<1>3. /\ PageShape(r) /\ r.submitting = pg.submitting /\ r.num = pg.num
      /\ r.type = pg.type /\ r.profiler = pg.profiler /\ r.event = pg.event
  BY <1>1 DEF PageShape
<1>4. (Mine(s) => p = q) /\ (~Mine(s) => p = r \/ p = pg)
  <2>1. CASE Mine(s)
    BY <2>1 DEF Ended, Mine
  <2>2. CASE Mounted(s) /\ s.kind = "natural" /\ s.dialog = pg.dialog
    BY <2>2 DEF Ended, Mine
  <2>3. CASE ~Mine(s) /\ ~(Mounted(s) /\ s.kind = "natural" /\ s.dialog = pg.dialog)
    BY <2>3 DEF Ended, Mine
  <2>4. QED BY <2>1, <2>2, <2>3 DEF Mine
<1> HIDE DEF q, r
<1>5. PageOK(q) /\ PageOK(r)
  BY <1>1, <1>2, <1>3, Zenon DEF PageOK
<1>6. QED
  BY <1>2, <1>3, <1>4, <1>5

LEMMA SubmissionEnds ==
    ASSUME CreationInv, NEW s \in subs, UNCHANGED world, subs' = subs \ {s},
           Stay(Ended(s, pg)), Grows
    PROVE  CreationInv'
<1>1. pg' = Ended(s, pg) /\ UNCHANGED <<loc, inst, pollers>>
  BY DEF Stay
<1>2. PageOK(pg) /\ PollersOK(pollers, tasks)
  BY DEF CreationInv
<1>3. PageOK(pg') /\ pg'.submitting = IF Mine(s) THEN FALSE ELSE pg.submitting
  BY <1>1, <1>2, EndedPage
<1>4. PollersOK(pollers', tasks')
  BY <1>1, <1>2, PollersGrow
<1>5. \A u : Mine(u)' <=> Mine(u)
  BY <1>1 DEF Mine, Mounted
<1>6. \A u, v \in subs' : Mine(u)' /\ Mine(v)' => u = v
  BY <1>5, Zenon DEF CreationInv
<1>7. \A u \in subs' : /\ SubOK(u) /\ u.inst \in 0 .. inst'
                       /\ u.at = "refresh" => u.tid \in 1 .. Len(tasks')
  BY <1>1 DEF CreationInv, Grows
<1>8. loc' \in Forms => (pg'.submitting <=> \E u \in subs' : Mine(u)')
  <2>1. CASE Mine(s)
    BY <1>3, <1>5, <2>1 DEF CreationInv
  <2>2. CASE ~Mine(s)
    BY <1>1, <1>3, <1>5, <2>2 DEF CreationInv
  <2>3. QED BY <2>1, <2>2
<1>9. world' \in Worlds /\ inst' \in Nat /\ tasks' \in Seq(ServerTask)
  BY <1>1 DEF CreationInv, Grows
<1>10. QED
  BY <1>3, <1>4, <1>6, <1>7, <1>8, <1>9, CreationParts

\* The pollers, step by step.
LEMMA PollerSet ==
    ASSUME NEW ps, PollersOK(ps, tasks), NEW t \in 1 .. Len(tasks), NEW q \in Poller
    PROVE  PollersOK([ps EXCEPT ![t] = q], tasks)
BY DEF PollersOK

LEMMA PollerAborted ==
    ASSUME NEW ps, PollersOK(ps, tasks), NEW t
    PROVE  PollersOK(Abort(ps, t), tasks)
<1>1. CASE t = 0 \/ t \notin TaskIds
  BY <1>1 DEF Abort, PollersOK
<1>2. CASE t # 0 /\ t \in TaskIds
  <2> DEFINE q == [ps[t] EXCEPT !.aborted = TRUE]
  <2>1. ps[t] \in Poller
    BY <1>2 DEF PollersOK
  <2>2. q \in Poller /\ q.at = ps[t].at
    BY <2>1 DEF Poller
  <2>3. Abort(ps, t) = [ps EXCEPT ![t] = q]
    BY <1>2 DEF Abort
  <2> HIDE DEF q
  <2>4. QED
    BY <1>2, <2>2, <2>3 DEF PollersOK
<1>3. QED
  BY <1>1, <1>2

LEMMA PollerStates ==
    ASSUME NEW p \in Poller
    PROVE  /\ EndOfPoller(p) \in Poller /\ EndOfPoller(p).at = "ended"
           /\ Waiting(p) \in Poller
           /\ [p EXCEPT !.at = "trigger", !.triggered = TRUE] \in Poller
           /\ [p EXCEPT !.at = "load", !.polls = @ + 1] \in Poller
           /\ [NoPoller EXCEPT !.at = "load", !.polls = 1] \in Poller
<1>1. EndOfPoller(p) \in Poller /\ EndOfPoller(p).at = "ended"
  BY DEF EndOfPoller, Poller, NoPoller
<1>2. [p EXCEPT !.at = "wait"] \in Poller
  BY DEF Poller
<1>3. Waiting(p) \in Poller
  BY <1>1, <1>2 DEF Waiting
<1>4. [p EXCEPT !.at = "trigger", !.triggered = TRUE] \in Poller
  BY DEF Poller
<1>5. [p EXCEPT !.at = "load", !.polls = @ + 1] \in Poller
  <2> DEFINE n == p.polls + 1
  <2>1. n \in Int
    BY DEF Poller
  <2> HIDE DEF n
  <2>2. [p EXCEPT !.at = "load", !.polls = n] \in Poller
    BY <2>1 DEF Poller
  <2>3. QED BY <2>2 DEF n
<1>6. [NoPoller EXCEPT !.at = "load", !.polls = 1] \in Poller
  <2>1. NoPoller \in Poller
    BY DEF NoPoller, Poller
  <2> DEFINE n == 1
             q == NoPoller
  <2>2. n \in Int /\ q \in Poller
    BY <2>1
  <2> HIDE DEF n, q
  <2>3. [q EXCEPT !.at = "load", !.polls = n] \in Poller
    BY <2>2 DEF Poller
  <2>4. QED BY <2>3 DEF n, q
<1>7. QED
  BY <1>1, <1>3, <1>4, <1>5, <1>6

\* The page is left for another.
LEMMA GoToLeaves ==
    ASSUME CreationInv, UNCHANGED world, subs' \subseteq subs, Grows,
           NEW w, NEW p, NEW ps, GoTo(w, p, ps), PollersOK(ps, tasks)
    PROVE  CreationInv'
<1>1. PollersOK(Abort(ps, p.poller), tasks)
  BY PollerAborted
<1>2. /\ pg' = FreshPage /\ inst' = inst + 1
      /\ pollers' = Abort(ps, p.poller) \/ pollers' = ps
  BY DEF GoTo
<1>3. PollersOK(pollers', tasks)
  BY <1>1, <1>2, Zenon
<1>4. PollersOK(pollers', tasks')
  BY <1>3, PollersGrow
<1>5. QED
  BY <1>2, <1>4, PageIsLeft

\* What the server does to its tasks.
LEMMA SameTasks ==
    ASSUME CreationInv, UNCHANGED tasks
    PROVE  Grows
BY DEF Grows, CreationInv

LEMMA TaskAdded ==
    ASSUME CreationInv, NEW k \in {"oneshot", "continuous"},
           tasks' = Append(tasks, [stage |-> "collecting", kind |-> k])
    PROVE  Grows /\ Len(tasks') = Len(tasks) + 1 /\ Len(tasks) \in Nat
<1> DEFINE x == [stage |-> "collecting", kind |-> k]
<1>1. x \in ServerTask /\ tasks \in Seq(ServerTask)
  BY DEF ServerTask, TaskStages, CreationInv
<1> HIDE DEF x
<1>2. tasks' = Append(tasks, x)
  BY DEF x
<1>3. /\ Append(tasks, x) \in Seq(ServerTask) /\ Len(Append(tasks, x)) = Len(tasks) + 1
      /\ Len(tasks) \in Nat
  BY <1>1
<1>4. tasks' \in Seq(ServerTask) /\ Len(tasks') = Len(tasks) + 1 /\ Len(tasks) \in Nat
  BY <1>2, <1>3
<1>5. QED
  BY <1>4 DEF Grows

LEMMA TaskStaged ==
    ASSUME CreationInv, NEW t \in 1 .. Len(tasks), NEW st \in TaskStages,
           tasks' = [tasks EXCEPT ![t].stage = st]
    PROVE  Grows /\ Len(tasks') = Len(tasks)
<1>1. tasks \in Seq(ServerTask) /\ tasks[t] \in ServerTask
  BY DEF CreationInv
<1> DEFINE x == [tasks[t] EXCEPT !.stage = st]
<1>2. x \in ServerTask
  BY <1>1 DEF ServerTask
<1>3. tasks' = [tasks EXCEPT ![t] = x]
  BY <1>1
<1> HIDE DEF x
<1>4. tasks' \in Seq(ServerTask) /\ Len(tasks') = Len(tasks)
  BY <1>1, <1>2, <1>3
<1>5. QED
  BY <1>4 DEF Grows

\* The steps of a poller.
LEMMA PollerAtWork ==
    ASSUME CreationInv, NEW t \in TaskIds, pollers[t].at \in {"load", "trigger", "wait"}
    PROVE  /\ pollers[t] \in Poller /\ t \in 1 .. Len(tasks) /\ tasks[t].stage \in TaskStages
           /\ PollersOK(pollers, tasks)
<1>1. pollers[t] \in Poller /\ t \in 1 .. Len(tasks) /\ PollersOK(pollers, tasks)
  BY DEF CreationInv, PollersOK
<1>2. tasks[t] \in ServerTask
  BY <1>1 DEF CreationInv
<1>3. tasks[t].stage \in TaskStages
  BY <1>2 DEF ServerTask
<1>4. QED BY <1>1, <1>3

LEMMA SetPollerStep ==
    ASSUME CreationInv, UNCHANGED world, NEW t \in 1 .. Len(tasks), NEW q \in Poller,
           SetPoller(t, q)
    PROVE  CreationInv'
<1>1. /\ UNCHANGED <<world, loc, inst, pg, subs, tasks>>
      /\ pollers' = [pollers EXCEPT ![t] = q]
  BY DEF SetPoller
<1>2. PollersOK(pollers, tasks) /\ PageOK(pg)
  BY DEF CreationInv
<1>3. PollersOK([pollers EXCEPT ![t] = q], tasks)
  BY <1>2, PollerSet
<1>4. PollersOK(pollers', tasks')
  BY <1>1, <1>3
<1>5. Grows
  BY <1>1, SameTasks
<1>6. PageOK(pg') /\ pg'.submitting = pg.submitting
  BY <1>1, <1>2
<1>7. QED
  BY <1>1, <1>4, <1>5, <1>6, SubsStay

LEMMA PollLoadedStep ==
    ASSUME CreationInv, UNCHANGED world, NEW t \in TaskIds, PollLoaded(t)
    PROVE  CreationInv'
<1> DEFINE p == pollers[t]
           stage == tasks[t].stage
<1>1. p.at = "load"
  BY DEF PollLoaded
<1>2. p \in Poller /\ t \in 1 .. Len(tasks) /\ stage \in TaskStages /\ PollersOK(pollers, tasks)
  BY <1>1, PollerAtWork
<1>3. /\ EndOfPoller(p) \in Poller /\ EndOfPoller(p).at = "ended" /\ Waiting(p) \in Poller
      /\ [p EXCEPT !.at = "trigger", !.triggered = TRUE] \in Poller
  BY <1>2, PollerStates
<1>4. CASE stage = "analysed"
  <2>1. GoTo("result", pg, [pollers EXCEPT ![t] = EndOfPoller(p)]) /\ UNCHANGED <<subs, tasks>>
    BY <1>4 DEF PollLoaded
  <2>2. PollersOK([pollers EXCEPT ![t] = EndOfPoller(p)], tasks)
    BY <1>2, <1>3, PollerSet
  <2>3. Grows
    BY <2>1, SameTasks
  <2>4. QED
    BY <2>1, <2>2, <2>3, GoToLeaves
<1>5. CASE stage # "analysed"
  <2>1. \/ SetPoller(t, EndOfPoller(p)) \/ SetPoller(t, Waiting(p))
        \/ SetPoller(t, [p EXCEPT !.at = "trigger", !.triggered = TRUE])
    <3>1. CASE stage = "failed"
      BY <3>1 DEF PollLoaded
    <3>2. CASE stage \in {"collecting", "analysing"}
      BY <3>2 DEF PollLoaded
    <3>3. CASE stage = "collected" /\ ~p.triggered
      BY <3>3 DEF PollLoaded
    <3>4. CASE stage = "collected" /\ p.triggered
      BY <3>4 DEF PollLoaded
    <3>5. QED BY <1>2, <1>5, <3>1, <3>2, <3>3, <3>4 DEF TaskStages
  <2>2. QED
    BY <1>2, <1>3, <2>1, SetPollerStep
<1>6. QED
  BY <1>4, <1>5

LEMMA PollTriggeredStep ==
    ASSUME CreationInv, UNCHANGED world, NEW t \in TaskIds, PollTriggered(t)
    PROVE  CreationInv'
<1> DEFINE p == pollers[t]
<1>1. p.at = "trigger"
  BY DEF PollTriggered
<1>2. p \in Poller /\ t \in 1 .. Len(tasks) /\ PollersOK(pollers, tasks)
  BY <1>1, PollerAtWork
<1>3. EndOfPoller(p) \in Poller /\ Waiting(p) \in Poller
  BY <1>2, PollerStates
<1>4. CASE tasks[t].stage = "collected"
  <2>1. /\ tasks' = [tasks EXCEPT ![t].stage = "analysing"]
        /\ pollers' = [pollers EXCEPT ![t] = Waiting(p)]
        /\ UNCHANGED <<loc, inst, pg, subs>>
    BY <1>4 DEF PollTriggered
  <2>2. Grows
    BY <1>2, <2>1, TaskStaged DEF TaskStages
  <2>3. PollersOK([pollers EXCEPT ![t] = Waiting(p)], tasks)
    BY <1>2, <1>3, PollerSet
  <2>4. PollersOK([pollers EXCEPT ![t] = Waiting(p)], tasks')
    BY <2>2, <2>3, PollersGrow
  <2>5. PollersOK(pollers', tasks')
    BY <2>1, <2>4
  <2>6. PageOK(pg') /\ pg'.submitting = pg.submitting
    BY <2>1 DEF CreationInv
  <2>7. QED
    BY <2>1, <2>2, <2>5, <2>6, SubsStay
<1>5. CASE tasks[t].stage # "collected"
  <2>1. SetPoller(t, EndOfPoller(p))
    BY <1>5 DEF PollTriggered
  <2>2. QED
    BY <1>2, <1>3, <2>1, SetPollerStep
<1>6. QED
  BY <1>4, <1>5

LEMMA PollEndsStep ==
    ASSUME CreationInv, UNCHANGED world, NEW t \in TaskIds, PollWaited(t) \/ PollFails(t)
    PROVE  CreationInv'
<1> DEFINE p == pollers[t]
<1>1. p.at \in {"load", "trigger", "wait"}
  BY DEF PollWaited, PollFails
<1>2. p \in Poller /\ t \in 1 .. Len(tasks)
  BY <1>1, PollerAtWork
<1>3. EndOfPoller(p) \in Poller /\ [p EXCEPT !.at = "load", !.polls = @ + 1] \in Poller
  BY <1>2, PollerStates
<1>4. SetPoller(t, EndOfPoller(p)) \/ SetPoller(t, [p EXCEPT !.at = "load", !.polls = @ + 1])
  BY Zenon DEF PollWaited, PollFails
<1>5. QED
  BY <1>2, <1>3, <1>4, SetPollerStep

LEMMA TaskMovesStep ==
    ASSUME CreationInv, UNCHANGED world, NEW t \in 1 .. Len(tasks), TaskMoves(t)
    PROVE  CreationInv'
<1>1. /\ UNCHANGED <<loc, inst, pg, subs, pollers>>
      /\ \E st \in TaskStages : tasks' = [tasks EXCEPT ![t].stage = st]
  BY DEF TaskMoves, TaskStages
<1>2. Grows
  BY <1>1, TaskStaged
<1>3. PollersOK(pollers, tasks) /\ PageOK(pg)
  BY DEF CreationInv
<1>4. PollersOK(pollers', tasks')
  BY <1>1, <1>2, <1>3, PollersGrow
<1>5. PageOK(pg') /\ pg'.submitting = pg.submitting
  BY <1>1, <1>3
<1>6. QED
  BY <1>1, <1>2, <1>4, <1>5, SubsStay

\* The dialog, by users.
LEMMA FormStep ==
    ASSUME CreationInv, UNCHANGED <<world, loc, inst, subs, tasks, pollers>>,
           PageOK(pg'), pg'.submitting = pg.submitting
    PROVE  CreationInv'
<1>1. Grows
  BY SameTasks
<1>2. PollersOK(pollers', tasks')
  BY DEF CreationInv
<1>3. QED
  BY <1>1, <1>2, SubsStay

LEMMA DialogStep ==
    ASSUME CreationInv, UNCHANGED world,
           \/ OpenModal \/ CancelModal \/ AgentsArrive
           \/ \E m \in world.modes : SwitchMode(m)
           \/ \E type \in world.types : ChooseType(type)
           \/ \E f \in world.fields, x \in world.typed : TypeNumber(f, x)
           \/ \E event \in {"io", "sched"} : ChooseEvent(event)
    PROVE  CreationInv'
<1>1. /\ PageOK(pg) /\ world.modes \subseteq Modes /\ world.fields \subseteq Fields
      /\ world.types \subseteq Int /\ world.typed \subseteq Int
  BY WorldsAssumption DEF CreationInv
<1>2. PageShape(pg) /\ CollectorFits(pg.type, pg.profiler, pg.event) /\ Limited(pg.num)
  BY <1>1 DEF PageOK
<1> DEFINE Same(p) ==
              /\ PageShape(p) /\ p.submitting = pg.submitting /\ p.num = pg.num
              /\ p.type = pg.type /\ p.profiler = pg.profiler /\ p.event = pg.event
<1>3. ASSUME Same(pg'), UNCHANGED <<loc, inst, subs, tasks, pollers>>
      PROVE  CreationInv'
  <2>1. PageOK(pg') /\ pg'.submitting = pg.submitting
    BY <1>2, <1>3, Zenon DEF PageOK
  <2>2. QED
    BY <1>3, <2>1, FormStep
<1>4. CASE OpenModal
  <2>1. /\ UNCHANGED <<loc, inst, subs, tasks, pollers>>
        /\ pg' = pg \/ pg' = [pg EXCEPT !.open = TRUE, !.dialog = NewDialog]
    BY <1>4 DEF OpenModal, Opened
  <2>2. ASSUME NEW d PROVE Same([pg EXCEPT !.open = TRUE, !.dialog = d])
    BY <1>2 DEF PageShape
  <2>3. Same(pg')
    BY <1>2, <2>1, <2>2
  <2>4. QED
    BY <1>3, <2>1, <2>3
<1>5. CASE CancelModal
  <2>1. /\ UNCHANGED <<loc, inst, subs, tasks, pollers>>
        /\ pg' = [pg EXCEPT !.open = FALSE, !.dialog = 0, !.nlSubmitting = FALSE]
    BY <1>5 DEF CancelModal
  <2>2. Same(pg')
    BY <1>2, <2>1 DEF PageShape
  <2>3. QED
    BY <1>3, <2>1, <2>2
<1>6. CASE AgentsArrive
  <2>1. /\ UNCHANGED <<loc, inst, subs, tasks, pollers>>
        /\ pg' = [pg EXCEPT !.agents = TRUE]
    BY <1>6 DEF AgentsArrive
  <2>2. Same(pg')
    BY <1>2, <2>1 DEF PageShape
  <2>3. QED
    BY <1>3, <2>1, <2>2
<1>7. ASSUME NEW m \in Modes, SwitchMode(m) PROVE CreationInv'
  <2>1. UNCHANGED <<loc, inst, subs, tasks, pollers>> /\ pg' = [pg EXCEPT !.mode = m]
    BY <1>7 DEF SwitchMode
  <2>2. Same(pg')
    BY <1>2, <1>7, <2>1 DEF PageShape
  <2>3. QED
    BY <1>3, <2>1, <2>2
<1>8. ASSUME NEW type \in Int, ChooseType(type) PROVE CreationInv'
  <2>1. /\ UNCHANGED <<loc, inst, subs, tasks, pollers>>
        /\ pg' = [pg EXCEPT !.type = type, !.profiler = ProfilerFor(type),
                            !.event = EventFor(type, @)]
    BY <1>8 DEF ChooseType
  <2>2. PageOK(pg') /\ pg'.submitting = pg.submitting
    BY <1>1, <1>8, <2>1, ChosenType
  <2>3. QED
    BY <2>1, <2>2, FormStep
<1>9. ASSUME NEW f \in Fields, NEW x \in Int, TypeNumber(f, x) PROVE CreationInv'
  <2>1. /\ UNCHANGED <<loc, inst, subs, tasks, pollers>>
        /\ pg' = [pg EXCEPT !.num[f] = Clamped(f, x)]
    BY <1>9 DEF TypeNumber
  <2>2. PageOK(pg') /\ pg'.submitting = pg.submitting
    BY <1>1, <1>9, <2>1, TypedNumber
  <2>3. QED
    BY <2>1, <2>2, FormStep
<1>10. ASSUME NEW event \in {"io", "sched"}, ChooseEvent(event) PROVE CreationInv'
  <2>1. /\ UNCHANGED <<loc, inst, subs, tasks, pollers>>
        /\ pg' = [pg EXCEPT !.event = event] /\ pg.type = 6
    BY <1>10 DEF ChooseEvent
  <2>2. PageOK(pg') /\ pg'.submitting = pg.submitting
    BY <1>1, <1>10, <2>1, ChosenEvent
  <2>3. QED
    BY <2>1, <2>2, FormStep
<1>11. QED
  BY <1>1, <1>4, <1>5, <1>6, <1>7, <1>8, <1>9, <1>10

\* A submission begins: the page's flag was down.
LEMMA SubmitStep ==
    ASSUME CreationInv, UNCHANGED world, NEW plan \in BOOLEAN, Submit(plan)
    PROVE  CreationInv'
<1> DEFINE mode == pg.mode
           num == pg.num
           new == [inst |-> inst, from |-> loc, kind |-> mode, at |-> "create", tid |-> 0,
                   plan |-> plan, dialog |-> pg.dialog, sent |-> Payload(mode, num),
                   shown |-> ShownChoice(pg.type, pg.event),
                   runs |-> CreateProfiler(pg.profiler, pg.event)]
<1>1. /\ PageOK(pg) /\ inst \in Nat /\ PollersOK(pollers, tasks)
      /\ UNCHANGED <<loc, inst, tasks, pollers>> /\ subs' = subs \cup {new}
      /\ CanSubmit
      /\ pg' = IF mode = "natural" THEN [pg EXCEPT !.nlSubmitting = TRUE]
               ELSE [pg EXCEPT !.submitting = TRUE]
  BY DEF CreationInv, Submit
<1>2. PageShape(pg) /\ CollectorFits(pg.type, pg.profiler, pg.event) /\ Limited(num)
  BY <1>1 DEF PageOK
<1>3. pg.type \in Int /\ pg.event \in Events /\ mode \in Modes /\ num \in [Fields -> Int]
  BY <1>2 DEF PageShape
<1>4. ShownChoice(pg.type, pg.event) = CreateProfiler(pg.profiler, pg.event)
  BY <1>2, <1>3, ShownRuns
<1>5. /\ ~pg.submitting
      /\ mode # "natural" => InRange("pid", num["pid"]) /\ InRange("hz", Or(num["hz"], 1))
      /\ mode = "oneshot" => InRange("duration", num["duration"])
  BY <1>1, Zenon DEF CanSubmit, Busy
<1>6. \A f \in DOMAIN Payload(mode, num) : InRange(f, Payload(mode, num)[f])
  BY <1>2, <1>3, <1>5, SentIsInRange
<1>7. SubOK(new) /\ new.inst = inst /\ new.at = "create" /\ new.kind = mode
  <2> DEFINE sent == Payload(mode, num)
             shown == ShownChoice(pg.type, pg.event)
             runs == CreateProfiler(pg.profiler, pg.event)
             d == pg.dialog
             k == mode
  <2>1. /\ shown = runs /\ (\A f \in DOMAIN sent : InRange(f, sent[f])) /\ k \in Modes
        /\ new = [inst |-> inst, from |-> loc, kind |-> k, at |-> "create", tid |-> 0,
                  plan |-> plan, dialog |-> d, sent |-> sent, shown |-> shown, runs |-> runs]
    BY <1>3, <1>4, <1>6
  <2> HIDE DEF sent, shown, runs, d, k, new
  <2>2. /\ new.kind = k /\ new.inst = inst /\ new.at = "create" /\ new.sent = sent
        /\ new.shown = shown /\ new.runs = runs
        /\ new \in [inst : Nat, from : {new.from}, kind : Modes, at : {"create", "refresh"},
                    tid : Nat, plan : BOOLEAN, dialog : {new.dialog}, sent : {new.sent},
                    shown : {new.shown}, runs : {new.runs}]
    BY <1>1, <2>1
  <2>3. QED
    BY <2>1, <2>2 DEF SubOK, k
<1>8. /\ PageOK(pg') /\ (mode = "natural" => pg'.submitting = pg.submitting)
      /\ mode # "natural" => pg'.submitting = TRUE
  <2> DEFINE q == [pg EXCEPT !.nlSubmitting = TRUE]
             r == [pg EXCEPT !.submitting = TRUE]
  <2>1. /\ PageShape(q) /\ q.submitting = pg.submitting /\ q.num = pg.num
        /\ q.type = pg.type /\ q.profiler = pg.profiler /\ q.event = pg.event
    BY <1>2 DEF PageShape
  <2>2. /\ PageShape(r) /\ r.submitting = TRUE /\ r.num = pg.num
        /\ r.type = pg.type /\ r.profiler = pg.profiler /\ r.event = pg.event
    BY <1>2 DEF PageShape
  <2>3. pg' = IF mode = "natural" THEN q ELSE r
    BY <1>1
  <2> HIDE DEF q, r
  <2>4. PageOK(q) /\ PageOK(r)
    BY <1>2, <2>1, <2>2, Zenon DEF PageOK
  <2>5. QED
    BY <2>1, <2>2, <2>3, <2>4
<1> HIDE DEF new, mode, num
<1>9. \A s : Mine(s)' <=> Mine(s)
  BY <1>1 DEF Mine, Mounted
<1>10. Mine(new) <=> loc \in Forms /\ mode # "natural"
  BY <1>7 DEF Mine, Mounted
<1>11. loc \in Forms => ~\E s \in subs : Mine(s)
  BY <1>5 DEF CreationInv
<1>12. \A s : Mine(s) => loc \in Forms
  BY DEF Mine, Mounted
<1>13. \A s, u \in subs' : Mine(s)' /\ Mine(u)' => s = u
  BY <1>1, <1>9, <1>11, <1>12, Zenon
<1>14. loc' \in Forms => (pg'.submitting <=> \E s \in subs' : Mine(s)')
  BY <1>1, <1>5, <1>8, <1>9, <1>10, <1>11
<1>15. \A s \in subs' : /\ SubOK(s) /\ s.inst \in 0 .. inst'
                        /\ s.at = "refresh" => s.tid \in 1 .. Len(tasks')
  BY <1>1, <1>7 DEF CreationInv
<1>16. /\ world' \in Worlds /\ inst' \in Nat
       /\ tasks' \in Seq(ServerTask) /\ PollersOK(pollers', tasks')
  BY <1>1 DEF CreationInv
<1>17. QED
  BY <1>8, <1>13, <1>14, <1>15, <1>16, CreationParts

\* A submission ends without a page being left.
LEMMA SubmissionEndsStep ==
    ASSUME CreationInv, UNCHANGED world, NEW s \in subs,
           NotCreated(s) \/ AnswerLost(s) \/ RefreshFails(s)
    PROVE  CreationInv'
<1>1. CASE NotCreated(s)
  <2>1. subs' = subs \ {s} /\ Stay(Ended(s, pg)) /\ UNCHANGED tasks
    BY <1>1 DEF NotCreated
  <2>2. Grows
    BY <2>1, SameTasks
  <2>3. QED BY <2>1, <2>2, SubmissionEnds
<1>2. CASE AnswerLost(s)
  <2>1. /\ subs' = subs \ {s} /\ Stay(Ended(s, pg))
        /\ tasks' = Append(tasks, [stage |-> "collecting", kind |-> "oneshot"])
    BY <1>2 DEF AnswerLost
  <2>2. Grows
    BY <2>1, TaskAdded
  <2>3. QED BY <2>1, <2>2, SubmissionEnds
<1>3. CASE RefreshFails(s)
  <2>1. /\ subs' = subs \ {s} /\ Stay(Ended(s, pg))
        /\ UNCHANGED tasks
    BY <1>3 DEF RefreshFails
  <2>2. Grows
    BY <2>1, SameTasks
  <2>3. QED BY <2>1, <2>2, SubmissionEnds
<1>4. QED
  BY <1>1, <1>2, <1>3

\* A submission of a one-shot task goes on after its task was created: its page
\* closes the dialog, and TaskList resets the form.
LEMMA ClosedPage ==
    ASSUME NEW p, PageOK(p), NEW s, NEW q, q = Closed(s, p)
    PROVE  PageOK(q) /\ q.submitting = p.submitting
<1> DEFINE r == [p EXCEPT !.open = FALSE, !.dialog = 0, !.nlSubmitting = FALSE]
<1>1. PageShape(p) /\ CollectorFits(p.type, p.profiler, p.event) /\ Limited(p.num)
  BY DEF PageOK
<1>2. /\ PageShape(r) /\ r.submitting = p.submitting /\ r.num = p.num
      /\ r.type = p.type /\ r.profiler = p.profiler /\ r.event = p.event
  BY <1>1 DEF PageShape
<1>3. q = r \/ q = p
  BY DEF Closed
<1> HIDE DEF r
<1>4. PageOK(r)
  BY <1>1, <1>2, Zenon DEF PageOK
<1>5. QED
  BY <1>2, <1>3, <1>4

LEMMA ResetPage ==
    ASSUME NEW p, PageOK(p), NEW s, NEW q, q = ResetForm(s, p)
    PROVE  PageOK(q) /\ q.submitting = p.submitting
<1> DEFINE d == DefaultNum
           m == p.num
           x == m["chz"]
           y == m["window"]
           n == [d EXCEPT !["chz"] = x, !["window"] = y]
           e == "cpu-cycles"
           z == 0
           r == [p EXCEPT !.type = z, !.profiler = z, !.event = e, !.num = n]
<1>1. PageShape(p) /\ Limited(m)
  BY DEF PageOK
<1>2. m \in [Fields -> Int] /\ "chz" \in Fields /\ "window" \in Fields
  BY <1>1 DEF PageShape, Fields
<1>3. d \in [Fields -> Int]
  BY DefaultNumbers
<1>4. q = r \/ q = p
  BY DEF ResetForm
<1> HIDE DEF d, m
<1>5. x \in Int /\ y \in Int /\ x \in RateTyped /\ y \in WindowTyped
  BY <1>1, <1>2 DEF Limited
<1> HIDE DEF x, y
<1>6. n \in [Fields -> Int] /\ n["chz"] = x /\ n["window"] = y
  BY <1>2, <1>3, <1>5
<1> HIDE DEF n
<1>7. Limited(n)
  BY <1>5, <1>6, Zenon DEF Limited
<1>8. z \in Int /\ e \in Events /\ CollectorFits(z, z, e)
  BY DEF Events, CollectorFits, ProfilerFor
<1> HIDE DEF z, e
<1>9. /\ PageShape(r) /\ r.submitting = p.submitting /\ r.num = n
      /\ r.type = z /\ r.profiler = z /\ r.event = e
  BY <1>1, <1>6, <1>8 DEF PageShape
<1> HIDE DEF r
<1>10. PageOK(r)
  BY <1>7, <1>8, <1>9, Zenon DEF PageOK
<1>11. QED
  BY <1>4, <1>9, <1>10

LEMMA CreatedStep ==
    ASSUME CreationInv, UNCHANGED world, NEW s \in subs, Created(s)
    PROVE  CreationInv'
<1> DEFINE t == Len(tasks) + 1
<1>1. SubOK(s) /\ s.inst \in 0 .. inst /\ PageOK(pg) /\ PollersOK(pollers, tasks)
  BY DEF CreationInv
<1>2. s.kind \in Modes
  BY <1>1 DEF SubOK
<1>3. PICK kind \in {"oneshot", "continuous"} :
        /\ tasks' = Append(tasks, [stage |-> "collecting", kind |-> kind])
        /\ IF s.kind = "oneshot"
           THEN /\ subs' = (subs \ {s}) \cup {[s EXCEPT !.at = "refresh", !.tid = t]}
                /\ Stay(Closed(s, IF s.from = "home" THEN pg ELSE ResetForm(s, pg)))
           ELSE /\ subs' = subs \ {s}
                /\ GoTo(IF kind = "oneshot" THEN "result" ELSE "timeline", pg, pollers)
  BY <1>2, Zenon DEF Created, Modes
<1>4. Grows /\ Len(tasks') = t /\ Len(tasks) \in Nat
  BY <1>3, TaskAdded
<1>5. CASE s.kind # "oneshot"
  <2>1. subs' \subseteq subs
    BY <1>3, <1>5
  <2>2. GoTo(IF kind = "oneshot" THEN "result" ELSE "timeline", pg, pollers)
    BY <1>3, <1>5
  <2>3. QED
    BY <1>1, <1>4, <2>1, <2>2, GoToLeaves
<1>6. CASE s.kind = "oneshot"
  <2> DEFINE v == [s EXCEPT !.at = "refresh", !.tid = t]
             p == IF s.from = "home" THEN pg ELSE ResetForm(s, pg)
  <2>1. subs' = (subs \ {s}) \cup {v} /\ pg' = Closed(s, p) /\ UNCHANGED <<loc, inst, pollers>>
    BY <1>3, <1>6 DEF Stay
  <2>2. PageOK(p) /\ p.submitting = pg.submitting
    BY <1>1, ResetPage
  <2> HIDE DEF p
  <2>3. PageOK(pg') /\ pg'.submitting = pg.submitting
    BY <2>1, <2>2, ClosedPage
  <2>4. SubOK(v) /\ v.inst = s.inst /\ v.kind = s.kind /\ v.tid = t
    <3>1. t \in Nat
      BY <1>4
    <3> HIDE DEF t
    <3>2. QED
      BY <1>1, <3>1 DEF SubOK
  <2> HIDE DEF v
  <2>5. PollersOK(pollers', tasks')
    BY <1>1, <1>4, <2>1, PollersGrow
  <2>6. \A u : Mine(u)' <=> Mine(u)
    BY <2>1 DEF Mine, Mounted
  <2>7. Mine(v) <=> Mine(s)
    BY <2>4 DEF Mine, Mounted
  <2>8. \A u, w \in subs' : Mine(u)' /\ Mine(w)' => u = w
    <3>1. \A u, w \in subs : Mine(u) /\ Mine(w) => u = w
      BY DEF CreationInv
    <3>2. QED
      BY <2>1, <2>6, <2>7, <3>1, Zenon
  <2>9. loc' \in Forms => (pg'.submitting <=> \E u \in subs' : Mine(u)')
    <3>1. loc \in Forms => (pg.submitting <=> \E u \in subs : Mine(u))
      BY DEF CreationInv
    <3>2. (\E u \in subs : Mine(u)) <=> (\E u \in subs' : Mine(u))
      BY <2>1, <2>7, Zenon
    <3>3. QED
      BY <2>1, <2>3, <2>6, <3>1, <3>2
  <2>10. \A u \in subs' : /\ SubOK(u) /\ u.inst \in 0 .. inst'
                          /\ u.at = "refresh" => u.tid \in 1 .. Len(tasks')
    <3>1. \A u \in subs : /\ SubOK(u) /\ u.inst \in 0 .. inst'
                          /\ u.at = "refresh" => u.tid \in 1 .. Len(tasks')
      BY <1>4, <2>1 DEF CreationInv, Grows
    <3>2. SubOK(v) /\ v.inst \in 0 .. inst' /\ v.tid \in 1 .. Len(tasks')
      BY <1>1, <1>4, <2>1, <2>4
    <3>3. QED
      BY <2>1, <3>1, <3>2, Zenon
  <2>11. /\ world' \in Worlds /\ inst' \in Nat
         /\ tasks' \in Seq(ServerTask)
    BY <1>4, <2>1 DEF CreationInv, Grows
  <2>12. QED
    BY <2>3, <2>5, <2>8, <2>9, <2>10, <2>11, CreationParts
<1>7. QED
  BY <1>5, <1>6

LEMMA LeavingStep ==
    ASSUME CreationInv, UNCHANGED world,
           (\E s \in subs : Refreshed(s)) \/ (\E where \in Forms : Visit(where))
    PROVE  CreationInv'
<1>1. PollersOK(pollers, tasks)
  BY DEF CreationInv
<1>2. ASSUME NEW s \in subs, Refreshed(s) PROVE CreationInv'
  <2> DEFINE q == [NoPoller EXCEPT !.at = "load", !.polls = 1]
             started == [pollers EXCEPT ![s.tid] = q]
             p == IF Mounted(s) THEN [pg EXCEPT !.poller = s.tid] ELSE pg
  <2>1. /\ s.at = "refresh" /\ subs' = subs \ {s} /\ GoTo("result", p, started)
        /\ UNCHANGED tasks
    BY <1>2 DEF Refreshed
  <2>2. s.tid \in 1 .. Len(tasks)
    BY <2>1 DEF CreationInv
  <2>3. q \in Poller
    <3>1. NoPoller \in Poller
      BY DEF NoPoller, Poller
    <3>2. QED BY <3>1, PollerStates
  <2>4. PollersOK(started, tasks)
    <3> HIDE DEF q
    <3>1. QED BY <1>1, <2>2, <2>3, PollerSet
  <2>5. Grows
    BY <2>1, SameTasks
  <2> HIDE DEF started, p
  <2>6. QED
    BY <2>1, <2>4, <2>5, GoToLeaves
<1>3. ASSUME NEW where, Visit(where) PROVE CreationInv'
  <2>1. GoTo(where, pg, pollers) /\ UNCHANGED <<subs, tasks>>
    BY <1>3 DEF Visit
  <2>2. Grows
    BY <2>1, SameTasks
  <2>3. QED
    BY <1>1, <2>1, <2>2, GoToLeaves
<1>4. QED
  BY <1>2, <1>3

LEMMA NextCreationInv == CreationInv /\ [Next]_wvars => CreationInv'
<1> SUFFICES ASSUME CreationInv, [Next]_wvars PROVE CreationInv'
  OBVIOUS
<1>1. CASE CreationNext
  <2>0. UNCHANGED world
    BY <1>1 DEF CreationNext
  <2>1. CASE \E plan \in BOOLEAN : Submit(plan)
    BY <2>0, <2>1, SubmitStep
  <2>2. CASE \E s \in subs : NotCreated(s) \/ AnswerLost(s) \/ RefreshFails(s)
    BY <2>0, <2>2, SubmissionEndsStep
  <2>3. CASE \E s \in subs : Created(s)
    BY <2>0, <2>3, CreatedStep
  <2>4. CASE PollStep
    BY <2>0, <2>4, PollLoadedStep, PollTriggeredStep, PollEndsStep, Zenon DEF PollStep
  <2>5. CASE \E t \in TaskIds : PollFails(t)
    BY <2>0, <2>5, PollEndsStep
  <2>6. CASE \E t \in 1 .. Len(tasks) : TaskMoves(t)
    BY <2>0, <2>6, TaskMovesStep
  <2>7. QED
    BY <1>1, <2>0, <2>1, <2>2, <2>3, <2>4, <2>5, <2>6, DialogStep, LeavingStep, Zenon
       DEF CreationNext
<1>2. CASE UNCHANGED <<loc, inst, pg, subs, tasks, pollers>> /\ UNCHANGED world
  <2>1. PageOK(pg') /\ pg'.submitting = pg.submitting
    BY <1>2 DEF CreationInv
  <2>2. QED
    BY <1>2, <2>1, FormStep
<1>3. UNCHANGED cvars => UNCHANGED <<loc, inst, pg, subs, tasks, pollers>>
  BY DEF cvars
<1>4. QED
  BY <1>1, <1>2, <1>3
     DEF Next, wvars, ResultPage, CreationPages, Timeline, FlamePages, SessionOfTab, Groups,
         Lists, Settings, ResultNext, TimelineNext, FlameNext, SessionNext,
         GroupsNext, ListNext, SettingsNext

LEMMA CreationInitInv == Init => CreationInv
<1> SUFFICES ASSUME CreationInit, world \in Worlds PROVE CreationInv
  BY DEF Init
<1>1. /\ inst = 1 /\ pg = FreshPage /\ subs = {} /\ tasks = <<>>
      /\ pollers = [t \in TaskIds |-> NoPoller]
  BY DEF CreationInit
<1>2. PageOK(pg) /\ pg.submitting = FALSE
  BY <1>1, FreshPageOK
<1>3. NoPoller \in Poller /\ NoPoller.at = "none"
  BY DEF NoPoller, Poller
<1> DEFINE q == NoPoller
<1>4. q \in Poller /\ q.at = "none" /\ pollers = [t \in TaskIds |-> q]
  BY <1>1, <1>3
<1> HIDE DEF q
<1>5. PollersOK(pollers, tasks)
  BY <1>4 DEF PollersOK
<1>6. inst \in Nat /\ tasks \in Seq(ServerTask)
  BY <1>1
<1>7. QED
  BY <1>1, <1>2, <1>5, <1>6, Zenon DEF CreationInv

\* Whatever is selected, typed, closed, left and lost, what is submitted is what
\* the form showed, within its limits and once for a page, and the user is told
\* the truth about it (Home.tsx, TaskList.tsx, CreateTaskModal.tsx).
THEOREM SubmissionsTellTheTruth == Spec => []SubmissionsAreTrue
  BY CreationInvIsTrue, CreationInitInv, NextCreationInv, PTL DEF Spec

-----------------------------------------------------------------------------
(* The pages once their requests are over.                                 *)

\* Once the requests of a page are over and none has failed, the page shows what
\* the server holds, however its requests overlapped and whatever it changed in
\* the meantime: the panels of an analysed task, the groups and their members, the
\* lists of tasks, schedules and agents, and the settings (TaskResult.tsx,
\* Groups.tsx, TaskList.tsx, ScheduleTasksPanel.tsx, Agents.tsx, AgentDetail.tsx,
\* Settings.tsx).
THEOREM SettledPagesAgreeAlways == Spec => []SettledPagesAgree
<1> DEFINE Inv == /\ ResultInv /\ CompleteInv /\ GroupsInv /\ TeamInv
                  /\ ListsInv /\ ShownInv /\ SettingsInv /\ FormInv
<1>1. Init => Inv
  BY ResultInitInv, CompleteInitInv, GroupsInitInv, TeamInitInv, ListsInitInv, ShownInitInv,
     SettingsInitInv, FormInitInv
<1>2. Inv /\ [Next]_wvars => Inv'
  BY NextResultInv, NextCompleteInv, NextGroupsInv, NextTeamInv, NextListsInv, NextShownInv,
     NextSettingsInv, NextFormInv
<1>3. Inv => SettledPagesAgree
  BY CompleteIsSettled, TeamIsSettled, ShownIsSettled, FormIsSettled DEF SettledPagesAgree
<1>4. QED
  BY <1>1, <1>2, <1>3, PTL DEF Spec

=============================================================================
