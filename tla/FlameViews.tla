------------------------------ MODULE FlameViews ------------------------------
(* Flame graphs in the web console: the trees that FlameGraph.tsx and       *)
(* FlameDiff.tsx hand to d3-flame-graph, the component that draws one at    *)
(* the size of its container, and the page that compares two tasks.  A tree *)
(* is a function from its nodes, the paths from the root, to their value.   *)
EXTENDS WebWorld, Integers, Sequences, SequencesExt, FiniteSetsExt

CONSTANTS
    Frames,       \* function names
    MaxLines,     \* bound: lines of a collapsed text
    MaxCount,     \* bound: the samples of a line; 0 stands for no valid count
    MaxDiffs      \* bound: comparisons under way at once

VARIABLES
    ftext,        \* the collapsed text the component was given, <<>> for none
    fbase,        \* the text of the base task of a comparison
    fwidth,       \* width of the container
    fheight,      \* height of the browser window
    full,         \* isFullscreen
    term,         \* searchTerm
    hnow,         \* chartHeight of the last render, 0 when not full screen
    chart,        \* the chart drawn: its data, its size and what it highlights
    ftimer,       \* the timer of the resize handler is running
    dtid,         \* tid1 and tid2 of the comparison
    diffs,        \* comparisons under way
    dres,         \* the pair whose result is shown, <<>> for none
    dloading,     \* loading
    touched       \* history: the pair was changed while a comparison was out

fvars == <<ftext, fbase, fwidth, fheight, full, term, hnow, chart, ftimer,
           dtid, diffs, dres, dloading, touched>>

-----------------------------------------------------------------------------
(* Trees.                                                                   *)

Stacks == {<<f>> : f \in Frames} \cup (Frames \X Frames)
Lines == [stack : Stacks, n : 0 .. MaxCount]
Texts == SeqOf(Lines, MaxLines)

Callers(stack) == {SubSeq(stack, 1, k) : k \in 1 .. Len(stack)}
IsChild(p, c) == Len(c) = Len(p) + 1 /\ IsPrefix(p, c)
ValueAt(tree, p) == IF p \in DOMAIN tree THEN tree[p] ELSE 0

\* One line of the loop: missing nodes are added, the last one gets the samples.
AddLine(tree, line) ==
    IF line.n = 0 THEN tree
    ELSE [p \in DOMAIN tree \cup Callers(line.stack) |->
             ValueAt(tree, p) + IF p = line.stack THEN line.n ELSE 0]

ParseCollapsedToTree(text) == FoldLeft(AddLine, [p \in {<<>>} |-> 0], text)

\* d3-flame-graph in selfValue mode: the width of a node is its value and the
\* widths of its children.
Widths(tree) ==
    LET w[p \in DOMAIN tree] ==
            tree[p] + MapThenSumSet(LAMBDA c : w[c],
                                    {c \in DOMAIN tree : IsChild(p, c)})
    IN  w

\* buildDiffTree of the server: base and current samples per stack, the totals
\* of the subtrees, and the nodes that are left after pruning.
SelfDelta(base, curr) ==
    LET b == ParseCollapsedToTree(base)
        c == ParseCollapsedToTree(curr)
    IN  [p \in DOMAIN b \cup DOMAIN c |-> ValueAt(c, p) - ValueAt(b, p)]

\* Mutant: a subtree whose changes add up to nothing is pruned.
PruneByTotal(self) ==
    {p \in DOMAIN self : Widths(self)[p] # 0}

PruneZeroDeltaNodes(self) ==
    LET total == Widths(self)
    IN  {p \in DOMAIN self : \E q \in DOMAIN self : IsPrefix(p, q) /\ total[q] # 0}

\* transformNode of FlameDiff.tsx: a node is as wide as its own change.
TransformTree(self, kept) ==
    [p \in kept |-> IF self[p] < 0 THEN 0 - self[p] ELSE self[p]]

-----------------------------------------------------------------------------
(* The component that draws a tree.                                         *)

NoChart == [on |-> FALSE, text |-> <<>>, w |-> 0, h |-> 0, mark |-> ""]

HasRoot(text) == \E i \in 1 .. Len(text) : text[i].n > 0

\* renderChart: a new chart at the container's width, without highlights.
RenderChart(text, h) ==
    IF HasRoot(text)
    THEN [on |-> TRUE, text |-> text, w |-> fwidth, h |-> h, mark |-> ""]
    ELSE NoChart

\* A render of the component: a new tree or a new height draws again, and takes
\* the timer of the resize handler down; then a new term is searched.
Rendered(text, isFull, t) ==
    LET h == IF isFull THEN fheight ELSE 0
        redraw == text # ftext \/ h # hnow
        drawn == IF redraw THEN RenderChart(text, h) ELSE chart
    IN  /\ ftext' = text /\ full' = isFull /\ term' = t /\ hnow' = h
        /\ chart' = IF t # term /\ drawn.on THEN [drawn EXCEPT !.mark = t]
                    ELSE drawn
        /\ ftimer' = (ftimer /\ h = hnow)
        /\ UNCHANGED <<fbase, fwidth, fheight, dtid, diffs, dres, dloading, touched>>

NewData(text) == text # ftext /\ Rendered(text, full, term)
FullscreenChange == Rendered(ftext, ~full, term)
Search(t) == t # term /\ Rendered(ftext, full, t)

\* Mutant: the resize handler only waits for the first event.
WindowResizesOnce(w, h) ==
    /\ <<w, h>> # <<fwidth, fheight>>
    /\ fwidth' = w /\ fheight' = h
    /\ ftimer' = (~ftimer /\ chart.on)
    /\ UNCHANGED <<ftext, fbase, full, term, hnow, chart, dtid, diffs, dres,
                   dloading, touched>>

\* The browser window changes size: the timer starts over.
WindowResizes(w, h) ==
    /\ <<w, h>> # <<fwidth, fheight>>
    /\ fwidth' = w /\ fheight' = h
    /\ ftimer' = TRUE
    /\ UNCHANGED <<ftext, fbase, full, term, hnow, chart, dtid, diffs, dres,
                   dloading, touched>>

ResizeTimer ==
    /\ ftimer
    /\ ftimer' = FALSE
    /\ UNCHANGED fwidth
    /\ chart' = RenderChart(ftext, hnow)
    /\ UNCHANGED <<ftext, fbase, fheight, full, term, hnow, dtid, diffs, dres,
                   dloading, touched>>

-----------------------------------------------------------------------------
(* The page that compares two tasks.                                        *)

KeepChart == UNCHANGED <<ftext, fbase, fwidth, fheight, full, term, hnow, chart,
                         ftimer>>

\* An input, a suggestion or the swap button changes the pair.
ChangePair(pair) ==
    /\ pair # dtid
    /\ dtid' = pair
    /\ dres' = <<>>
    /\ touched' = (touched \/ diffs # <<>>)
    /\ UNCHANGED <<diffs, dloading>> /\ KeepChart

\* The button, or Enter in an input, which also works while one is under way.
DoDiff ==
    /\ dtid[1] # "" /\ dtid[2] # "" /\ dtid[1] # dtid[2]
    /\ Len(diffs) < MaxDiffs
    /\ diffs' = Append(diffs, dtid)
    /\ dloading' = TRUE /\ dres' = <<>>
    /\ UNCHANGED <<dtid, touched>> /\ KeepChart

DiffAnswered(i, ok) ==
    /\ dres' = IF ok THEN diffs[i] ELSE dres
    /\ diffs' = RemoveAt(diffs, i)
    /\ dloading' = FALSE
    /\ UNCHANGED <<dtid, touched>> /\ KeepChart

-----------------------------------------------------------------------------

\* Of a comparison only the two texts matter to the trees.
FlameInit ==
    /\ IF world.page = "trees" THEN ftext \in Texts /\ fbase \in Texts
       ELSE ftext = <<>> /\ fbase = <<>>
    /\ fwidth = 1 /\ fheight = 1 /\ full = FALSE /\ term = "" /\ hnow = 0
    /\ chart = RenderChart(ftext, 0) /\ ftimer = FALSE
    /\ dtid = <<"", "">> /\ diffs = <<>> /\ dres = <<>>
    /\ dloading = FALSE /\ touched = FALSE

SampleTexts == {<<>>, <<[stack |-> <<"f">>, n |-> 1]>>,
                <<[stack |-> <<"f", "g">>, n |-> 1]>>}

FlameNext ==
    /\ \/ /\ world.page = "chart"
          /\ \/ \E text \in SampleTexts : NewData(text)
             \/ FullscreenChange \/ \E t \in {"", "f", "g"} : Search(t)
             \/ \E w \in 1 .. 2, h \in 1 .. 2 : WindowResizes(w, h)
             \/ ResizeTimer
       \/ /\ world.page = "diff"
          /\ \/ \E pair \in {"", "t1", "t2", "t3"} \X {"", "t1", "t2"} :
                    ChangePair(pair)
             \/ DoDiff
             \/ \E i \in 1 .. Len(diffs), ok \in BOOLEAN : DiffAnswered(i, ok)
    /\ UNCHANGED world

-----------------------------------------------------------------------------
(* Properties.                                                              *)

\* Each frame of a flame graph is as wide as the number of samples whose stack
\* runs through it, and the root as wide as all of them: the tree counts no
\* sample twice and loses none (FlameGraph.tsx 46-84).
WidthsAreSamples ==
    LET tree == ParseCollapsedToTree(ftext)
    IN  \A p \in DOMAIN tree :
            Widths(tree)[p] =
                FoldLeft(LAMBDA sum, line :
                            sum + IF IsPrefix(p, line.stack) THEN line.n ELSE 0,
                         0, ftext)

\* A stack whose samples changed is in the comparison and has width, also when
\* gains and losses below a common caller cancel out (flame.go 441-560 and
\* transformNode, FlameDiff.tsx 223-240).
NoChangeHidden ==
    LET self == SelfDelta(fbase, ftext)
        kept == PruneZeroDeltaNodes(self)
        width == Widths(TransformTree(self, kept))
    IN  \A p \in DOMAIN self : self[p] # 0 =>
            \A q \in Callers(p) : q \in kept /\ width[q] > 0

\* Both: the flame graph and the comparison account for every sample.
TreesKeepSamples == WidthsAreSamples /\ NoChangeHidden

\* After resizes, redraws and changes of data in any order, a chart that waits
\* for no timer shows the current data at the container's width, and highlights
\* what the search field says or nothing: a redraw may lose a highlight but
\* never brings back an old one (FlameGraph.tsx 134-218, FlameDiff.tsx 242-302).
ChartIsCurrent ==
    /\ chart.on <=> HasRoot(ftext)
    /\ chart.on => chart.text = ftext /\ chart.h = hnow
    /\ chart.on /\ ~ftimer => chart.w = fwidth
    /\ chart.mark \in {"", term}

\* As long as nobody changed the pair while a comparison was under way, the
\* result on the page is that of the two tasks named above it, in that order
\* (FlameDiff.tsx 94-114).
ResultFitsPair == ~touched /\ dres # <<>> => dres = dtid

=============================================================================
