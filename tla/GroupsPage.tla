------------------------------ MODULE GroupsPage ------------------------------
(* The page Groups of the web console (web/src/pages/Groups.tsx) and the    *)
(* handlers of group.go it calls.  The page caches the members of each      *)
(* group, and every operation is a chain of requests that is not stopped by *)
(* the next one: a request takes effect at one moment and its answer is     *)
(* applied at a later one, in any order.                                    *)
EXTENDS WebWorld, Naturals, Sequences, FiniteSets, FiniteSetsExt, SequencesExt

CONSTANTS
    Gids,         \* ids of groups, handed out in increasing order
    Others,       \* users that may be added to a group of the user
    MaxOps        \* bound: chains of requests under way at once

\* The page takes 0 for no group.
ASSUME GidsAssumption == Gids # {} /\ Gids \subseteq Nat \ {0}

VARIABLES
    team,         \* the server's groups of the user: gid -> its other members
    fresh,        \* the gids that were never used
    gview,        \* the React state of the page
    gops,         \* the chains under way
    clicked,      \* history: chains started by clicks, bounded by world.clicks
    gfails,       \* history: requests that failed or were refused
    outdated      \* history: parts of the page whose answer was overtaken by a
                  \* change while it was under way

gvars == <<team, fresh, gview, gops, clicked, gfails, outdated>>

EmptyGroups == [list |-> {}, cache |-> <<>>, sel |-> 0, busy |-> TRUE,
                submitting |-> FALSE, error |-> FALSE]

\* selectedGroup, 0 for undefined, and currentMembers.
SelectedGroup(v) ==
    CASE v.sel \in v.list -> v.sel
      [] v.sel \notin v.list /\ v.list # {} -> Min(v.list)
      [] OTHER -> 0
CurrentMembers(v) ==
    IF SelectedGroup(v) \in DOMAIN v.cache THEN v.cache[SelectedGroup(v)] ELSE {}

\* A chain: what was clicked, the group and user it is about, the selection of
\* the render it was clicked in, where it is, and the answer under way.
Op(kind, gid, uid, at) ==
    [kind |-> kind, gid |-> gid, uid |-> uid, sel |-> gview.sel, at |-> at,
     of |-> gid, ans |-> {}, stale |-> FALSE]

Launch(op, v) ==
    /\ Len(gops) < MaxOps
    /\ gops' = Append(gops, op)
    /\ gview' = v
    /\ clicked < world.clicks /\ clicked' = clicked + 1
    /\ UNCHANGED <<team, fresh, gfails, outdated>>

-----------------------------------------------------------------------------
(* Clicks.                                                                  *)

ClickRefresh ==
    Launch(Op("load", 0, "", "list"), [gview EXCEPT !.busy = TRUE, !.error = FALSE])

\* Cached members are not asked for again.
SelectGroup(g) ==
    LET v == [gview EXCEPT !.sel = g, !.error = FALSE]
    IN  /\ ~gview.busy /\ g \in gview.list
        /\ IF g \in DOMAIN gview.cache
           THEN gview' = v /\ UNCHANGED <<team, fresh, gops, clicked, gfails, outdated>>
           ELSE Launch(Op("select", g, "", "members"), v)

\* Enter does not look whether a submission is under way.
SubmitGroup ==
    /\ Cardinality({i \in DOMAIN gops : gops[i].kind = "create" /\ gops[i].at = "change"})
            < Cardinality(fresh)              \* bound: the gids
    /\ Launch(Op("create", 0, "", "change"),
              [gview EXCEPT !.submitting = TRUE, !.error = FALSE])

SubmitMember(u) ==
    /\ SelectedGroup(gview) # 0
    /\ Launch(Op("add", SelectedGroup(gview), u, "change"),
              [gview EXCEPT !.submitting = TRUE, !.error = FALSE])

RemoveMember(u) ==
    /\ u \in CurrentMembers(gview)
    /\ Launch(Op("remove", SelectedGroup(gview), u, "change"),
              [gview EXCEPT !.error = FALSE])

RemoveGroup ==
    /\ SelectedGroup(gview) # 0
    /\ Launch(Op("drop", SelectedGroup(gview), "", "change"),
              [gview EXCEPT !.error = FALSE])

-----------------------------------------------------------------------------
(* The server serves the request that chain i has out.                      *)

\* Answers under way about what has just changed are out of date.
Overtaken(op, gid, listToo) ==
    [op EXCEPT !.stale = \/ @
                         \/ op.at = "membered" /\ op.of = gid
                         \/ op.at = "listed" /\ listToo]

ServeChange(i) ==
    LET op == gops[i]
        g == IF op.kind = "create" THEN Min(fresh) ELSE op.gid
        listToo == op.kind \in {"create", "drop"}
    IN  /\ op.at = "change"
        /\ IF op.kind = "create" THEN fresh # {} ELSE g \in DOMAIN team
        /\ team' = CASE op.kind = "create" -> [h \in DOMAIN team \cup {g} |->
                                                 IF h = g THEN {} ELSE team[h]]
                     [] op.kind = "add" -> [team EXCEPT ![g] = @ \cup {op.uid}]
                     [] op.kind = "remove" -> [team EXCEPT ![g] = @ \ {op.uid}]
                     [] op.kind = "drop" -> [h \in DOMAIN team \ {g} |-> team[h]]
        /\ fresh' = IF op.kind = "create" THEN fresh \ {g} ELSE fresh
        /\ gops' = [k \in DOMAIN gops |->
                       IF k = i THEN [op EXCEPT !.at = "changed", !.gid = g, !.of = g]
                       ELSE Overtaken(gops[k], g, listToo)]
        /\ UNCHANGED <<gview, clicked, gfails, outdated>>

ServeGroups(i) ==
    /\ gops[i].at = "list"
    /\ gops' = [gops EXCEPT ![i].at = "listed", ![i].ans = DOMAIN team,
                            ![i].stale = FALSE]
    /\ UNCHANGED <<team, fresh, gview, clicked, gfails, outdated>>

ServeMembers(i) ==
    /\ gops[i].at = "members" /\ gops[i].of \in DOMAIN team
    /\ gops' = [gops EXCEPT ![i].at = "membered", ![i].ans = team[gops[i].of],
                            ![i].stale = FALSE]
    /\ UNCHANGED <<team, fresh, gview, clicked, gfails, outdated>>

-----------------------------------------------------------------------------
(* An answer arrives.                                                       *)

\* A chain ends: the finally blocks of what was clicked.
ChainOver(v, op) ==
    [v EXCEPT !.busy = IF op.kind \in {"load", "create", "drop"} THEN FALSE ELSE @,
              !.submitting = IF op.kind \in {"create", "add"} THEN FALSE ELSE @]

\* Mutant: an added or removed member is left to the cache.
ChangeArrivesNoReload(i) ==
    LET op == gops[i]
        v == IF op.kind = "drop"
             THEN [gview EXCEPT !.cache = [g \in DOMAIN @ \ {op.gid} |-> @[g]]]
             ELSE gview
    IN  /\ op.at = "changed"
        /\ IF op.kind \in {"add", "remove"}
           THEN gops' = RemoveAt(gops, i) /\ gview' = ChainOver(v, op)
           ELSE /\ gops' = [gops EXCEPT ![i].at = "list"]
                /\ gview' = [v EXCEPT !.busy = TRUE, !.error = FALSE]
        /\ UNCHANGED <<team, fresh, clicked, gfails, outdated>>

\* The change is done; the members, or all groups, are loaded again.
ChangeArrives(i) ==
    LET op == gops[i]
        v == IF op.kind = "drop"
             THEN [gview EXCEPT !.cache = [g \in DOMAIN @ \ {op.gid} |-> @[g]]]
             ELSE gview
    IN  /\ op.at = "changed"
        /\ IF op.kind \in {"add", "remove"}
           THEN gops' = [gops EXCEPT ![i].at = "members"] /\ gview' = v
           ELSE /\ gops' = [gops EXCEPT ![i].at = "list"]
                /\ gview' = [v EXCEPT !.busy = TRUE, !.error = FALSE]
        /\ UNCHANGED <<team, fresh, clicked, gfails, outdated>>

\* After loadGroups a new group is selected and its members are loaded: it was
\* not in the cache of the render that was clicked.  The rest ends.
AfterGroups(i, v) ==
    LET op == gops[i]
    IN  IF op.kind = "create"
        THEN /\ gops' = [gops EXCEPT ![i] = [op EXCEPT !.kind = "created",
                                                !.at = "members", !.of = op.gid]]
             /\ gview' = [ChainOver(v, [op EXCEPT !.kind = "load"])
                             EXCEPT !.sel = op.gid, !.error = FALSE]
        ELSE gops' = RemoveAt(gops, i) /\ gview' = ChainOver(v, op)

\* loadGroups: the selection of the clicked render is kept if it is listed.
GroupsArrive(i) ==
    LET op == gops[i]
        next == CASE op.sel \in op.ans -> op.sel
                  [] op.sel \notin op.ans /\ op.ans # {} -> Min(op.ans)
                  [] OTHER -> 0
        v == [gview EXCEPT !.list = op.ans, !.sel = next]
    IN  /\ op.at = "listed"
        /\ outdated' = IF op.stale THEN outdated \cup {0} ELSE outdated \ {0}
        /\ IF next # 0
           THEN /\ gops' = [gops EXCEPT ![i].at = "members", ![i].of = next]
                /\ gview' = v
           ELSE AfterGroups(i, v)
        /\ UNCHANGED <<team, fresh, clicked, gfails>>

MembersArrive(i) ==
    LET op == gops[i]
        cached == DOMAIN gview.cache \cup {op.of}
        v == [gview EXCEPT !.cache = [g \in cached |->
                                        IF g = op.of THEN op.ans ELSE @[g]]]
    IN  /\ op.at = "membered"
        /\ outdated' = IF op.stale THEN outdated \cup {op.of}
                       ELSE outdated \ {op.of}
        /\ IF op.kind \in {"load", "create", "drop"} THEN AfterGroups(i, v)
           ELSE /\ gops' = RemoveAt(gops, i)
                /\ gview' = ChainOver(v, IF op.kind = "created"
                                     THEN [op EXCEPT !.kind = "create"] ELSE op)
        /\ UNCHANGED <<team, fresh, clicked, gfails>>

\* A request fails, or is refused because the group is gone: loadGroups shows an
\* empty list, even for want of the members, and what called it goes on.
OpFails(i) ==
    LET op == gops[i]
        gone == op.at \in {"change", "members"} /\ op.kind # "create"
                /\ op.of \notin DOMAIN team
        inLoad == \/ op.at \in {"list", "listed"}
                  \/ /\ op.at \in {"members", "membered"}
                     /\ op.kind \in {"load", "create", "drop"}
        v == [gview EXCEPT !.error = TRUE, !.list = IF inLoad THEN {} ELSE @]
    IN  /\ gone \/ gfails < world.fails
        /\ gfails' = IF gfails < world.fails + 1 THEN gfails + 1 ELSE gfails
        /\ IF inLoad THEN AfterGroups(i, v)
           ELSE /\ gops' = RemoveAt(gops, i)
                /\ gview' = ChainOver(v, IF op.kind = "created"
                                     THEN [op EXCEPT !.kind = "create"] ELSE op)
        /\ UNCHANGED <<team, fresh, clicked, outdated>>

-----------------------------------------------------------------------------

GroupsInit ==
    /\ team = [g \in {Min(Gids)} |-> {CHOOSE u \in Others : TRUE}]
    /\ fresh = Gids \ {Min(Gids)}
    /\ gview = EmptyGroups
    /\ gops = <<[kind |-> "load", gid |-> 0, uid |-> "", sel |-> 0, at |-> "list",
                 of |-> 0, ans |-> {}, stale |-> FALSE]>>
    /\ clicked = 0 /\ gfails = 0 /\ outdated = {}

GroupsNext ==
    /\ \/ ClickRefresh \/ SubmitGroup \/ RemoveGroup
       \/ \E g \in Gids : SelectGroup(g)
       \/ \E u \in Others : SubmitMember(u) \/ RemoveMember(u)
       \/ \E i \in 1 .. Len(gops) :
             \/ ServeChange(i) \/ ServeGroups(i) \/ ServeMembers(i)
             \/ ChangeArrives(i) \/ GroupsArrive(i) \/ MembersArrive(i)
             \/ OpFails(i)
    /\ UNCHANGED world

-----------------------------------------------------------------------------
(* Properties.                                                              *)

\* Once nothing is under way, no spinner turns and the buttons are back, however
\* chains overlapped and failed (the finally blocks of Groups.tsx).
GroupsComeToRest == gops = <<>> => ~gview.busy /\ ~gview.submitting

\* Without failures, once nothing is under way the page shows the server's groups
\* and the members of the selected one, although members are cached and chains
\* overlap, except for a part whose last answer a change had overtaken on its
\* way (Groups.tsx 64-174, group.go 31-240).
GroupsSettled ==
    gops = <<>> /\ gfails = 0 =>
        /\ 0 \notin outdated => gview.list = DOMAIN team
        /\ LET g == SelectedGroup(gview)
           IN  g \in DOMAIN team \ outdated => CurrentMembers(gview) = team[g]

=============================================================================
