--------------------------- MODULE BalancedSplit ----------------------------
(***************************************************************************)
(* Where the next worker's pane is carved out of the dispatcher's own tab  *)
(* under renga (dispatcher/runner.py, choose_split), together with the     *)
(* tab: renga lays panes out in a binary tree, splits a pane into halves   *)
(* and gives the room of a closed pane to its sibling.  A pane is a leaf,  *)
(* addressed by its path from the root; a frame is a record x, y, w, h.    *)
(***************************************************************************)
EXTENDS Integers, SequencesExt, FiniteSetsExt

CONSTANTS Tabs,         \* frames and first panes a tab may have
          MaxLeaves     \* bound of the panes of the tab

MinWidth == 20
MinHeight == 5
SecretaryMinWidth == 120
SecretaryMinHeight == 30
DispatcherMinWidth == 80
RolePriority == [dispatcher |-> 4, curator |-> 3, worker |-> 2, secretary |-> 1]
NarrowPriority == 0

VARIABLE shape    \* frame, leaves: their path, role and number, cuts: direction by inner path

(***************************************************************************)
(* renga's layout, external.                                               *)
(***************************************************************************)
Half(r, direction, second) ==
    IF direction = "vertical"
    THEN IF second THEN [r EXCEPT !.x = @ + r.w \div 2, !.w = @ - r.w \div 2] ELSE [r EXCEPT !.w = @ \div 2]
    ELSE IF second THEN [r EXCEPT !.y = @ + r.h \div 2, !.h = @ - r.h \div 2] ELSE [r EXCEPT !.h = @ \div 2]

Rect(t, path) ==
    LET rect[k \in 0..Len(path)] ==
            IF k = 0 THEN t.frame ELSE Half(rect[k - 1], t.cuts[SubSeq(path, 1, k - 1)], path[k])
    IN rect[Len(path)]

\* list_panes: the rects of the leaves.
Panes(t) == {[id |-> l.id, role |-> l.role, at |-> Rect(t, l.path)] : l \in t.leaves}

\* A tree of cuts: a cut has two sides, what is not the whole tab is a side of a cut, and
\* what is not cut is one pane.
Cuts(t) == DOMAIN t.cuts
Nodes(t) == Cuts(t) \cup {l.path : l \in t.leaves}
Tree(t) ==
    /\ t \in [frame : [x : Nat, y : Nat, w : Nat, h : Nat], leaves : {t.leaves}, cuts : {t.cuts}]
    /\ t.cuts \in [Cuts(t) -> {"vertical", "horizontal"}]
    /\ IsFiniteSet(t.leaves)
    /\ \A l \in t.leaves : l \in [path : Seq(BOOLEAN), role : DOMAIN RolePriority, id : Nat]
    /\ \A k, l \in t.leaves : k.path = l.path \/ k.id = l.id => k = l
    /\ << >> \in Nodes(t)
    /\ \A p \in Cuts(t) : p \in Seq(BOOLEAN) /\ \A b \in BOOLEAN : Append(p, b) \in Nodes(t)
    /\ \A p \in Nodes(t) \ {<< >>} : Front(p) \in Cuts(t)
    /\ \A l \in t.leaves : l.path \notin Cuts(t)

\* The dispatcher's own tab has one dispatcher, and the Secretary.
DispatcherTab(t) ==
    /\ \A k, l \in t.leaves : k.role = "dispatcher" /\ l.role = "dispatcher" => k = l
    /\ \E l \in t.leaves : l.role = "secretary"

\* The floors of a usable pane.
Usable(p) ==
    /\ p.at.w >= MinWidth /\ p.at.h >= MinHeight
    /\ p.role = "secretary" => p.at.w >= SecretaryMinWidth /\ p.at.h >= SecretaryMinHeight

ASSUME BalancedSplitAssumption ==
    /\ MaxLeaves \in Nat
    /\ \A t \in Tabs : /\ Tree(t) /\ DispatcherTab(t)
                       /\ \A p \in Nodes(t) : Len(p) < MaxLeaves
                       /\ \A p \in Panes(t) : Usable(p)

FreeId(t) == Min((1..(MaxLeaves + 1)) \ {l.id : l \in t.leaves})

Split(t, id, direction) ==
    LET host == CHOOSE l \in t.leaves : l.id = id
    IN [t EXCEPT !.leaves = (@ \ {host})
                    \cup {[host EXCEPT !.path = Append(@, FALSE)],
                          [path |-> Append(host.path, TRUE), role |-> "worker", id |-> FreeId(t)]},
                 !.cuts = [p \in DOMAIN @ \cup {host.path} |-> IF p = host.path THEN direction ELSE @[p]]]

\* The subtree beside a closed leaf takes the place of their parent.
Moved(leaf, path) ==
    LET parent == Front(leaf.path)
        beside == Append(parent, ~Last(leaf.path))
    IN IF IsPrefix(beside, path) THEN parent \o SubSeq(path, Len(beside) + 1, Len(path)) ELSE path

Without(t, leaf) ==
    LET kept == Cuts(t) \ {Front(leaf.path)}
    IN [t EXCEPT !.leaves = {[l EXCEPT !.path = Moved(leaf, l.path)] : l \in t.leaves \ {leaf}},
                 !.cuts = [p \in {Moved(leaf, q) : q \in kept} |->
                              t.cuts[CHOOSE q \in kept : Moved(leaf, q) = p]]]

(***************************************************************************)
(* The choice (rect_adjacent, _split_options, choose_split).               *)
(***************************************************************************)
Overlap(a, la, b, lb) == Max({a, b}) < Min({a + la, b + lb})
Adjacent(a, b) ==
    \/ (a.x + a.w = b.x \/ b.x + b.w = a.x) /\ Overlap(a.y, a.h, b.y, b.h)
    \/ (a.y + a.h = b.y \/ b.y + b.h = a.y) /\ Overlap(a.x, a.w, b.x, b.w)

\* Mutant: the floors are asked of the pane, not of its child.
BugSplitOptions(p) ==
    {o \in {[direction |-> "vertical", w |-> p.at.w \div 2, h |-> p.at.h, metric |-> p.at.w \div 2]} :
        /\ p.at.w >= MinWidth /\ p.at.h >= MinHeight
        /\ p.role = "secretary" => p.at.w >= SecretaryMinWidth}

\* Directions whose child clears the floors; the metric is the halved side of the child.
SplitOptions(p) ==
    {o \in {[direction |-> "vertical", w |-> p.at.w \div 2, h |-> p.at.h, metric |-> p.at.w \div 2],
            [direction |-> "horizontal", w |-> p.at.w, h |-> p.at.h \div 2, metric |-> p.at.h \div 2]} :
        /\ o.w >= MinWidth /\ o.h >= MinHeight
        /\ p.role = "secretary" => o.w >= SecretaryMinWidth /\ o.h >= SecretaryMinHeight}

\* The larger child wins, the vertical split a tie.
BestOption(options) ==
    CHOOSE o \in options : \A b \in options :
        o.metric > b.metric \/ (o.metric = b.metric /\ (o.direction = "vertical" \/ o = b))

\* Mutant: a narrow dispatcher keeps its priority.
BugCandidate(p) ==
    LET option == BestOption(SplitOptions(p))
    IN [id |-> p.id, direction |-> option.direction, metric |-> option.metric, priority |-> RolePriority[p.role]]

\* A dispatcher is split vertically while its own half stays comfortable, last otherwise.
Candidate(p) ==
    LET options == SplitOptions(p)
        comfortable == {o \in options : o.direction = "vertical" /\ o.w >= DispatcherMinWidth}
        first == p.role = "dispatcher" /\ comfortable # {}
        option == IF first THEN CHOOSE o \in comfortable : TRUE ELSE BestOption(options)
    IN [id |-> p.id, direction |-> option.direction, metric |-> option.metric,
        priority |-> IF p.role = "dispatcher" /\ ~first THEN NarrowPriority ELSE RolePriority[p.role]]

\* Beside a resident curator a dispatcher must share an edge with it.
Candidates(panes) ==
    LET curators == {p \in panes : p.role = "curator"}
    IN {Candidate(p) : p \in {q \in panes :
            /\ q.role \in DOMAIN RolePriority
            /\ q.role = "dispatcher" => \A c \in curators : Adjacent(q.at, c.at)
            /\ SplitOptions(q) # {}}}

Before(a, b) ==
    \/ a.priority > b.priority
    \/ a.priority = b.priority /\ a.metric > b.metric
    \/ a.priority = b.priority /\ a.metric = b.metric /\ a.id <= b.id

ChooseSplit(panes) == CHOOSE c \in Candidates(panes) : \A d \in Candidates(panes) : Before(c, d)

(***************************************************************************)
(* What a plan measures (pane_area_bbox, new_tab_pane_estimate).           *)
(***************************************************************************)
\* Mutant: the width counts the columns left of the pane area.
BugPaneArea(panes) ==
    [x |-> Min({p.at.x : p \in panes}), y |-> Min({p.at.y : p \in panes}),
     w |-> Max({p.at.x + p.at.w : p \in panes}), h |-> Max({p.at.y + p.at.h : p \in panes})]
PaneArea(panes) ==
    LET real == {p \in panes : p.at.w > 0 /\ p.at.h > 0}
        x == Min({p.at.x : p \in real})
        y == Min({p.at.y : p \in real})
    IN [x |-> x, y |-> y, w |-> Max({p.at.x + p.at.w : p \in real}) - x,
        h |-> Max({p.at.y + p.at.h : p \in real}) - y]

FitsNewPane(panes) == PaneArea(panes).w >= MinWidth /\ PaneArea(panes).h >= MinHeight

(***************************************************************************)
(* The tab over time: workers are planned and spawned, and close.          *)
(***************************************************************************)
SplitInit == shape \in Tabs

Delegates ==
    /\ Candidates(Panes(shape)) # {}
    /\ Cardinality(shape.leaves) < MaxLeaves
    /\ LET choice == ChooseSplit(Panes(shape)) IN shape' = Split(shape, choice.id, choice.direction)

Closes(leaf) == leaf.role \in {"worker", "curator"} /\ shape' = Without(shape, leaf)

SplitNext == Delegates \/ \E l \in shape.leaves : Closes(l)

SplitSpec == SplitInit /\ [][SplitNext]_shape

(***************************************************************************)
(* Properties.                                                             *)
(***************************************************************************)
\* The panes of a tab always tile it, so that the measured pane area is the tab's own and
\* the estimate of a new tab is exact (PaneArea: "exact, not predicted").
MeasuresTheTab == PaneArea(Panes(shape)) = shape.frame

\* However often panes were split and closed, none is below the floors of a usable pane,
\* and the secretary's never below its own, both halves of an odd side included.
PanesStayUsable == \A p \in Panes(shape) : Usable(p)

\* The dispatcher's viewport is cut below its comfortable width, or in height, only when no
\* other pane can host a worker (DISPATCHER_MIN_WIDTH).
Cut(before, after) == after.h < before.h \/ (after.w < before.w /\ after.w < DispatcherMinWidth)
ViewportIsKept ==
    [][\A p \in Panes(shape), q \in Panes(shape)' :
         p.role = "dispatcher" /\ q.id = p.id /\ Cut(p.at, q.at)
            => \A other \in Panes(shape) \ {p} : SplitOptions(other) = {}]_shape

=============================================================================
