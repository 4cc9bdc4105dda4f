----------------------------- MODULE PaneLayout -----------------------------
(***************************************************************************)
(* `atm layout': materialises a tree of slots as tmux panes                *)
(* (crates/atm-tmux/src/layout.rs).  A slot with children hands its pane   *)
(* to the first of them, which is materialised as a whole before each of   *)
(* the others is split off the same pane.                                  *)
(*                                                                         *)
(* A layout maps the path of a slot (<<1, 2>> is the second child of the   *)
(* first child of the root) to its role, or to the direction of its        *)
(* children if it has some.  A pane is a number; where it lies is the      *)
(* sequence of splits it comes from: direction and half.  Sizes are left   *)
(* out.                                                                    *)
(***************************************************************************)
EXTENDS Naturals, Sequences, FiniteSets, TLC

CONSTANT Custom    \* layouts of configuration files

VARIABLES
    layout,   \* the layout to apply
    regions,  \* where each pane lies
    todo,     \* the calls of apply_slot that are left, the next one first
    placed,   \* LayoutResult: slots with their panes
    at        \* where apply_layout is

vars == <<layout, regions, todo, placed, at>>

Horizontal == "horizontal"
Vertical == "vertical"
Roles == {"agent", "editor", "shell", "panel"}

preset_solo == <<>> :> "agent"

preset_pair ==
    <<>> :> Horizontal @@ <<1>> :> Vertical @@ <<2>> :> "panel"
    @@ <<1, 1>> :> "agent" @@ <<1, 2>> :> "agent"

preset_squad ==
    <<>> :> Horizontal @@ <<1>> :> Vertical @@ <<2>> :> "panel"
    @@ <<1, 1>> :> Horizontal @@ <<1, 2>> :> "agent"
    @@ <<1, 1, 1>> :> "agent" @@ <<1, 1, 2>> :> "agent"

preset_grid ==
    <<>> :> Vertical @@ <<1>> :> Horizontal @@ <<2>> :> Horizontal
    @@ [p \in {1, 2} \X {1, 2} |-> "agent"]

preset_workspace ==
    <<>> :> Horizontal @@ <<1>> :> Vertical @@ <<2>> :> "panel"
    @@ <<1, 1>> :> "agent" @@ <<1, 2>> :> "shell"

preset_workspace_editor ==
    <<>> :> Horizontal @@ <<1>> :> Vertical @@ <<2>> :> "panel"
    @@ <<1, 1>> :> Horizontal @@ <<1, 2>> :> "shell"
    @@ <<1, 1, 1>> :> "editor" @@ <<1, 1, 2>> :> "agent"

Layouts == Custom \union {preset_solo, preset_pair, preset_squad, preset_grid,
                          preset_workspace, preset_workspace_editor}

-----------------------------------------------------------------------------

ChildrenIn(l, slot) ==
    {s[Len(s)] : s \in {t \in DOMAIN l : Len(t) = Len(slot) + 1 /\ SubSeq(t, 1, Len(slot)) = slot}}

\* A tree of slots: with a slot there are those above it, its children are numbered
\* from 1, and it has a direction if it has children.
IsLayout(l) ==
    /\ IsFiniteSet(DOMAIN l) /\ DOMAIN l \subseteq Seq(Nat) /\ <<>> \in DOMAIN l
    /\ \A slot \in DOMAIN l :
          /\ \A depth \in 0..Len(slot) : SubSeq(slot, 1, depth) \in DOMAIN l
          /\ LET children == ChildrenIn(l, slot)
             IN  /\ children = 1..Cardinality(children)
                 /\ l[slot] \in IF children = {} THEN Roles ELSE {Horizontal, Vertical}

Children(slot) == ChildrenIn(layout, slot)

Leaves == {slot \in DOMAIN layout : Children(slot) = {}}

\* A bug to catch: no child takes the pane of the container over.
CallsAllSplit(slot, p) ==
    [i \in 1..Cardinality(Children(slot)) |->
        [slot |-> slot \o <<i>>, pane |-> p, split |-> TRUE]]

\* The calls for the children of a slot that has pane p.  Each but the first
\* splits a pane of its own off p.
Calls(slot, p) ==
    [i \in 1..Cardinality(Children(slot)) |->
        [slot |-> slot \o <<i>>, pane |-> p, split |-> i > 1]]

Parent(slot) == SubSeq(slot, 1, Len(slot) - 1)

\* A bug to catch: a container is placed like a leaf, besides its children.
FillContainersToo(slot, p) ==
    placed' = placed \union {<<slot, p>>} /\ todo' = Calls(slot, p) \o Tail(todo)

\* apply_slot for a slot that has pane p now.
Fill(slot, p) ==
    IF slot \in Leaves
    THEN placed' = placed \union {<<slot, p>>} /\ todo' = Tail(todo)
    ELSE todo' = Calls(slot, p) \o Tail(todo) /\ UNCHANGED placed

\* The root slot's pane: the current one, or that of a new window or session.
apply_layout ==
    /\ at = "start"
    /\ at' = "applying"
    /\ regions' = <<(<<>>)>>
    /\ todo' = <<[slot |-> <<>>, pane |-> 1, split |-> FALSE]>>
    /\ UNCHANGED <<layout, placed>>

apply_slot ==
    /\ at = "applying" /\ todo # <<>>
    /\ LET call == Head(todo)
           direction == layout[Parent(call.slot)]
       IN  IF call.split
           THEN /\ regions' = Append([regions EXCEPT ![call.pane] = Append(@, <<direction, 1>>)],
                                     Append(regions[call.pane], <<direction, 2>>))
                /\ Fill(call.slot, Len(regions) + 1)
           ELSE Fill(call.slot, call.pane) /\ UNCHANGED regions
    /\ UNCHANGED <<layout, at>>

\* tmux refuses a new window, or has no room for a new pane.  The panes there
\* are stay.
Fail ==
    /\ at = "start" \/ (at = "applying" /\ todo # <<>> /\ Head(todo).split)
    /\ at' = "failed"
    /\ UNCHANGED <<layout, regions, todo, placed>>

Return ==
    /\ at = "applying" /\ todo = <<>>
    /\ at' = "done"
    /\ UNCHANGED <<layout, regions, todo, placed>>

Init ==
    /\ layout \in Layouts
    /\ regions = <<>> /\ todo = <<>> /\ placed = {}
    /\ at = "start"

Next == apply_layout \/ apply_slot \/ Fail \/ Return

Spec == Init /\ [][Next]_vars

-----------------------------------------------------------------------------
(* Properties *)

\* The variables keep their types: only leaves are placed, in panes that exist.
TypeOK ==
    /\ \A slot \in DOMAIN layout : slot \in Leaves <=> layout[slot] \in Roles
    /\ regions \in Seq(Seq({Horizontal, Vertical} \X {1, 2}))
    /\ \A i \in DOMAIN todo : todo[i].slot \in DOMAIN layout /\ todo[i].pane \in DOMAIN regions
    /\ placed \subseteq Leaves \X DOMAIN regions
    /\ at \in {"start", "applying", "done", "failed"}

\* At the end every leaf has one pane of its own and there are no other panes,
\* whatever the order in which containers and splits take turns.
SlotsFilled ==
    at = "done" =>
       /\ {f[1] : f \in placed} = Leaves /\ {f[2] : f \in placed} = DOMAIN regions
       /\ Cardinality(placed) = Cardinality(Leaves) /\ Len(regions) = Cardinality(Leaves)

\* "75% left with 2 agent panes stacked, 25% right ATM sidebar": the sidebar is
\* beside all the other panes, so that no split above it is a vertical one.
PanelBesideAll ==
    at = "done" =>
       \A f \in placed : layout[f[1]] = "panel" =>
          \A i \in DOMAIN regions[f[2]] : regions[f[2]][i][1] = Horizontal

=============================================================================
