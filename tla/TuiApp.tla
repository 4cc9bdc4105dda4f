------------------------------- MODULE TuiApp -------------------------------
(***************************************************************************)
(* The state of the terminal UI (crates/atm/src/app.rs) under its event    *)
(* loop (src/bin/atm.rs): keys, messages of the daemon, the panes of the   *)
(* tmux session it is restricted to, and the captures of a pane's output   *)
(* that a task makes meanwhile.  One event is handled at a time, so each   *)
(* is one action.                                                          *)
(*                                                                         *)
(* Abstracted: what rows display, the connection state and the clock in    *)
(* the header, blinking, spawning of agents, panes that tmux cannot reach. *)
(***************************************************************************)
EXTENDS SessionTree, Keybinding

CONSTANTS
    Views,         \* session views the daemon may send
    NoPane,        \* None
    Filtered,      \* is --tmux-session given?
    PaneSets,      \* the sets of panes that tmux session may consist of
    PickMode,      \* is --pick given?
    HalfPage       \* half the height of the list

Ids == {v.id : v \in Views}
Panes == {v.pane : v \in Views} \ {NoPane}
NodeIds == {ProjectId(v.project) : v \in Views}
    \union {WorktreeId(v.worktree) : v \in Views} \union {AgentId(i) : i \in Ids}

\* Tables the daemon can send: one view per id.
Tables == {S \in SUBSET Views : IsFiniteSet(S) /\ \A v, w \in S : v.id = w.id => v = w}

ASSUME TuiAssumption ==
    /\ \A v \in Views :
          /\ v = SessionView(v.id, v.started, v.project, v.worktree, v.pane, v.parent, v.children)
          /\ v.started \in Nat /\ v.project \in Nat /\ v.worktree \in Nat
          /\ v.children \in Seq(ToSet(v.children))
    /\ Filtered \in BOOLEAN /\ PickMode \in BOOLEAN /\ HalfPage \in Nat
    /\ PaneSets \subseteq SUBSET Panes

VARIABLES
    sessions,         \* App.sessions, the map's values
    filter_pane_ids, expanded, tree, tree_rows, selected_index, show_help,
    capture_pane_id,  \* also the value of the watch channel
    captured_output,  \* the pane whose lines are displayed, NoPane when none
    input,            \* InputHandler
    running,
    capturing,        \* the pane the capture task has read and not yet delivered
    killed,           \* sessions whose pane the last event killed
    armed,            \* history: the session a pending d is aimed at: the one it
                      \*   was pressed on, or that the display has put there since
    lagging           \* history: a removal or a filter changed the display last

display == <<sessions, filter_pane_ids, tree>>
folds == <<expanded, tree_rows, selected_index>>
capture == <<capture_pane_id, captured_output>>
vars == <<display, folds, capture, show_help, input, running, capturing, killed,
          armed, lagging>>

TypeOK ==
    /\ sessions \in Tables
    /\ filter_pane_ids \subseteq Panes
    /\ expanded \subseteq NodeIds
    /\ \A row \in ToSet(tree) :
          row.id \in NodeIds /\ ToSet(row.path) \subseteq NodeIds /\ row.shows \subseteq Views
    /\ ToSet(tree_rows) \subseteq ToSet(tree)
    /\ selected_index \in Nat
    /\ show_help \in BOOLEAN /\ running \in BOOLEAN /\ lagging \in BOOLEAN
    /\ input \in InputStates
    /\ {capture_pane_id, captured_output, capturing} \subseteq Panes \union {NoPane}
    /\ killed \subseteq Ids /\ armed \subseteq Ids

Init ==
    /\ sessions = {} /\ filter_pane_ids = {} /\ expanded = {}
    /\ tree = <<>> /\ tree_rows = <<>> /\ selected_index = 0
    /\ show_help = FALSE /\ input = Ready /\ running = TRUE
    /\ capture_pane_id = NoPane /\ captured_output = NoPane /\ capturing = NoPane
    /\ killed = {} /\ armed = {} /\ lagging = FALSE

-----------------------------------------------------------------------------
(* Rows *)

LastRow(rows) == IF rows = <<>> THEN 0 ELSE Len(rows) - 1
Least(i, j) == IF i < j THEN i ELSE j

\* saturating_sub
Minus(i, n) == i - Least(n, i)

\* clamp_selection
Clamp(i, rows) == Least(i, LastRow(rows))

\* selected_session, as a set of at most one
Selected(rows, i) == IF i < Len(rows) THEN rows[i + 1].shows ELSE {}
SelectedPane(rows, i) ==
    IF Selected(rows, i) = {} THEN NoPane ELSE (CHOOSE v \in Selected(rows, i) : TRUE).pane

\* The row with a node id, for tree_rows.iter().position.
At(rows, id, otherwise) ==
    LET i == SelectInSeq(rows, LAMBDA row : row.id = id)
    IN  IF i = 0 THEN otherwise ELSE i - 1

\* The nearest row above i at less than a depth, as a set of at most one id:
\* nearest_ancestor_id, and top_level_ancestor_id for rows below the top.
Above(i, depth) ==
    LET j == SelectLastInSubSeq(tree_rows, 1, i, LAMBDA row : Depth(row) < depth)
    IN  IF j = 0 THEN {} ELSE {tree_rows[j].id}

\* The sessions shown: all, or those in the panes of the filter.
Shown(S, F) == IF Filtered THEN {v \in S : v.pane \in F} ELSE S

-----------------------------------------------------------------------------
(* Effects that actions share *)

\* After an action, an update or a list: follow the selected pane.
RefreshCapture ==
    LET pane == SelectedPane(tree_rows', selected_index')
    IN  /\ capture_pane_id' = pane
        /\ captured_output' = IF pane = capture_pane_id THEN captured_output ELSE NoPane
        /\ lagging' = FALSE

\* The sessions under the cursor, and whether a d that is pending waits for them.
Aim(mode, rows, i) == IF mode = "PendingD" THEN {v.id : v \in Selected(rows, i)} ELSE {}

(* A plausible slip: the selection is not clamped. *)
RebuildTreeUnclamped(S, F) ==
    /\ tree' = BuildTree(Shown(S, F))
    /\ expanded' = IF expanded = {} THEN AllNodeIds(tree') ELSE expanded
    /\ tree_rows' = FlattenTree(tree', expanded')
    /\ UNCHANGED selected_index
    /\ armed' = Aim(input.mode, tree_rows', selected_index)

\* rebuild_tree; a pending d is aimed at what is under the cursor now.
RebuildTree(S, F) ==
    /\ tree' = BuildTree(Shown(S, F))
    /\ expanded' = IF expanded = {} THEN AllNodeIds(tree') ELSE expanded
    /\ tree_rows' = FlattenTree(tree', expanded')
    /\ selected_index' = Clamp(selected_index, tree_rows')
    /\ armed' = Aim(input.mode, tree_rows', selected_index')

\* The messages touch neither keys nor captures.
FromDaemon ==
    /\ running
    /\ killed' = {}
    /\ UNCHANGED <<show_help, input, running, capturing>>

-----------------------------------------------------------------------------
(* Messages *)

\* update_sessions, with the one session of a SessionUpdated message
SessionUpdate(v) ==
    /\ FromDaemon
    /\ sessions' = {s \in sessions : s.id # v.id} \union {v}
    /\ RebuildTree(sessions', filter_pane_ids)
    /\ RefreshCapture
    /\ UNCHANGED filter_pane_ids

\* replace_sessions
SessionListReplace(S) ==
    /\ FromDaemon
    /\ sessions' = S
    /\ RebuildTree(S, filter_pane_ids)
    /\ RefreshCapture
    /\ UNCHANGED filter_pane_ids

\* remove_session; the capture stays as it is
SessionRemoved(id) ==
    /\ FromDaemon
    /\ sessions' = {s \in sessions : s.id # id}
    /\ RebuildTree(sessions', filter_pane_ids)
    /\ lagging' = TRUE
    /\ UNCHANGED <<filter_pane_ids, capture>>

\* update_filter_panes
FilterUpdate(F) ==
    /\ Filtered
    /\ F # filter_pane_ids
    /\ FromDaemon
    /\ filter_pane_ids' = F
    /\ RebuildTree(sessions, F)
    /\ lagging' = TRUE
    /\ UNCHANGED <<sessions, capture>>

-----------------------------------------------------------------------------
(* The capture task *)

CaptureTick ==
    /\ running /\ capturing = NoPane /\ capture_pane_id # NoPane
    /\ capturing' = capture_pane_id
    /\ killed' = {}
    /\ UNCHANGED <<display, folds, capture, show_help, input, running, armed, lagging>>

CaptureFailed ==
    /\ running /\ capturing # NoPane
    /\ capturing' = NoPane
    /\ killed' = {}
    /\ UNCHANGED <<display, folds, capture, show_help, input, running, armed, lagging>>

(* A plausible slip: whatever arrives is displayed. *)
UpdateCaptureUnchecked ==
    /\ captured_output' = capturing
    /\ UNCHANGED capture_pane_id

UpdateCapture ==
    /\ captured_output' = IF capture_pane_id = capturing THEN capturing ELSE captured_output
    /\ UNCHANGED capture_pane_id

CaptureUpdate ==
    /\ running /\ capturing # NoPane
    /\ UpdateCapture
    /\ capturing' = NoPane
    /\ killed' = {}
    /\ UNCHANGED <<display, folds, show_help, input, running, armed, lagging>>

-----------------------------------------------------------------------------
(* Moves and folds: what an action does to folds *)

Moved(i) == selected_index' = i /\ UNCHANGED <<expanded, tree_rows>>

\* select_down, select_up, select_go_to
Move(act) ==
    CASE act.do = "MoveDown" -> Moved(Clamp(selected_index + act.n, tree_rows))
      [] act.do = "HalfPageDown" -> Moved(Clamp(selected_index + act.n * HalfPage, tree_rows))
      [] act.do = "MoveUp" -> Moved(Minus(selected_index, act.n))
      [] act.do = "HalfPageUp" -> Moved(Minus(selected_index, act.n * HalfPage))
      [] act.do = "GoToRow" -> Moved(Clamp(act.n, tree_rows))
      [] act.do = "GoToLast" -> Moved(LastRow(tree_rows))

Moves == {"MoveDown", "HalfPageDown", "MoveUp", "HalfPageUp", "GoToRow", "GoToLast"}

(* A plausible slip: the cursor stays at its index when a fold closes above it. *)
ShowFoldsInPlace(opened, id) ==
    /\ expanded' = opened
    /\ tree_rows' = FlattenTree(tree, opened)
    /\ selected_index' = Clamp(selected_index, tree_rows')

\* The end of set_node_expanded and collapse_all: the cursor goes to id.
ShowFolds(opened, id) ==
    /\ expanded' = opened
    /\ tree_rows' = FlattenTree(tree, opened)
    /\ selected_index' = Clamp(At(tree_rows', id, selected_index), tree_rows')

\* open_fold and expand_all do not clamp
Opened(nodes) ==
    /\ expanded' = nodes
    /\ tree_rows' = FlattenTree(tree, nodes)
    /\ UNCHANGED selected_index

OnRow(row) == selected_index < Len(tree_rows) /\ row = tree_rows[selected_index + 1]

OpenFold(row) ==
    IF row.has_children /\ row.id \notin expanded
    THEN Opened(expanded \union {row.id})
    ELSE UNCHANGED folds

\* A leaf stands for the fold it is in, where it is in one.
FoldOf(row) ==
    IF row.has_children THEN {row.id} ELSE Above(selected_index, Depth(row))

SetFolds(ids, opened(_)) ==
    IF ids = {} THEN UNCHANGED folds ELSE \E id \in ids : ShowFolds(opened(id), id)

CloseFold(row) ==
    SetFolds(IF row.has_children THEN {row.id} \intersect expanded ELSE FoldOf(row),
             LAMBDA id : expanded \ {id})

ToggleFold(row) ==
    SetFolds(FoldOf(row),
             LAMBDA id : IF id \in expanded THEN expanded \ {id} ELSE expanded \union {id})

CollapseAll(row) ==
    \E id \in IF Depth(row) = 0 THEN {row.id} ELSE Above(selected_index, 1) :
        ShowFolds({}, id)

FoldActions == {"ExpandNode", "CloseFold", "ToggleFold", "CollapseAllFolds", "ExpandAllFolds"}

Fold(act) ==
    IF act.do = "ExpandAllFolds" THEN Opened(AllNodeIds(tree))
    ELSE IF tree_rows = <<>>
    THEN /\ expanded' = IF act.do = "CollapseAllFolds" THEN {} ELSE expanded
         /\ UNCHANGED <<tree_rows, selected_index>>
    ELSE \E row \in ToSet(tree_rows) :
            /\ OnRow(row)
            /\ CASE act.do = "ExpandNode" -> OpenFold(row)
                 [] act.do = "CloseFold" -> CloseFold(row)
                 [] act.do = "ToggleFold" -> ToggleFold(row)
                 [] act.do = "CollapseAllFolds" -> CollapseAll(row)

-----------------------------------------------------------------------------
(* Keys *)

Quit ==
    /\ running' = FALSE
    /\ killed' = {}
    /\ UNCHANGED <<folds, capture, show_help, lagging>>

\* Enter on a session jumps to its pane, on a group toggles it.
JumpToSession ==
    IF Selected(tree_rows, selected_index) = {}
    THEN Fold(Do("ToggleFold", 0)) /\ UNCHANGED running
    ELSE /\ \/ UNCHANGED running
            \/ /\ PickMode /\ SelectedPane(tree_rows, selected_index) # NoPane
               /\ running' = FALSE
         /\ UNCHANGED folds

KillAgent ==
    killed' = {v.id : v \in {v \in Selected(tree_rows, selected_index) : v.pane # NoPane}}

\* An action other than Quit.
Perform(act) ==
    /\ CASE act.do \in Moves -> Move(act) /\ UNCHANGED running
         [] act.do \in FoldActions -> Fold(act) /\ UNCHANGED running
         [] act.do = "JumpToSession" -> JumpToSession
         [] OTHER -> UNCHANGED <<folds, running>>
    /\ IF act.do = "KillAgent" THEN KillAgent ELSE killed' = {}
    /\ show_help' = IF act.do = "ToggleHelp" THEN ~show_help ELSE show_help
    /\ IF running' THEN RefreshCapture ELSE UNCHANGED <<capture, lagging>>

KeyToApp(k) ==
    LET act == Output(input, k)
    IN  /\ ~show_help
        /\ input' = NextInput(input, k)
        /\ armed' = IF input.mode = "PendingD" THEN {}
                    ELSE Aim(input'.mode, tree_rows, selected_index)
        /\ CASE act = NoAction ->
                   killed' = {} /\ UNCHANGED <<folds, capture, show_help, running, lagging>>
             [] act.do = "Quit" -> Quit
             [] OTHER -> Perform(act)

\* While help is displayed, only the keys that leave it are heard.
KeyToHelp(k) ==
    /\ show_help
    /\ \/ k \in {"?", "Esc"} /\ show_help' = FALSE /\ input' = Ready /\ UNCHANGED running
       \/ k = "^c" /\ running' = FALSE /\ UNCHANGED <<show_help, input>>
    /\ killed' = {} /\ armed' = {}
    /\ UNCHANGED <<folds, capture, lagging>>

Key(k) ==
    /\ running
    /\ KeyToApp(k) \/ KeyToHelp(k)
    /\ UNCHANGED <<display, capturing>>

Next ==
    \/ \E k \in Keys : Key(k)
    \/ \E v \in Views : SessionUpdate(v)
    \/ \E S \in Tables : SessionListReplace(S)
    \/ \E id \in Ids : SessionRemoved(id)
    \/ \E F \in PaneSets : FilterUpdate(F)
    \/ CaptureTick \/ CaptureFailed \/ CaptureUpdate

Spec == Init /\ [][Next]_vars

-----------------------------------------------------------------------------
(* Properties *)

\* Through every path that changes the sessions, the filter or the folds, the rows
\* are those of the three as they are now, and the cursor is on one of them as long
\* as there is one.  open_fold and expand_all do not clamp, so this rests on their
\* never making rows fewer.
SelectionOnRow ==
    LET rows == FlattenTree(BuildTree(Shown(sessions, filter_pane_ids)), expanded)
    IN  /\ tree_rows = rows
        /\ IF rows = <<>> THEN selected_index = 0 ELSE selected_index < Len(rows)

\* Where build_tree puts sessions: one without a parent once at the top of its
\* own project, under a worktree only if its project has another; a subagent
\* under the agent that lists it, if that one is at the top.
Placed ==
    LET S == Shown(sessions, filter_pane_ids)
        Top(v) == {i \in DOMAIN tree :
                      v \in tree[i].shows /\ \A id \in ToSet(tree[i].path) : id[1] # "agent"}
        Branches(p) == {v.worktree : v \in {w \in S : w.parent = NoParent /\ w.project = p}}
    IN  \A v \in S :
          /\ v.parent = NoParent =>
                \E i \in Top(v) :
                   /\ Top(v) = {i}
                   /\ tree[i].path = IF \A w \in Branches(v.project) : w = v.worktree
                                     THEN <<ProjectId(v.project)>>
                                     ELSE <<ProjectId(v.project), WorktreeId(v.worktree)>>
          /\ v.parent # NoParent => Top(v) = {}
          /\ \A w \in S : w.parent = NoParent /\ v.id \in ToSet(w.children) =>
                \E row \in ToSet(tree) : v \in row.shows /\ Last(row.path) = AgentId(w.id)

\* A command that closes folds leaves the cursor on the node it was on or on one
\* above it, also when it acts on the fold around a leaf.  (Opening all folds keeps
\* the cursor's index instead, and with it not the node.)
CursorFollowsFold ==
    [][ /\ UNCHANGED display
        /\ expanded' # expanded /\ expanded' \subseteq expanded
        /\ tree_rows # <<>>
        => LET was == tree_rows[selected_index + 1]
           IN  tree_rows'[selected_index' + 1].id \in ToSet(was.path) \union {was.id} ]_vars

\* The second d of dd kills the agent the first one was pressed on or, when a message
\* has changed the display between them, the one it has put under the cursor; what
\* else follows a d, a move included, kills nobody.
KillsWhatWasArmed ==
    [][ input.mode = "PendingD" => killed' \subseteq armed ]_vars

\* What is displayed as the terminal of the selected agent comes from its pane,
\* also when a capture begun for another one arrives late.  Only after a removal
\* or a change of the filter it may be another's, until the next event.
OutputOfSelected ==
    lagging \/ captured_output \in {NoPane, SelectedPane(tree_rows, selected_index)}

=============================================================================
