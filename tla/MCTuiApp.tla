------------------------------ MODULE MCTuiApp ------------------------------
(* Instances of TuiApp for TLC. *)
EXTENDS TuiApp

CONSTANTS a, b, pane1, pane2

\* An agent that has adopted the other session, which appears outside any project,
\* then in a second worktree and, as its own view catches up, as a subagent.
TwoSessions == {
    SessionView(a, 1, 1, 1, pane1, NoParent, <<b>>),
    SessionView(b, 2, Ungrouped, NoWorktree, pane2, NoParent, <<>>),
    SessionView(b, 2, 1, 2, pane2, NoParent, <<>>),
    SessionView(b, 2, 1, 2, pane2, a, <<>>)}

\* Both panes, or only the one of the adopted session.
OneOrBoth == {{pane2}, {pane1, pane2}}

=============================================================================
