----------------------------- MODULE SessionTree -----------------------------
(***************************************************************************)
(* The tree in which the terminal UI shows sessions                        *)
(* (crates/atm-core/src/tree.rs): project, worktree, agent, subagent.      *)
(*                                                                         *)
(* A tree is the sequence of its nodes in preorder, each with the ids of   *)
(* the nodes above it.  Of a session view only what decides its place in   *)
(* the tree, and its pane, is kept.  A project and a worktree are their    *)
(* ranks in the order of the BTreeMaps, with Ungrouped for no project and  *)
(* NoWorktree for no worktree.  Sessions that start at the same time keep  *)
(* the order of the map they come from, here any order of their set.       *)
(***************************************************************************)
EXTENDS Integers, Sequences, FiniteSets, SequencesExt

CONSTANT NoParent

Ungrouped == 9       \* "__ungrouped__" sorts after every path
NoWorktree == 0      \* None sorts before every path

\* parent is the id of the session that spawned this one, or NoParent; children
\* is the sequence of the ids it has adopted.
SessionView(id, started, project, worktree, pane, parent, children) ==
    [id |-> id, started |-> started, project |-> project, worktree |-> worktree,
     pane |-> pane, parent |-> parent, children |-> children]

\* TreeNodeId.  A worktree node without a path is called "unknown" in every project.
ProjectId(p) == <<"project", p>>
WorktreeId(w) == <<"worktree", w>>
AgentId(s) == <<"agent", s>>

\* shows: the view of an agent node, as a set of at most one.
Node(id, path, shows, has_children) ==
    [id |-> id, path |-> path, shows |-> shows, has_children |-> has_children]
Depth(row) == Len(row.path)

\* The elements of a finite set in the order of their keys.
SortedBy(S, key) ==
    CHOOSE s \in SetToSeqs(S) : \A i, j \in DOMAIN s : i < j => key[s[i]] <= key[s[j]]
Ascending(S) == SortedBy(S, [x \in S |-> x])

(* A plausible slip: the sessions that no other lists as its child. *)
TopLevelUnlisted(S) == {s \in S : \A v \in S : s.id \notin ToSet(v.children)}

\* Sessions at the top of their project: child_ids and the loop that skips them.
TopLevel(S) == {s \in S : s.parent = NoParent}

\* make_agent_node: the known ones of the children, in the order of adoption.
Children(S, s) ==
    FlattenSeq([i \in DOMAIN s.children |-> SetToSeq({v \in S : v.id = s.children[i]})])

AgentRows(S, s, path) ==
    LET kids == Children(S, s)
    IN  <<Node(AgentId(s.id), path, {s}, kids # <<>>)>>
        \o [i \in DOMAIN kids |->
              Node(AgentId(kids[i].id), Append(path, AgentId(s.id)), {kids[i]}, FALSE)]

\* The agents of G, newest first: sort_agent_nodes.
GroupRows(S, G, path) ==
    LET agents == SortedBy(G, [s \in G |-> -s.started])
    IN  FlattenSeq([i \in DOMAIN agents |-> AgentRows(S, agents[i], path)])

WorktreeRows(S, G, p, w) ==
    <<Node(WorktreeId(w), <<ProjectId(p)>>, {}, TRUE)>>
    \o GroupRows(S, {s \in G : s.worktree = w}, <<ProjectId(p), WorktreeId(w)>>)

\* Worktrees are shown where a project has several.
ProjectRows(S, p) ==
    LET G == {s \in TopLevel(S) : s.project = p}
        worktrees == Ascending({s.worktree : s \in G})
    IN  <<Node(ProjectId(p), <<>>, {}, TRUE)>>
        \o IF Len(worktrees) <= 1
           THEN GroupRows(S, G, <<ProjectId(p)>>)
           ELSE FlattenSeq([i \in DOMAIN worktrees |-> WorktreeRows(S, G, p, worktrees[i])])

\* build_tree
BuildTree(S) ==
    LET projects == Ascending({s.project : s \in TopLevel(S)})
    IN  FlattenSeq([i \in DOMAIN projects |-> ProjectRows(S, projects[i])])

\* flatten_tree, flatten_node: the nodes below unfolded nodes only.
FlattenTree(tree, expanded) ==
    FlattenSeq([i \in DOMAIN tree |->
                  IF ToSet(tree[i].path) \subseteq expanded THEN <<tree[i]>> ELSE <<>>])

\* all_node_ids
AllNodeIds(tree) == {row.id : row \in ToSet(tree)}

=============================================================================
