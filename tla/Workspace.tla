----------------------------- MODULE Workspace -----------------------------
(***************************************************************************)
(* `atm workspace create' and `atm workspace attach' (src/bin/atm.rs): one *)
(* tmux session whose windows each have a pane, the sidebar, that runs     *)
(* atm.  A job puts a sidebar into a window by three tmux commands: split  *)
(* off a pane, tag it, type atm's command line into it.  Jobs are the      *)
(* commands and, for every window opened later, the script that the        *)
(* after-new-window hook runs; nothing serialises them.  A command names   *)
(* the pane it means and ends when tmux fails.  The script names none for  *)
(* the split, which is made in whatever window is the current one, and     *)
(* goes on when tmux fails; with no pane to name it acts on the current.   *)
(*                                                                         *)
(* Left out: the other panes of a workspace unless the script takes one    *)
(* for its sidebar, panes that the user closes, sizes and the resize hook. *)
(***************************************************************************)
EXTENDS Naturals, Sequences, FiniteSets

CONSTANTS
    Windows,    \* windows of the session; tmux never uses the id of one again
    Commands,   \* terminals, each of which runs one atm workspace command at a time
    NoWindow,
    MaxCommands, MaxAborts  \* bounds: commands; those that fail and jobs killed

VARIABLES
    session,   \* the tmux session exists
    hook,      \* its after-new-window hook is set
    windows,   \* the open windows
    opened,    \* the windows opened so far
    panes,     \* the panes split off or tagged as sidebars: window, tag, program
    jobs,      \* of the commands, and of the hook's script in each window
    contested, \* windows two jobs were at together or another window's script acted in
    visited,   \* windows a successful command went through
    runs, aborts  \* commands and aborts so far

vars == <<session, hook, windows, opened, panes, jobs, contested, visited, runs, aborts>>

Pane == [window : Windows, tagged : BOOLEAN, runs : {"shell", "atm"}]

Job == [at : {"new", "check", "next", "split", "tag", "start", "panes", "hooks", "end"},
        window : Windows \union {NoWindow}, pane : Nat, todo : SUBSET Windows,
        listed : SUBSET Windows]

Start(at) == [at |-> at, window |-> NoWindow, pane |-> 0, todo |-> {}, listed |-> {}]

At(j, step) == jobs[j].at = step

Goto(j, step) == jobs' = [jobs EXCEPT ![j].at = step]

Sidebars(w) == {p \in DOMAIN panes : panes[p].window = w /\ panes[p].tagged}

\* A bug to catch: a sidebar is known by its title, which the shell overwrites
\* when atm has ended.
HasSidebarByTitle(w) ==
    \E p \in DOMAIN panes : panes[p].window = w /\ panes[p].tagged /\ panes[p].runs = "atm"

HasSidebar(w) == \E p \in DOMAIN panes : panes[p].window = w /\ panes[p].tagged

\* Job j turns to window w.  Another job that has not tagged its pane there yet
\* is not noticed.
Enter(j, w) ==
    /\ jobs' = [jobs EXCEPT ![j] = [@ EXCEPT !.at = "split", !.window = w]]
    /\ contested' = IF \E i \in DOMAIN jobs \ {j} : jobs[i].window = w /\ jobs[i].at \in {"split", "tag"}
                    THEN contested \union {w} ELSE contested

-----------------------------------------------------------------------------
(* Steps of a job *)

\* A command splits off its sidebar in the window it is at, tags it and types
\* into it.  tmux closes a window's panes with it, and the command ends.
Split(c) ==
    /\ At(c, "split")
    /\ IF jobs[c].window \in windows
       THEN /\ panes' = Append(panes, [window |-> jobs[c].window, tagged |-> FALSE, runs |-> "shell"])
            /\ jobs' = [jobs EXCEPT ![c].at = "tag", ![c].pane = Len(panes) + 1]
       ELSE jobs' = [jobs EXCEPT ![c] = Start("end")] /\ UNCHANGED panes
    /\ UNCHANGED <<session, hook, windows, opened, contested, visited, runs, aborts>>

Tag(c) ==
    /\ At(c, "tag")
    /\ IF jobs[c].window \in windows
       THEN panes' = [panes EXCEPT ![jobs[c].pane].tagged = TRUE] /\ Goto(c, "start")
       ELSE jobs' = [jobs EXCEPT ![c] = Start("end")] /\ UNCHANGED panes
    /\ UNCHANGED <<session, hook, windows, opened, contested, visited, runs, aborts>>

\* create goes on with its other panes, attach with the next window.
AfterSidebar(c) ==
    LET w == jobs[c].window
        next == IF w \in jobs[c].todo THEN "next" ELSE "panes"
    IN  [jobs[c] EXCEPT !.at = next, !.todo = @ \ {w}, !.window = NoWindow]

StartAtm(c) ==
    /\ At(c, "start")
    /\ IF jobs[c].window \in windows
       THEN /\ panes' = [panes EXCEPT ![jobs[c].pane].runs = "atm"]
            /\ jobs' = [jobs EXCEPT ![c] = AfterSidebar(c)]
       ELSE jobs' = [jobs EXCEPT ![c] = Start("end")] /\ UNCHANGED panes
    /\ UNCHANGED <<session, hook, windows, opened, contested, visited, runs, aborts>>

\* The script of window w acts in window v.
Strayed(w, v) == IF v = w THEN contested ELSE contested \union {v}

\* The script that runs for window w splits the current window: any one of the
\* session, or another session's, where nothing of this one changes any more.
\* If the split fails the script has no pane to name.
HookSplit(w) ==
    /\ At(w, "split")
    /\ \/ \E v \in windows :
             /\ panes' = Append(panes, [window |-> v, tagged |-> FALSE, runs |-> "shell"])
             /\ jobs' = [jobs EXCEPT ![w] = [@ EXCEPT !.at = "tag", !.window = v,
                                                     !.pane = Len(panes) + 1]]
             /\ contested' = Strayed(w, v)
       \/ jobs' = [jobs EXCEPT ![w] = Start("end")] /\ UNCHANGED <<panes, contested>>
       \/ Goto(w, "tag") /\ UNCHANGED <<panes, contested>>
    /\ UNCHANGED <<session, hook, windows, opened, visited, runs, aborts>>

\* It tags its pane or, without one, the current pane: a sidebar or an ordinary
\* pane of any window.  Or the command fails, or the pane is not of this session.
HookTag(w) ==
    /\ At(w, "tag")
    /\ Goto(w, "start")
    /\ \/ \E p \in DOMAIN panes :
             /\ panes[p].window \in windows /\ jobs[w].pane \in {0, p}
             /\ panes' = [panes EXCEPT ![p].tagged = TRUE]
             /\ contested' = Strayed(w, panes[p].window)
       \/ \E v \in windows :
             /\ jobs[w].pane = 0
             /\ panes' = Append(panes, [window |-> v, tagged |-> TRUE, runs |-> "shell"])
             /\ contested' = Strayed(w, v)
       \/ UNCHANGED <<panes, contested>>
    /\ UNCHANGED <<session, hook, windows, opened, visited, runs, aborts>>

HookStart(w) ==
    /\ At(w, "start")
    /\ jobs' = [jobs EXCEPT ![w] = Start("end")]
    /\ \/ \E p \in DOMAIN panes :
             /\ panes[p].window \in windows /\ jobs[w].pane \in {0, p}
             /\ panes' = [panes EXCEPT ![p].runs = "atm"]
       \/ UNCHANGED panes
    /\ UNCHANGED <<session, hook, windows, opened, contested, visited, runs, aborts>>

-----------------------------------------------------------------------------
(* Steps of a command *)

Begin(c, first) ==
    /\ At(c, "end")
    /\ runs < MaxCommands
    /\ runs' = runs + 1
    /\ jobs' = [jobs EXCEPT ![c] = Start(first)]
    /\ UNCHANGED <<session, hook, windows, opened, panes, contested, visited, aborts>>

\* has-session and new-session: the second of two that create it fails.
Create(c) ==
    /\ At(c, "new")
    /\ IF session
       THEN jobs' = [jobs EXCEPT ![c] = Start("end")]
            /\ UNCHANGED <<session, windows, opened, contested>>
       ELSE \E w \in Windows \ opened :
               /\ session' = TRUE
               /\ windows' = {w}
               /\ opened' = opened \union {w}
               /\ jobs' = [jobs EXCEPT ![c] = [Start("split") EXCEPT !.window = w, !.listed = {w}]]
               /\ UNCHANGED contested
    /\ UNCHANGED <<hook, panes, visited, runs, aborts>>

Attach(c) ==
    /\ At(c, "check")
    /\ jobs' = [jobs EXCEPT ![c] = IF session
                   THEN [Start("next") EXCEPT !.todo = windows, !.listed = windows]
                   ELSE Start("end")]
    /\ UNCHANGED <<session, hook, windows, opened, panes, contested, visited, runs, aborts>>

\* A window that has been closed since the list was taken ends the command.
NextWindow(c) ==
    /\ At(c, "next")
    /\ \/ /\ jobs[c].todo = {}
          /\ Goto(c, "hooks")
          /\ UNCHANGED contested
       \/ \E w \in jobs[c].todo :
             IF w \notin windows
             THEN jobs' = [jobs EXCEPT ![c] = Start("end")] /\ UNCHANGED contested
             ELSE IF HasSidebar(w)
             THEN jobs' = [jobs EXCEPT ![c].todo = @ \ {w}] /\ UNCHANGED contested
             ELSE Enter(c, w)
    /\ UNCHANGED <<session, hook, windows, opened, panes, visited, runs, aborts>>

OtherPanes(c) ==
    /\ At(c, "panes")
    /\ jobs' = [jobs EXCEPT ![c] = IF session THEN [@ EXCEPT !.at = "hooks"] ELSE Start("end")]
    /\ UNCHANGED <<session, hook, windows, opened, panes, contested, visited, runs, aborts>>

InstallHooks(c) ==
    /\ At(c, "hooks")
    /\ IF session THEN hook' = TRUE /\ visited' = visited \union jobs[c].listed
                  ELSE UNCHANGED <<hook, visited>>
    /\ jobs' = [jobs EXCEPT ![c] = Start("end")]
    /\ UNCHANGED <<session, windows, opened, panes, contested, runs, aborts>>

\* A tmux command of a command fails, or a job is killed.
Abort(j) ==
    /\ ~At(j, "end")
    /\ aborts < MaxAborts
    /\ aborts' = aborts + 1
    /\ jobs' = [jobs EXCEPT ![j] = Start("end")]
    /\ UNCHANGED <<session, hook, windows, opened, panes, contested, visited, runs>>

-----------------------------------------------------------------------------
(* The user *)

OpenWindow(w) ==
    /\ session /\ w \notin opened
    /\ windows' = windows \union {w}
    /\ opened' = opened \union {w}
    /\ jobs' = IF hook THEN [jobs EXCEPT ![w] = [Start("split") EXCEPT !.window = w]] ELSE jobs
    /\ UNCHANGED <<session, hook, panes, contested, visited, runs, aborts>>

\* The session ends with its last window, and its hooks with it.
CloseWindow(w) ==
    /\ w \in windows
    /\ windows' = windows \ {w}
    /\ session' = (windows # {w})
    /\ hook' = (hook /\ session')
    /\ UNCHANGED <<opened, panes, jobs, contested, visited, runs, aborts>>

QuitAtm(p) ==
    /\ panes[p].runs = "atm"
    /\ panes' = [panes EXCEPT ![p].runs = "shell"]
    /\ UNCHANGED <<session, hook, windows, opened, jobs, contested, visited, runs, aborts>>

-----------------------------------------------------------------------------

Init ==
    /\ session = FALSE /\ hook = FALSE
    /\ windows = {} /\ opened = {} /\ panes = <<>>
    /\ jobs = [j \in Commands \union Windows |-> Start("end")]
    /\ contested = {} /\ visited = {}
    /\ runs = 0 /\ aborts = 0

Next ==
    \/ \E c \in Commands : \/ Begin(c, "new") \/ Begin(c, "check")
                           \/ Create(c) \/ Attach(c) \/ NextWindow(c)
                           \/ Split(c) \/ Tag(c) \/ StartAtm(c)
                           \/ OtherPanes(c) \/ InstallHooks(c)
    \/ \E w \in Windows : \/ HookSplit(w) \/ HookTag(w) \/ HookStart(w)
                          \/ OpenWindow(w) \/ CloseWindow(w)
    \/ \E j \in DOMAIN jobs : Abort(j)
    \/ \E p \in DOMAIN panes : QuitAtm(p)

Spec == Init /\ [][Next]_vars

-----------------------------------------------------------------------------
(* Properties *)

\* The variables keep their types; a hook is set in a session that exists.
TypeOK ==
    /\ session = (windows # {}) /\ hook \in BOOLEAN /\ (hook => session)
    /\ windows \subseteq opened /\ opened \subseteq Windows
    /\ panes \in Seq(Pane)
    /\ jobs \in [Commands \union Windows -> Job]
    /\ contested \subseteq opened /\ visited \subseteq opened

\* A window gets one pane tagged as its sidebar, however often commands are cut
\* short and repeated and whether its atm still runs, unless two jobs were at it
\* together or the script of another window acted in it; and a command that
\* succeeds leaves none of the windows it listed without such a pane.
OneSidebar ==
    \A w \in windows :
       /\ w \notin contested => Cardinality(Sidebars(w)) <= 1
       /\ w \in visited => Sidebars(w) # {}

=============================================================================
