---------------------------- MODULE Environment ----------------------------
(***************************************************************************)
(* Where the system acts on what is not its own: the files of setup and    *)
(* uninstall, the tmux sessions of workspace create and attach, the panes  *)
(* of layout, the processes that discovery looks at, and the agent's       *)
(* prompt that reply and peek read.  What they touch is disjoint, so a     *)
(* behaviour is one of a single area; the variables of the others stay     *)
(* Untouched.                                                              *)
(***************************************************************************)
EXTENDS Naturals

CONSTANTS
    HookTypes, NoFile, Torn, MaxCommands, MaxEdits,
    Windows, Commands, NoWindow,
    MaxAborts,  \* bound: steps that fail and commands that are killed
    Custom,
    LastPid, LastPane, NoPid, NoPane, NoProcess, Looks, MaxDepth, MaxSessions, MaxStarts,
    Ids, AgentPane, OtherPane, NoPrompt, NoAnswer, OptionCounts, LinesAbove, LineKinds,
    FallbackLines, MaxMoves,
    Untouched

VARIABLES
    area,
    claude, pi, script, package, harnesses, command, outcome, owned, spent,
    session, hook, windows, opened, panes, jobs, contested, visited, runs, aborts,
    layout, regions, todo, placed, at,
    procs, shells, started, highest, known, scan,
    above, prompt, answer, open, request

files == <<claude, pi, script, package, harnesses, command, outcome, owned, spent>>
tmux == <<session, hook, windows, opened, panes, jobs, contested, visited, runs, aborts>>
slots == <<layout, regions, todo, placed, at>>
processes == <<procs, shells, started, highest, known, scan>>
screen == <<above, prompt, answer, open, request>>

vars == <<area, files, tmux, slots, processes, screen>>

Setup == INSTANCE Setup
Workspace == INSTANCE Workspace
PaneLayout == INSTANCE PaneLayout
Discovery == INSTANCE Discovery
PromptReply == INSTANCE PromptReply

\* A file that is not there, a torn one and one that can be read differ, and so
\* do a window, a process, a pane or a prompt and none, and a terminal and a window;
\* layouts are trees of slots.
ASSUME EnvironmentAssumption ==
    /\ NoFile # Torn
    /\ NoFile \notin Setup!Settings /\ Torn \notin Setup!Settings
    /\ \A packages \in SUBSET {Setup!Atm, Setup!Own} : packages \notin {NoFile, Torn}
    /\ NoWindow \notin Windows /\ Commands \intersect Windows = {}
    /\ \A l \in PaneLayout!Layouts : PaneLayout!IsLayout(l)
    /\ NoPid \notin Discovery!Pids /\ NoPane \notin Discovery!Panes
    /\ NoProcess \notin Discovery!Process
    /\ LastPid \in Nat /\ LastPane \in Nat /\ Looks \subseteq Discovery!AllLooks
    /\ MaxDepth \in Nat /\ MaxSessions \in Nat /\ MaxStarts \in Nat
    /\ NoPrompt \notin PromptReply!Prompts /\ LinesAbove \in Nat \ {0}
    /\ \A line \in LineKinds : line.number \in Nat
    /\ OptionCounts \subseteq Nat /\ \E n \in OptionCounts : \A m \in OptionCounts : m <= n

NoFiles ==
    /\ claude = Untouched /\ pi = Untouched /\ script = Untouched /\ package = Untouched
    /\ harnesses = Untouched /\ command = Untouched /\ outcome = Untouched
    /\ owned = Untouched /\ spent = Untouched

NoTmux ==
    /\ session = Untouched /\ hook = Untouched /\ windows = Untouched
    /\ opened = Untouched /\ panes = Untouched /\ jobs = Untouched
    /\ contested = Untouched /\ visited = Untouched
    /\ runs = Untouched /\ aborts = Untouched

NoSlots ==
    /\ layout = Untouched /\ regions = Untouched /\ todo = Untouched
    /\ placed = Untouched /\ at = Untouched

NoProcesses ==
    /\ procs = Untouched /\ shells = Untouched /\ started = Untouched /\ highest = Untouched
    /\ known = Untouched /\ scan = Untouched

NoScreen ==
    /\ above = Untouched /\ prompt = Untouched /\ answer = Untouched
    /\ open = Untouched /\ request = Untouched

Init ==
    \/ area = "setup" /\ Setup!Init /\ NoTmux /\ NoSlots /\ NoProcesses /\ NoScreen
    \/ area = "workspace" /\ Workspace!Init /\ NoFiles /\ NoSlots /\ NoProcesses /\ NoScreen
    \/ area = "layout" /\ PaneLayout!Init /\ NoFiles /\ NoTmux /\ NoProcesses /\ NoScreen
    \/ area = "discovery" /\ Discovery!Init /\ NoFiles /\ NoTmux /\ NoSlots /\ NoScreen
    \/ area = "prompt" /\ PromptReply!Init /\ NoFiles /\ NoTmux /\ NoSlots /\ NoProcesses

Next ==
    \/ area = "setup" /\ Setup!Next /\ UNCHANGED <<area, tmux, slots, processes, screen>>
    \/ area = "workspace" /\ Workspace!Next /\ UNCHANGED <<area, files, slots, processes, screen>>
    \/ area = "layout" /\ PaneLayout!Next /\ UNCHANGED <<area, files, tmux, processes, screen>>
    \/ area = "discovery" /\ Discovery!Next /\ UNCHANGED <<area, files, tmux, slots, screen>>
    \/ area = "prompt" /\ PromptReply!Next /\ UNCHANGED <<area, files, tmux, slots, processes>>

Spec == Init /\ [][Next]_vars

-----------------------------------------------------------------------------
(* Properties *)

\* The variables of the area keep their types.
TypeOK ==
    /\ area = "setup" => Setup!TypeOK
    /\ area = "workspace" => Workspace!TypeOK
    /\ area = "layout" => PaneLayout!TypeOK
    /\ area = "discovery" => Discovery!TypeOK
    /\ area = "prompt" => PromptReply!TypeOK

\* setup, uninstall: Claude Code is never told to run a script that is not there
\* and runs it once for one event, whatever commands are cut short.
HooksServed == area = "setup" => Setup!HooksServed

\* setup, uninstall: the user's own hook entries and packages survive.
OthersKept == area = "setup" => Setup!OthersKept

\* setup, uninstall: a command that reports success has done all of its work,
\* whatever an earlier one left half done.
Completes == area = "setup" => Setup!Completes

\* workspace: a window has one sidebar, unless two jobs were at it together or
\* the script of another window acted in it.
OneSidebar == area = "workspace" => Workspace!OneSidebar

\* layout: every leaf of the layout has one pane of its own.
SlotsFilled == area = "layout" => PaneLayout!SlotsFilled

\* discover: an agent that runs during a whole scan is found, in its own pane,
\* unless the registry is full or still has an earlier process with its pid.
SteadyAgentsFound == area = "discovery" => Discovery!SteadyAgentsFound

\* reply, peek: the option that is asked for is the one the agent takes, but for
\* the arrow keys of the user; a prompt of up to nine options is shown whole.
PromptServed == area = "prompt" => PromptReply!PromptServed

=============================================================================
