# TLA+ models of ATM, the agent tmux monitor

ATM shows the coding agents (Claude Code, pi) that run on a machine. Agents
report to a daemon, `atmd`; the daemon keeps one session per agent process and
streams changes to terminal UIs, `atm`. This directory holds TLA+ modules of
the parts in which order, concurrency and failure matter, configurations that
model-check them with TLC, and theorems checked by TLAPS.

Paths below are relative to `src/`.

## 1. The system

    agent process --hook, status line, pi event--> ConnectionHandler --command--> RegistryActor
         |                                               |  ^                         |
         | /proc (start time, parent)                    |  | Subscribe, ...          | broadcast channel
         +-----------------------------------------------|--|-----> discovery         v
                                                         |  |                     broadcaster
                                                         |  +---- atm (TUI) <---------+
                                                         +-- session list ----^   events

| component | state | operations | interacts by | what is hard |
|---|---|---|---|---|
| `RegistryActor` (atmd/src/registry/actor.rs) | sessions by pid, index id to pid, pending subagents | Register, UpdateFromStatusLine, ApplyLifecycleEvent, RegisterDiscovered, Remove, CleanupStale, RefreshGitInfo, queries | commands on a channel, one at a time; publishes events | two keys for one session, ids that change, pid reuse, late and lost hooks, correlation of children |
| server and broadcaster (atmd/src/server/mod.rs) | subscriber map, accept loop | broadcast an event, drop failed clients | broadcast channel, `RwLock` map, sockets | lock held across awaits, lagging receiver |
| `ConnectionHandler` (atmd/src/server/connection.rs) | client id, subscription | handshake, Subscribe, Unsubscribe, ListSessions, vendor messages | one task per socket | snapshot against stream, limit of clients, timeouts |
| discovery (atmd/src/discovery.rs), `/proc` helpers (atmd/src/tmux.rs) | none | scan, RegisterDiscovered | registry commands | data stale when it arrives |
| session domain (atm-core/src/session.rs) | status, activity, links, pid and start time | apply_lifecycle_event, set_pid, is_process_alive | owned by the registry | event order, pid reuse |
| adapters (atm-claude-adapter, atm-pi-adapter) | none | translate vendor events | called by handlers | duplicates, suppressed events |
| pi extension (extensions/pi-atm) | bounded outbox, socket | enqueue, flush, reconnect | daemon socket | drop-oldest during a flush |
| hook script (atm/scripts/atm-hook) | none | send one event within 100 ms | daemon socket | loss |
| TUI client (atm/src/client.rs) | connection, line buffer | connect with retry, Subscribe, apply messages | daemon socket, UI channel | reconnection, cancellation |
| TUI state (atm/src/app.rs, atm-core/src/tree.rs, atm/src/keybinding.rs) | sessions, tree, folds, selection, key prefix | updates, folds, motions | event loop | folds and selection while the tree changes |
| daemon process (src/bin/atmd.rs, atm/src/daemon.rs) | pid file, socket file | start, stop, status, automatic start | files, signals | races of several starters, leftovers of a crash |
| tmux commands (src/bin/atm.rs, atm-tmux) | none of their own: windows, panes, tags and screens of tmux | kill, interrupt, send, reply, peek, workspace create and attach, layout | one tmux command after the other | commands that fail half-way, hooks of tmux that run meanwhile, screens that change |
| setup (atm/src/setup.rs) | files of Claude Code and pi | setup, uninstall | files that others edit too | writes that are not atomic, reruns after a failure |
| the rest | - | drawing, spawn, list, status, resource monitor, domain values | - | not modelled, see section 8 |

The properties that make them correct, by component:

* registry: index and map agree; subscribers can reconstruct the set of
  sessions; dead processes leave; a subagent is attached once and to the right
  process.
* subscription: the limit holds, nobody is written to who is not subscribed,
  locks are always given, departed clients leave, what a client displays
  converges to the registry.
* tree and TUI: every session is where the tree should show it; the cursor stays
  on a row and, through folds, near its node; what is displayed as an agent's
  terminal is that agent's; a command acts on what it was typed at.
* status: what the agent waits for or does is what is shown, through lost hooks,
  status lines that come late, interrupts and restarts of the daemon.
* daemon process: commands given in turn keep one daemon, whatever crashes have
  left behind; a daemon that can be found can be reached.
* outbox and client: events arrive in order and at most once, none is held back,
  and the screen never stops showing them for good.
* discovery: a scan misses no agent that runs all the time, and puts it in its
  own pane.
* setup, workspaces, layouts, replies: what belongs to others survives, a
  command that is repeated completes what was cut short, nothing is made twice,
  and a key reaches the option it was meant for.

`PROJECT.json` lists all components, the definitions' source lines and the
hazards, each at its line with the properties that would catch it.

## 2. Modules

| module | models | state |
|---|---|---|
| `SessionRegistry` | `RegistryActor` with the processes it observes | `sessions`, `index`, `pending`, `shown`, environment `procs`, `spawned` |
| `SessionDirectory` | abstract: what the registry promises to those who hold an id | `idOf`, `route`, `shown` |
| `MCSessionRegistry` | instances for TLC | - |
| `SessionRegistryProofs` | theorems about `SessionRegistry` | - |
| `Subscription` | event channel, broadcaster, subscriber map, connection handlers, sockets | `live`, `events`, `sending`, `subs`, `handler`, `wanted`, `reply`, `open`, `wire` |
| `ClientView` | `Subscription` with the session table of the clients | adds `view` and the history variables `gap`, `prospect`, `standing` |
| `SubscriptionProofs` | theorems about `Subscription` and `ClientView` | - |
| `MCClientView` | the symmetry of its instances | - |
| `Keybinding` | `InputHandler`, the automaton of keys, and its table of help | none: operators |
| `SessionTree` | `build_tree`, `flatten_tree`, the session views they arrange | none: operators |
| `TuiApp` | `App` in the event loop, over the two above | `sessions`, `filter_pane_ids`, `expanded`, `tree`, `tree_rows`, `selected_index`, `show_help`, `capture_pane_id`, `captured_output`, `input`, `running`, the task's `capturing`; `killed` and the history `armed`, `lagging` |
| `TuiProofs` | theorems about `TuiApp`, `SessionTree` and `Keybinding` | - |
| `MCTuiApp` | the session views of its instances | - |
| `Lifecycle` | the lifecycle events and both adapters' translations into them | none: operators |
| `SessionStatus` | the status of one session next to what its agent really does | `session`, environment `agent`, `hooks`, `lines`, history `missed` |
| `SessionStatusProofs` | theorems about `SessionStatus` | - |
| `DaemonProcess` | atmd's commands, pid file and socket file, the TUI that starts a daemon | `process`, `pidFile`, `socketFile`, `tui`, `attached`, `spent`, `history` |
| `DaemonProcessProofs` | theorems about `DaemonProcess` | - |
| `LossyFifo` | abstract: what the daemon may rely on about pi's events | `queue`, `heard` |
| `PiOutbox` | the pi extension's outbox and socket, and the handler at the other end | `link`, `paused`, `backoff`, `outbox`, `wire`, `peer`, `up`, `known`, `faults` |
| `Delivery` | `PiOutbox` composed with the TUI's connection | adds `client`, `handler`, `messages`, `shown` |
| `DeliveryProofs` | theorems about `PiOutbox` and `Delivery` | - |
| `Setup` | setup and uninstall on the files of Claude Code and pi | `claude`, `pi`, `script`, `package`, `harnesses`, `command`, `outcome`, `owned`, `spent` |
| `Workspace` | workspace create and attach, the hook for new windows | `session`, `hook`, `windows`, `opened`, `panes`, `jobs`, history `contested`, `visited`, `runs`, `aborts` |
| `PaneLayout` | the layout presets, layouts of configuration files and `apply_layout` | `layout`, `regions`, `todo`, `placed`, `at` |
| `Discovery` | the scan of `/proc`, the search for a tmux pane, the registration | `known`, `scan`, environment `procs`, `shells`, `started`, `highest` |
| `PromptReply` | kill, interrupt, send, reply and peek at an agent's pane | `request`, environment `above`, `prompt`, `answer`, `open` |
| `Environment` | the five modules above side by side | adds `area` |
| `EnvironmentProofs` | theorems about the areas `Setup`, `Workspace` and `PaneLayout` of `Environment` | - |
| `AgentProofs` | theorems about the areas `Discovery` and `PromptReply` of `Environment`, and its types | - |
| `MCEnvironment` | the instance of `Environment` | - |

`Environment` composes modules that share no state: a behaviour is one of a
single area, the variables of the others being `Untouched`. The state graph is
the disjoint union of theirs.

### SessionRegistry

The actor handles one command at a time, so each command is one action and
calls within a handler are part of it.

| code | action or operator |
|---|---|
| `handle_register` (test-only command, synthetic pid) | `Register` |
| `handle_register_discovered` | `RegisterDiscovered` |
| `update_or_create_by_pid` | `StatusLine` |
| `handle_update_from_status_line` without a pid | `StatusLineById` |
| `handle_apply_lifecycle_event` | `ApplyEvent` within `LifecycleEvent`, `ChildSessionStart`, `ChildSessionEnd`; `SessionEnd` |
| `reconcile_session_id` | `Renamed`, `Reindexed` |
| `try_correlate_subagent`, `is_descendant_of` | `Matches`, `MayAdopt`, `Linked`, `IsDescendantOf` |
| `handle_remove`, `handle_remove_by_pid` | `Remove`, `RemoveByPid` |
| `handle_cleanup_stale`, `is_process_alive` | `CleanupStale`, `Dead` |
| `handle_refresh_git_info` | `RefreshGitInfo` |
| `Instant::elapsed` of a pending subagent | `AgePending` |

`shown` is what a subscriber displays that has applied every published event.
The environment may start and end processes at any time, reuse pids, and send
any message of a process in any order, also after its end where `LateMessages`
holds. `Speaks` says which ids messages of a process may carry: this is where
the assumptions about vendors are made, and every theorem names the one it uses.

Abstractions: displayed data (cost, tokens, working directory, git, tmux pane,
tool history, status) is left out; a position in the vector of pending subagents
is the number of announcements so far; child ids are a set; a pid of 0, which
every path rejects or never receives, does not occur; hooks of one subagent
arrive in order (start before end), though either may be lost, and each subagent
id is announced once.

### Subscription and ClientView

Every `await` at which tasks can interleave ends an action: taking the map's
lock, a writer's mutex, writing to a socket, asking the registry. The broadcast
channel drops its oldest event when full, as `tokio::sync::broadcast` does for
the one receiver the daemon has. `NextEvent` is its `recv`; `LockSubscribers` to
`FinishEvent` is `broadcast_event`, whose read lock is held in between;
`AddSubscriber` and
`Refuse` are the write-locked block of Subscribe; `Snapshot` and `SendList` are
its end and ListSessions. `OtherRequest` stands for the requests that touch none
of this state and are answered in one step: Ping, Discover, a second Connect and
what cannot be understood; Disconnect is among the latter, because its handler
returns an error, which is answered before the handler reads on. A write by a
handler may time out on a full socket (`NotDelivered`), a write by the
broadcaster waits.

Abstractions: the registry is the set of session ids, a rename being a removal
followed by an appearance; `Registered` events, which the broadcaster drops, do
not occur; a message is written wholly or not at all; a connection is its own
client id; the handshake is over when a connection begins, and what a vendor's
message does is a step of the registry.

`ClientView` adds what a client displays, what the messages due to it will make it
display (`After`: of each session, what the last message says that decides about
it), lines that the client cannot read (`Garble`) and three history variables,
which constrain nothing. `standing[c]` says how what subscriber c has been and will
be sent fits the registry: `none` (its list is still to come), `exact`, or one of
four ways to go wrong, `overtaken` (an event younger than the list was written
before it), `undelivered` (the list was not written; after `WRITE_TIMEOUT`, or with
the client about to go, the handler goes on with the connection subscribed), `lost`
(the channel dropped an event) and `garbled` (a line did not survive the socket: the
client drops what it has read of a line when a command of the user comes in between,
and a write that times out leaves a fragment that spoils the line after it).
`prospect[c]` is what `standing[c]` becomes when the list being sent arrives; `gap`
says that the channel lost events younger than the one being sent.

### Keybinding, SessionTree and TuiApp

| code | action or operator |
|---|---|
| `InputHandler::step` and the functions of its states | `NextInput` (state), `Output` (action) |
| `build_tree` with its `BTreeMap`s, `sort_agent_nodes` | `BuildTree`, with one operator per level; `Ascending`, `SortedBy` |
| `flatten_tree`, `all_node_ids` | `FlattenTree`, `AllNodeIds` |
| `App::rebuild_tree`, `clamp_selection` | `RebuildTree`, `Clamp` |
| `update_sessions`, `replace_sessions`, `remove_session`, `update_filter_panes` with their branches of the event loop | `SessionUpdate`, `SessionListReplace`, `SessionRemoved`, `FilterUpdate` |
| `spawn_capture_task`, `update_capture` | `CaptureTick`, `CaptureFailed`, `CaptureUpdate` |
| `select_*` | `Move` |
| `open_fold`, `close_fold`, `toggle_fold`, `collapse_all`, `expand_all` | `OpenFold`, `CloseFold`, `ToggleFold`, `CollapseAll`, `Opened` |
| the key branches of `run_event_loop` | `KeyToHelp`, `KeyToApp`, `Perform` |

The event loop takes one event at a time, so an event is an action. A tree is
the sequence of its nodes in preorder, each with the ids of those above it;
flattening keeps the nodes all of whose ancestors are expanded, which is what
the recursion does. `armed` is the session a pending d is aimed at: the one it
was pressed on, or the one a message has put under the cursor since, which the
user can see. `lagging` holds from a removal or change of the filter to the next
event that follows the selection. `Hints` is the table the help popup and the
footer are drawn from, `Typed` what a sequence of keys makes the automaton do.

Abstractions: keys of equal meaning are represented by one, the digits by 0 to
2; a half page is a constant; sessions that started at the same time are shown in
some fixed order of their set (the stable sort leaves them in the order of the map,
which `SortedBy` does not say); one capture is under way at a time, where the
channel could hold several; tmux may fail at any time; what a row displays besides
its session, agents spawned, connection state and blinking are left out.

### SessionDirectory

At most one process's id appears or changes in a step, several may go at once;
each change is announced in the step that makes it, and a route leads to the
process that took the id last. The refinement mapping takes an entry's id for
`idOf`, the index for `route` and the announced ids for `shown`. Steps of the
registry that touch no id (links, ages, git information) are stutters or
repeated announcements. `Forgetful`, which the registry sets where rediscovery
happens, allows a rename that announces the new id without withdrawing the old.

### Lifecycle and SessionStatus

| code | action or operator |
|---|---|
| `ClaudeEventType`, `to_lifecycle_event` of atm-claude-adapter | `HookMeaning`, `NotificationMeaning`, `FromClaude` |
| `PiEventType`, `to_lifecycle_event` of atm-pi-adapter | `PiMeaning`, `FromPi` |
| `apply_lifecycle_event` (session.rs) | `StatusOf`, `ActivityOf`, `Apply` |
| `record_tool_use` | `RecordToolUse` |
| `handle_hook_event`, `handle_pi_event`, `handle_apply_lifecycle_event` | `Translate`, `Heard`, `DeliverHook` |
| status line by pid | `FromStatusLine`, `DeliverStatusLine` |
| the hook script's 100 ms | `LoseHook`, `LoseStatusLine` |
| registry restart, discovery, cleanup | `RestartDaemon`, `Discover`, `CleanupStale` |
| pi's patched select dialog | `AskPermission` |

The agent is the environment: it starts, gets prompts, calls tools, asks for
permission, is interrupted, ends turns and fires the hooks the vendors document
for each. Claude Code's hooks arrive in order or are lost, its status lines
arrive at any time; pi's events are those of one connection. `missed` remembers
that a hook was lost since the last turn boundary that was heard.

### DaemonProcess

| code | action |
|---|---|
| `main` of atmd: `Start`, `Stop` | `Run`, `ReadPid`, `Judge`, `ClearPidFile`, `NotRunning`, `SendSignal`, `Exit` |
| `daemonize`, `write_pid` | `Fork`, `CreatePidFile`, `WritePid` |
| signal handlers, `wait_for_shutdown_signal` | `HandleSignals`, `Signalled`, `Interrupt` |
| `DaemonServer::run`, `cleanup` | `LookForSocket`, `ReplaceSocket`, `Bind`, `Shutdown`, `RemoveFiles` |
| `ensure_daemon_running`, `connect_with_retry` | `FindDaemon`, `SpawnDaemon`, `GiveUp`, `ConnectTui` |

A file operation is an action: writing the pid file creates it empty and then
fills it, so that others read an empty file in between. A pid is free as soon as
its process is gone and may be given to the next command at once. `history`
remembers what the properties except: that commands overlapped, that a process
was killed, that a pid was used again.

### PiOutbox, LossyFifo and Delivery

| code | action or operator |
|---|---|
| `enqueue`, `flushOutboxTo` | `enqueue`, `flushOutboxTo` |
| `send`, `openSocket` | `send`, `WriteOrQueue`, `openSocket` |
| the socket's callbacks | `OnConnect`, `OnDrain`, `OnClose`, `EndBackoff` |
| the daemon's end | `HandlePiEvent`, `TimeOut`, `Refuse`, `EndDaemon`, `StartDaemon` |
| `DaemonClient::run`, `connect_with_retry`, `handle_connection` | `Connect`, `Greeted`, `Disconnect` |
| `message_loop`, rescans among them | `Read`, `Discover` |
| the TUI's handler in the daemon | `Handshake`, `Subscribe`, `ListSessions`, `Expire`, `Stop`, `Publish` |

A callback of JavaScript is one action. The branch of `send` for a write that
throws is left out: Node reports what goes wrong with a socket by its events, which
`OnClose` stands for. The refinement takes the lines on the
wire followed by the outbox for the queue of `LossyFifo`: in a step some of the
queue may go (`PartOf`: pushed out, lost with a connection, not heard), the first
may be heard and one may be added; none is overtaken or repeated.
A rescan by the TUI wins the select of the message loop and thereby drops the
part of a line that had been read.

### Setup, Workspace and PaneLayout

| code | action or operator |
|---|---|
| `install_hook_script`, `setup_claude_code` | `InstallHookScript`, `SetupClaudeCode` |
| `write_json_file_pretty`: empty, then filled | `WriteSettings`, `WritePiSettings` |
| `uninstall` | `UninstallHooks`, `UninstallStatusLine`, `RemoveHookScript`, `RemovePiPackage` |
| `install_pi_extension`, `uninstall_pi_extension` | `InstallPiExtension`, `EditPiPackages`, `FailForPi` |
| a command that is killed, or a file operation that fails | `Abort` |
| `cmd_workspace`, `cmd_workspace_attach` | `Create`, `Attach`, `NextWindow`, `OtherPanes`, `InstallHooks` |
| `inject_sidebar` of a command | `Split`, `Tag`, `StartAtm` |
| the script of the after-new-window hook | `HookSplit`, `HookTag`, `HookStart` |
| the presets, `apply_slot` | `preset_*`, `Calls`, `Fill`, `apply_slot`, `Fail` |

The user edits settings files, opens and closes windows and quits the atm of a
sidebar at any time. A command names the pane it acts on and ends when tmux
fails. The hook's script names no window for its split, which is made in
whatever window is current, any one or none of this session, and goes on when a
tmux command fails: without a pane to name, its tag and its keys go to a current
pane. `contested` remembers the windows in which two jobs met or the script of
another window acted. A hook type has a number of entries with atm's command,
with a command of the user's, and with both; a pane lies where the splits it
comes from put it; a call of `apply_slot` is an action, since each split is a
tmux command that may fail. `Layouts` are the presets and those of configuration
files (`Custom`), which may be any trees of slots (`IsLayout`).

### Discovery

| code | action or operator |
|---|---|
| `scan_agent_processes`, `detect_agent_process` | `BeginScan`, `Detect`, `PassOver` |
| `check_via_exe`, `check_via_cmdline`, `BUILTIN_HARNESSES` | `Recognised`, `Harnesses` |
| `get_process_info`, `find_pane_for_pid`, `list_tmux_panes` | `Locate`, `FindPane`, `PaneTable` |
| `discover`, `discover_session` | `EndOfList`, `Register`, `EndScan` |
| `handle_register_discovered` | `Added`, `Rediscovered` |
| `reconcile_session_id` | `Reconcile` |
| `handle_cleanup_stale`, `is_process_alive` | `Cleanup`, `HasOwnSession` |

Recognition and the directory are read in one action, which is also when the
pane table is; the walk up the parents comes later. Each process looks like a
known harness in the path of its program, in a bare name, or in an argument only.
`home` and `depth` are history: the pane a process descends from, and how far its
shell is above it. The scan's history says what the property depends on: `steady`
are the processes that have run since it began, `settled` those of them with no
exit above them; `placed` got the pane it found for them, `refused` met a full
registry, `masked` are passed over since the registry still has the session of an
earlier process with their pid, and of `blind` tmux did not answer. Of the agents'
messages there is the real id they bring; sessions made or ended by messages are
the registry's subject.

### PromptReply

| code | action or operator |
|---|---|
| `fetch_sessions`, `resolve_pane_id` | `FetchSessions`, `Resolved` |
| `cmd_kill`, `cmd_interrupt`, `cmd_send` | `Kill`, `PressWithoutReading` |
| `cmd_reply`, `find_selected_option` | `ReadCursor`, `KeysTo`, `find_selected_option` |
| `cmd_peek`, `extract_prompt` | `cmd_peek`, `extract_prompt` |
| one `send-keys` | `Press` |

A line of the screen is one of the kinds `extract_prompt` and
`find_selected_option` distinguish. The agent prints, asks and withdraws and the
user types between any two steps of a command. `saw` is the prompt the command
has read, until somebody else answers, withdraws or replaces it; the user's arrow
keys leave it up and are counted in `moved` (`Interfere`), since each of them moves
the cursor that reply counts its keys from.

## 3. Runs

| run | result | shows |
|---|---|---|
| `RegistryIdentity` | holds | `IndexComplete`, `SubscriberAgrees`, `DeadEntriesReaped` when every id belongs to one process: 3 pids, 3 vendor ids (two of them for one process, as after /clear), each pid used twice, late messages, capacity 2 |
| `RegistryShared` | holds | `IndexSound` and the refinement `DirectoryKept` when any of 2 processes may carry any of 2 ids, with the test-only synthetic entry and rediscovery |
| `RegistrySubagents` | holds | `TypeOK`, `AgentAdoptedOnce`, `AdoptedBySpawner` with 2 subagents and 2 processes that spawn each other, end and are replaced |
| `ClientViewDelivery` | holds | `TypeOK`, `CatchesUp`, `OnlySubscribersWritten` with 2 sessions and one connection that comes and goes |
| `ClientViewOvertaken` | violated | `QuietClientsAgree`, of clients that got their list and lost no message: see findings |
| `SubscriptionLocks` | holds | `ClientLimit`, `LockObtained`, `DepartedForgotten` with 2 connections for 1 place |
| `TuiDisplay` | holds | the type invariant, `SelectionOnRow`, `Placed`, `OutputOfSelected`, `CursorFollowsFold`, `KillsWhatWasArmed` with an agent and its subagent, which appears outside any project, in a second worktree and below its parent, in two panes, under a filter that admits one or both of them, in pick mode |
| `SessionStatus` | holds | `TypeOK`, `ActivityRecorded`, `QuietStatus`, `IdleAtLast` for Claude Code and pi with a plain and an interactive tool, two hooks and a status line under way, lost hooks and restarts |
| `DaemonStart` | holds | `TypeOK`, `OneDaemonInTurn`, `NamedIsReachable`, `TuiServed` with 4 commands in 2 pids, a signal by hand, a crash and a TUI |
| `Delivery` | holds | `TypeOK`, `NoneHeldBack`, `KeepsShowing` and the refinement `InOrder` with 2 events, an outbox and a socket of 2 lines and 2 faults |
| `Environment` | holds | setup: `HooksServed`, `OthersKept`, `Completes`; workspace: `OneSidebar`; layout: `SlotsFilled`; discovery: `SteadyAgentsFound`; prompt: `PromptServed`; and each area's types |
| `LayoutPreset` | violated | `PanelBesideAll`: see findings |

Bounds. `MaxStart` = 2 lets every pid be reused once, which is all that start
times distinguish. Capacity 1 or 2 with two or three processes makes the
registry full and, by lifecycle events, overfull. Two pending subagents are
needed for the FIFO choice; three levels of `MaxDepth` exceed the longest chain
of two processes. A channel of one or two events overflows; a socket of one
message is full as soon as the client does not read. One connection suffices for
delivery, because connections affect each other only through locks, the subject
of the run with two. Sessions, and processes with the ids that belong to them,
are interchangeable where a configuration has a symmetry; the runs with liveness
have none. The four views of `TuiDisplay` make trees with one and two projects,
with and without worktrees and subagents, so of every depth there is, and of up
to five rows; a count of up to 2 and a half page of 2 rows reach beyond them.
Quitting ends the terminal UI, so its run does not check for deadlock.

A tool history of two entries drops its oldest; two hooks under way can be
overtaken by a status line and be cut by a restart. With two pids, a second
command finds the first one's, and a third reuses a pid; four commands are a
start and a stop before and after a crash. The outbox overflows with a third
event; two faults are an end of the daemon during the recovery from another.
Setup runs up to three commands with two edits and two aborts in any order, so a
command can be cut short, repeated and cut short again; two hook types show one
written and one left. Workspaces have two windows and two terminals, so that a
command and a hook, or two commands, meet in one window, and a script finds
another window than its own. All presets are laid out, and two layouts of
configuration files: one with three children to a slot, one with a container in
a later child and with a single child. Three pids and two panes give a shell, an
agent and a process between or beside them, with `MaxDepth` = 2 a shell that is
too far above, with one place in the registry a registration that fails, and
with three starts for three pids an agent on a pid whose earlier session is not
reaped yet. A prompt has no options (it waits for yes or no), three, so a key
count of two in both directions, or ten, which is more than peek recognises; two
lines above it hold a footer and a cursor, a list or text; up to two arrow keys
of the user's fall into a reply. In `DaemonStart`, `Environment` and
`LayoutPreset` commands are bounded and the system may come to rest, so they do
not check for deadlock.

## 4. Fairness

* `SessionRegistry!FairSpec`: weak fairness of `CleanupStale`. The cleanup task
  ticks every two seconds as long as the daemon runs. Nothing is assumed of
  processes, vendors and clients.
* `Subscription!FairSpec`: weak fairness of the broadcaster's steps; strong
  fairness of each handler's steps, since tokio's locks are first come, first
  served and a waiting handler cannot be overtaken for ever; a handler whose
  client is gone reads the end of file; a connected client reads what it is
  sent. The last is an assumption about clients and not enforced by the daemon:
  the broadcaster has no write timeout, so one client that stops reading blocks
  it, with the lock. Nobody is assumed to send requests or events.
* `SessionStatus!FairSpec`: what is under way arrives or is lost, since the hook
  script gives up after 100 ms; an agent that stays idle fires its reminder, as
  Claude Code does after a minute. Agents and users are free.
* `DaemonProcess!FairSpec`: weak fairness of each process's own steps and of the
  TUI's loop. Nobody has to give commands or signals.
* `Delivery!DeliveryFairSpec`: pi goes on working (without it there is nothing to
  show), Node's timer and socket callbacks run, the daemon's tasks are scheduled,
  a daemon that has ended is started again, the TUI's client task runs. Faults
  are bounded, as a daemon that fails for ever shows nothing.

## 5. Findings

* **The initial list can undo younger events** (`ClientViewOvertaken`). A client
  is entered into the subscriber map before its list is taken and sent; an event
  written in between is undone by the list. A removed session stays on display
  until the client asks for a list again. The trace is of a client that has been
  sent its list and lost no message. `CatchesUp` shows that three others are the only
  further ways in which the display of a connected subscriber differs for good: the
  channel overflows, the list is not delivered, a line is lost on the socket.
* **The pair preset's panel is beside one agent only** (`LayoutPreset`).
  `apply_slot` splits a container's further children off the pane of its first
  child, after that child's own children have been split off it. The panel is
  therefore to the right of the first agent, and the second agent runs below
  both, where the preset promises two stacked agents on the left and the sidebar
  on the right. All presets whose first child is a container are affected in the
  same way: squad, grid, workspace and workspace_editor. Each pane exists and has
  its role (`SlotsFilled`).

### Disagreements

Between the code and what its texts or its users may expect, met on the way;
each is part of the models, and the properties except it where they name it.

* Registry: a session whose first message announces a subagent becomes its own
  child, since `is_descendant_of` compares before it takes the first parent.
  Discovery of a session that has its real id renames it to `pending-{pid}` and
  publishes Updated only, so that clients keep the old id besides the new one
  (`Forgetful` in `SessionDirectory`). With one id on two processes an entry can
  be out of reach of messages without a pid. Sessions created by lifecycle events
  are not counted against the capacity.
* TUI: an empty set of expanded nodes means "never shown" to `rebuild_tree`, so
  after `zM` the next update opens all folds. Agents in a subdirectory of a
  repository have a project and no worktree; their node is called `unknown` in
  every project, and folding one folds the others. `zR` and `zo` keep the
  cursor's index, and `zR` thereby moves it to another node; after
  `SessionRemoved` and a change of the filter the previous agent's terminal stays
  on display until the next event; a message between the two d's of `dd` can put
  another agent under the second one; a subagent whose parent is not shown is
  shown nowhere, and parents' links are never cleared; `1G` means `G`, and `^c`
  after `z` closes a fold.
* Status: a wait for the user disappears when a parallel tool of the same agent
  ends, or when a status line follows it, and after a restart of the daemon until
  the next hook.
* Daemon: two starts that overlap can leave two daemons, one of which no client
  can reach. A stale pid file whose pid is in use by another program makes start
  refuse, and stop sends that program a signal.
* Delivery: the comment at pi-atm.ts:227 says that queued lines are dropped when
  the connection fails; they are kept, up to the outbox's limit. A client whose
  handshake fails tries again at once, without the backoff.
* Protocol: `Disconnect` ("Client disconnecting gracefully") is answered with an
  error and does not end the connection; a first message is read "with timeout"
  (connection.rs:176) only in the comment, so a client that connects and stays
  silent keeps its task.
* Setup: an edit of settings.json by others between reading and writing is lost;
  uninstall removes a hook entry with a user's command if atm's is in it too, and
  setup replaces another's status line.
* Workspace: attach and the new-window hook may both find a window without
  sidebar and make two. Attach takes a tagged pane for a sidebar even if atm was
  never started in it or has been quit, and does not start it. The hook's script
  (atm.rs:1692) gives tmux no target for its split: the sidebar of a window made by
  `new-window -d`, or closed at once, goes into the current window, which may have
  one. After a split that fails, it tags and types into the current pane, an ordinary
  one, which attach then takes for that window's sidebar; after a tag that fails, atm
  runs in a pane that attach does not recognise.
* Discovery: a path-like argument that ends in `/claude` or `/pi` is taken for the
  agent (an editor opened on such a file is). The pane of an agent whose parent
  has died is not found. A later scan leaves known sessions with a pending id as they
  are, with a pane that is missing or was wrong; those with a real id it renames back
  to the pending one and gives the pane it has found, if any. An agent on a pid whose
  earlier session is still in the registry is passed over: cleanup then removes that
  session, and the agent has none until its next message or the next scan. An entry
  made for a process that has ended meanwhile has no start time, and cleanup
  does not remove it.
* Replies: `reply --option` beyond the last option reports success. Of two cursors
  on the screen the upper one counts, so an older list above the prompt misleads
  reply. `peek --prompt` recognises options 1 to 9 only and, of a prompt with
  ten or more, shows only what is below the last one if that is more than the
  footer. It recognises the cursor on options 1 to 5 only and, with the cursor
  further down, shows only what is below it. An arrow key of the user's between
  reading the cursor and the last key of reply shifts the answer by one. `send` with
  a prompt up accepts the prompt's current option. `pending-12` is ambiguous with
  `pending-123`, and the short form of every pending session is `pending-`.

## 6. Proofs

`SessionRegistryProofs` (for all pids, ids, subagents and bounds):

* `TypeCorrect`, `IndexIsSound`: `TypeOK /\ IndexSound` is inductive. Every action
  that changes the table does so in one of a few ways; lemma `NextIsTableStep`
  reduces `Next` to these table steps, and each is shown to keep `IndexSound`.
* `RegistryIsDirectory`: the registry refines `SessionDirectory`. Lemma
  `TableStepIsDirectoryStep` takes each table step to the directory's step
  through `DirectoryView`, which says what the mapping makes of it; the
  invariant is needed because a withdrawn id has to be the one its route led
  to. No assumption about vendors is made.
* `IndexIsComplete`, under `UniqueOwner` and without synthetic entries. The
  invariant alone is not inductive: an entry whose id another process may carry
  loses its place in the index. The strengthening `Owned` says that an entry's
  id is one its own process may carry; with `UniqueOwner`, two entries then
  have different ids.
* `SubscriberIsFaithful`, under the same assumptions and without rediscovery of
  known sessions, which is exactly where the code leaves a ghost.
* `AgentsAdoptedOnce`: `AgentInv` adds to the property that an attached subagent is
  not pending any more and that there is one record of each pending one. For the
  second the announcements matter, so the invariant also says that a pending
  subagent runs as its vendor knows (`spawned`): announcing it again is then
  impossible. `Adopting` says what all messages have in common, that they adopt at
  most one of the candidates they have not dropped; one lemma per message shows that
  it is such a step.
* `AdoptionIsBySpawner`, under `UniqueOwner` and without late messages. An entry
  has to be traced to the process that made it (`OwnedByPids`) and a record of a
  pending subagent to a start of its process (`Started`); both fail if a message
  may come from a process whose pid another one has by now.

`SubscriptionProofs` (for all sessions, connections and sizes):

* `SubscriptionTyped`: `TypeOK` alone is not inductive, since the broadcaster could
  be about to write while it has no event. `TodoSubscribed` excludes it: the
  subscribers are locked for an event, whoever it is still to be written to is
  subscribed to it, and the broadcaster waits for nobody else.
* `WritesToSubscribersOnly`: from the same invariant, which the read lock keeps
  while handlers come and go; a list or an error is never taken for an event.
* `ClientsCatchUp`: `After` says what applying a sequence of messages comes to, by the
  last message about each session; the lemmas `AfterAppend`, `AfterHead` and
  `AfterConcat` show that this is what applying them one by one gives. The
  property alone is not inductive: when a list is taken, nothing is known of the
  client yet. `ViewInv` therefore also speaks of the channel, whose events lead from
  the sessions there are to the same sessions, of the event being sent, which does so
  unless younger ones were lost (`gap`), of the list a handler holds, which leads
  to the sessions there are as long as it is not overtaken, and of the connections
  whose list is still to come (`ListsSent`), so that the four ways are all there are.
* `LimitHolds`: only `AddSubscriber` makes the map larger, by one connection and
  only after the check made under the same lock.

`DeliveryProofs` (for all events, sizes and numbers of faults):

* `OutboxTyped`, `NothingHeldBack`: `NoneHeldBack` is inductive together with
  `WireOfConnection`, which ties the flag `socketPaused` to the room in the buffer:
  flushing ends because the outbox is empty or because the flag is set.
* `EventsInOrder`: `Delivery` refines `LossyFifo`. What is on the wire, followed by
  the outbox, is the abstract queue; the lemmas about `enqueue`, `flushOutboxTo`
  and `PartOf` say what each leaves of it. The invariant is needed where an event
  is written past the outbox, which must be empty then.

`DaemonProcessProofs` (for all pids and numbers of commands):

* `OneDaemon`: `TurnInv` describes, for commands given in turn, who may be where
  while a daemon is up: others have at most read the pid file, and in it the pid of
  that daemon.
* `NamedDaemonReachable`: `ReachInv`, for any overlap: a socket file has a
  listener, and if a server that the pid file names has none, some other process is
  between removing the socket file and its next step. When nothing is under way,
  that one does not exist.

`SessionStatusProofs` (for all tools, histories and numbers of messages under way):

* `ActivityIsRecorded`: from the types alone, through what `RecordToolUse` returns.
* `QuietAgentShownRight`, for agents that call one tool at a time (`~Parallel`, as
  in the run; with parallel tools the property is false in the way section 5 says).
  The property speaks of an agent whose messages have all come; to be
  inductive, it has to foresee what those under way will do: `QuietInv` says that
  the last of them that changes the status will make it right, and that the status
  is right if there is none.

`TuiProofs` (for all views, panes, filters and heights):

* `KillsTheAgentAimedAt`: `ArmedInv` says that a pending d is aimed at what is under
  the cursor. The tree does not have to be known: whatever an event makes of it, the
  same event moves the aim.
* `TuiTyped`, `CursorOnRow`: `RowsInv` says that the tree and its rows are those of
  the sessions, the filter and the folds as they are, and that the cursor is on a row.
  `zo` and `zR` open folds and do not clamp the cursor; they keep the invariant
  because a tree has no fewer rows with more of its nodes unfolded
  (`UnfoldedHasMore`). `RestInv` has the other variables' types and that a typed
  count is never 0, since `G` after a count goes to the row of that number less one.
* `SessionsArePlaced`: the tree is made by sorting and by concatenating what each
  level yields. `SortedExists` shows that a finite set can be put in order, by taking
  a greatest element off it time after time, `FlattenLaysOut` where each part of a
  concatenation comes to lie; `Grown` says of the rows of a group what they show and
  at which place, and is carried from agents to worktrees, projects and the whole
  tree (`TreeGrown`).
* `CursorStaysWithFold`: in a tree, whose rows are in preorder (`PreorderSeen`), the
  nearest row above the cursor with less depth is its parent (`AncestorFound`). No
  node is above itself, so the row whose fold has been closed is still displayed
  (`ClosedStaysSeen`), and the cursor is put on it.
* `OutputIsOfSelected`: `CaptureInv` separates the pane that is wanted from the one
  that output was read from; output that comes late is of neither.
* `HelpIsTrue`: the automaton does what the table of hints says, at rest and after
  any count.

`EnvironmentProofs` (for all hook types, entries, windows and jobs):

* `HooksAreServed`, `OthersAreKept`, `SuccessIsComplete`: `HooksInv`, `OthersInv` and
  `CompletesInv` say for every step of setup and uninstall what is already done and
  what the settings that are about to be written hold. A command that was cut short
  leaves no such record, so the next one has to establish all of it again; that it
  does is the proof of `SuccessIsComplete`. Nothing is assumed about aborts and
  edits but what `Setup` says.
* `OneSidebarEach`: `SidebarInv`. A window that two jobs were not at together, and in
  which no other window's script has acted, has no sidebar while a job is about to
  make one (`Alone`), and what a command has listed it has yet to do, is at, or finds
  with a sidebar (`SeenTo`). The scripts may act in any window and on any pane and go
  on after failures.

* `SlotsAreFilled`: `UnderIs` says what the leaves below a slot are: the slot itself or
  those below its children, each below one of them. By `LeavesInv` every leaf is placed
  or below one slot that has a call left, not both; by `PanesInv` every pane has a leaf,
  but for one that the next call takes over. The calls of a container keep this
  however many there are (`FillStep`). When none are left, what is placed pairs the
  leaves with the panes.

`AgentProofs` (for all numbers of pids, panes, options and lines):

* `SteadyAgentsAreFound`: the walk from a process to its pane is a recursive function;
  lemma by lemma it is shown that it finds a shell in the table it is given, that it
  finds the shell of a pane the process descends from, and that links of other
  processes, which may change under it, do not matter. `Homes` says that what runs in
  a pane descends from its shell and from no other, `TableTrue` that the table the
  scan has read is still true of the agents below whose panes nothing has exited
  since, and `ScanInv` which agents the scan has seen, has yet to look at, or has
  registered, refused or passed over. An agent that runs keeps its session, since
  cleanup compares start times; a pid may get the session of an earlier process in the
  meantime, and a shell may be younger than the table.
* `PromptIsServed`: `LinesAre` says what line of a prompt is where, `PeekSees` that
  the first line peek keeps is the prompt's or one above it, and `CursorFound` that
  the cursor it counts from is the prompt's. For the keys, `ReplyInv` says that those
  that are left lead to the option asked for from a place that is within `moved`
  lines of the cursor (`OnCourse`, `Near`): a key that is pressed moves both or, at an
  end of the list, brings them no further apart (`KeysKeepNear`), and a key of the
  user's adds one to the distance there may be (`OneKeyFarther`).
* `EnvironmentTyped`: from the invariants of the five areas.

The theorems rest on the assumptions on constants, which TLC evaluates in every
run, and on nothing else but what a theorem names. These assumptions say that
bounds are natural numbers, positive where a size of zero makes no sense; that
the values that stand for "none" are not among those they stand beside
(`RegistryAssumption`, `SubscriptionAssumption`, `OutboxAssumption`,
`ProcessAssumption`, `SessionAssumption`, `EnvironmentAssumption`); that
switches are Booleans (`StatusAssumption`, `TuiAssumption`); that interactive
tools are tools (`ToolAssumption`); that start times and the ranks of projects
and worktrees are numbers and the children of a view a sequence
(`TuiAssumption`); and that layouts are trees of slots, as the type `Slot` has
it. Subagents and connections are finitely many, because the next position among
the pending and the limit of clients are about their numbers, and so are the
sessions of one table the daemon sends (`Tables`, not the views there may be),
the pids and panes of `Discovery`, the options of a prompt, which are numbers up
to a greatest, and the slots of a layout, which comes from a file; no other set
(ids, events, views, windows, hook types) is assumed to be finite, and no bound
on the environment (`MaxStart`, `MaxCommands`, `MaxFaults`, ...) small.

Only model-checked is liveness (`DeadEntriesReaped`, `LockObtained`,
`DepartedForgotten`, `IdleAtLast`, `TuiServed`, `KeepsShowing`), since the provers
handle neither fairness nor `ENABLED`. Every invariant and every action property of
a run that holds is a theorem. The two violated properties of section 5 are, of
course, not.

Induction over numbers, where the tree's proofs need it, goes through the
well-foundedness of the naturals: a least counterexample is taken
(`WellFoundedInduction`), since the provers cannot instantiate a theorem about an
operator.

## 7. Plan

1. `SessionRegistry`, its runs and proofs, `SessionDirectory` and the proof of the
   refinement: done.
2. `Subscription`, `ClientView`: done, with proofs of the safety properties.
3. `SessionTree`, `Keybinding`, `TuiApp`: done.
4. `Lifecycle`, `SessionStatus`, `DaemonProcess`, `PiOutbox`, `Delivery`: done.
5. `Setup`, `Workspace`, `PaneLayout`, `Discovery`, `PromptReply` in `Environment`:
   done.
6. Proofs of all safety and action properties, those of the tree among them: done.
7. Left: registry and tree in one model, for links that name ids of before a rename;
   `atm spawn`.

## 8. Not modelled, and why

* Drawing (atm/src/ui) is a function of the state `TuiApp` keeps.
* `spawn`, `list`, `status` and the configuration file build a command line or
  print a table; install.sh copies files.
* Encodings and version negotiation of the protocol, cost, context, model and
  project values are immutable data without state that others depend on.
* The resource monitor only logs, and pi-spike only traces.
* The command channel to the registry is first-in first-out, so handling a
  command at any moment stands for it.
* tmux, `/proc`, Claude Code and pi are external: what the code sees of them is the
  environment of each module, marked external in `PROJECT.json`.
