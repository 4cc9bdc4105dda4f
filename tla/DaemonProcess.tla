---------------------------- MODULE DaemonProcess ----------------------------
(***************************************************************************)
(* The daemon as a process: the commands of atmd (src/bin/atmd.rs), the    *)
(* pid file by which they find each other, the socket file a server binds  *)
(* (DaemonServer::run in crates/atmd/src/server/mod.rs), and a TUI that    *)
(* starts a daemon if it sees none (crates/atm/src/daemon.rs) and then     *)
(* connects to the socket (crates/atm/src/client.rs).                      *)
(*                                                                         *)
(* Nothing locks the two files.  Every system call by which one process    *)
(* can overtake another is an action.  A pid is free again as soon as its  *)
(* process is gone.                                                        *)
(***************************************************************************)
EXTENDS Naturals, FiniteSets

CONSTANTS
    Pids,
    NoPid,
    MaxRuns,      \* bound: commands of atmd that are run
    MaxSignals,   \* bound: SIGTERM and SIGINT sent by hand
    MaxCrashes    \* bound: processes that are killed or crash

ASSUME ProcessAssumption == NoPid \notin Pids

VARIABLES
    process,     \* the atmd process with a pid
    pidFile,     \* atmd.pid
    socketFile,  \* the process whose listener the socket file belongs to
    tui,         \* phase of the TUI
    attached,    \* the daemon the TUI is connected to
    spent,       \* history: runs, signals and crashes so far
    history      \* history: what may excuse a TUI that is not served

files == <<pidFile, socketFile>>
client == <<tui, attached>>
vars == <<process, files, client, spent, history>>

Commands == {"none", "start", "stop", "status"}

Stages == {
    "none",
    "asked", "judging", "clearing", "cleared",               \* is_daemon_running
    "signalling",                                            \* stop_daemon
    "forked", "created", "started", "replacing", "binding",  \* start
    "serving", "closing", "ending"}

NoProcess == [command |-> "none", stage |-> "none", seen |-> NoPid,
              handles |-> FALSE, cancelled |-> FALSE]
NoFile == [exists |-> FALSE, pid |-> NoPid, writers |-> {}]
NoSocket == NoPid

\* is_process_running: /proc/<pid> exists, whatever the process is.
IsRunning(p) == p # NoPid /\ process[p].stage # "none"

At(p, stage) == process[p].stage = stage
To(p, stage) == process' = [process EXCEPT ![p].stage = stage]

\* Between its first look at the pid file and serving, or told to end.
Moving(p) == process[p].stage \notin {"none", "serving"} \/ process[p].cancelled

\* The process is gone, and its connection to the TUI with it.
Exit(p) ==
    /\ process' = [process EXCEPT ![p] = NoProcess]
    /\ IF attached = p
       THEN attached' = NoPid /\ tui' = "ready"
       ELSE UNCHANGED client

Begin(p, command) ==
    /\ process[p] = NoProcess
    /\ spent.runs < MaxRuns
    /\ process' = [process EXCEPT ![p] = [NoProcess EXCEPT !.command = command, !.stage = "asked"]]
    /\ spent' = [spent EXCEPT !.runs = @ + 1]

\* What overlaps, and a pid that the file already names.
Noted(p) == [history EXCEPT !.overlapped = @ \/ \E q \in Pids : Moving(q),
                            !.reused = @ \/ pidFile.pid = p]

-----------------------------------------------------------------------------
(* is_daemon_running, with which every command begins *)

Run(p, command) ==
    /\ Begin(p, command)
    /\ history' = Noted(p)
    /\ UNCHANGED <<files, client>>

\* A bug to catch: what the file contains is never a number.
ReadPidInVain(p) ==
    /\ At(p, "asked")
    /\ To(p, "cleared")
    /\ UNCHANGED <<files, client, spent, history>>

\* read_pid: a file that is missing or empty names nobody.
ReadPid(p) ==
    /\ At(p, "asked")
    /\ process' = [process EXCEPT ![p].stage = IF pidFile.pid = NoPid THEN "cleared" ELSE "judging",
                                  ![p].seen = pidFile.pid]
    /\ UNCHANGED <<files, client, spent, history>>

Judge(p) ==
    /\ At(p, "judging")
    /\ IF ~IsRunning(process[p].seen)
       THEN To(p, "clearing") /\ UNCHANGED client
       ELSE IF process[p].command = "stop"
            THEN To(p, "signalling") /\ UNCHANGED client
            ELSE Exit(p)
    /\ UNCHANGED <<files, spent, history>>

\* remove_pid_file: whatever the file names by now.
ClearPidFile(p) ==
    /\ At(p, "clearing")
    /\ pidFile' = NoFile
    /\ To(p, "cleared")
    /\ UNCHANGED <<socketFile, client, spent, history>>

\* Only start goes on when no daemon is running.
NotRunning(p) ==
    /\ At(p, "cleared")
    /\ process[p].command # "start"
    /\ Exit(p)
    /\ UNCHANGED <<files, spent, history>>

-----------------------------------------------------------------------------
(* atmd start *)

\* Start in the foreground, or daemonize: the work goes on in a forked process.
Fork(p, q) ==
    /\ At(p, "cleared")
    /\ process[p].command = "start"
    /\ p = q \/ process[q] = NoProcess
    /\ process' = [process EXCEPT ![p] = NoProcess,
                                  ![q] = [process[p] EXCEPT !.stage = "forked", !.seen = NoPid]]
    /\ history' = [history EXCEPT !.reused = @ \/ (p # q /\ pidFile.pid = q)]
    /\ UNCHANGED <<files, client, spent>>

\* write_pid: the file is created or truncated, and written.
CreatePidFile(p) ==
    /\ At(p, "forked")
    /\ pidFile' = [exists |-> TRUE, pid |-> NoPid,
                   writers |-> pidFile.writers \union {p}]
    /\ To(p, "created")
    /\ UNCHANGED <<socketFile, client, spent, history>>

\* A bug to catch: the file is written wherever it is by now.
WritePidByPath(p) ==
    /\ At(p, "created")
    /\ pidFile' = [pidFile EXCEPT !.pid = p, !.writers = @ \ {p}]
    /\ To(p, "started")
    /\ UNCHANGED <<socketFile, client, spent, history>>

\* The process may hold a file that has been removed meanwhile.
WritePid(p) ==
    /\ At(p, "created")
    /\ pidFile' = IF p \in pidFile.writers
                  THEN [pidFile EXCEPT !.pid = p, !.writers = @ \ {p}]
                  ELSE pidFile
    /\ To(p, "started")
    /\ UNCHANGED <<socketFile, client, spent, history>>

\* The task that waits for signals starts while the daemon does.
HandleSignals(p) ==
    /\ process[p].stage \in {"started", "replacing", "binding", "serving"}
    /\ ~process[p].handles
    /\ process' = [process EXCEPT ![p].handles = TRUE]
    /\ UNCHANGED <<files, client, spent, history>>

\* DaemonServer::run: "Remove existing socket file if present"
LookForSocket(p) ==
    /\ At(p, "started")
    /\ To(p, IF socketFile = NoSocket THEN "binding" ELSE "replacing")
    /\ UNCHANGED <<files, client, spent, history>>

\* A bug to catch: the old socket is left in place, and bind fails on it.
ReplaceSocketNever(p) ==
    /\ At(p, "replacing")
    /\ To(p, "ending")
    /\ UNCHANGED <<files, client, spent, history>>

\* The removal fails if another process has been faster.
ReplaceSocket(p) ==
    /\ At(p, "replacing")
    /\ socketFile' = NoSocket
    /\ To(p, IF socketFile = NoSocket THEN "ending" ELSE "binding")
    /\ UNCHANGED <<pidFile, client, spent, history>>

\* bind does not replace a file.
Bind(p) ==
    /\ At(p, "binding")
    /\ IF socketFile = NoSocket
       THEN socketFile' = p /\ To(p, "serving")
       ELSE UNCHANGED socketFile /\ To(p, "ending")
    /\ UNCHANGED <<pidFile, client, spent, history>>

Shutdown(p) ==
    /\ At(p, "serving")
    /\ process[p].cancelled
    /\ To(p, "closing")
    /\ UNCHANGED <<files, client, spent, history>>

\* A bug to catch: the pid file goes before the socket.
RemoveFilesPidFirst(p) ==
    /\ \/ /\ At(p, "closing")
          /\ pidFile' = NoFile
          /\ To(p, "ending")
          /\ UNCHANGED <<socketFile, client>>
       \/ /\ At(p, "ending")
          /\ socketFile' = NoSocket
          /\ pidFile' = IF process[p].cancelled THEN pidFile ELSE NoFile
          /\ Exit(p)
    /\ UNCHANGED <<spent, history>>

\* cleanup, by a server that was told to shut down, and remove_pid_file, after
\* run_daemon has returned for whatever reason: whosever the files are by now.
RemoveFiles(p) ==
    /\ \/ /\ At(p, "closing")
          /\ socketFile' = NoSocket
          /\ To(p, "ending")
          /\ UNCHANGED <<pidFile, client>>
       \/ /\ At(p, "ending")
          /\ pidFile' = NoFile
          /\ Exit(p)
          /\ UNCHANGED socketFile
    /\ UNCHANGED <<spent, history>>

-----------------------------------------------------------------------------
(* Signals and crashes *)

\* Without the handler a signal ends a process as a crash would.
Ended(p) == [history EXCEPT !.stopped = TRUE, !.ended = TRUE, !.killed = @ \/ ~process[p].handles]

\* A process without the handler dies of the signal, its files stay.
Signalled(p) ==
    IF process[p].handles
    THEN process' = [process EXCEPT ![p].cancelled = TRUE] /\ UNCHANGED client
    ELSE Exit(p)

\* stop_daemon; the wait for the process's end decides only what is printed.
SendSignal(p) ==
    /\ At(p, "signalling")
    /\ LET target == process[p].seen
       IN  /\ process' = [q \in Pids |->
                 IF q = p THEN NoProcess
                 ELSE IF q # target THEN process[q]
                 ELSE IF process[q].handles THEN [process[q] EXCEPT !.cancelled = TRUE]
                 ELSE NoProcess]
           /\ IF attached # NoPid /\ process'[attached] = NoProcess
              THEN attached' = NoPid /\ tui' = "ready"
              ELSE UNCHANGED client
    /\ history' = Ended(process[p].seen)
    /\ UNCHANGED <<files, spent>>

\* Control-C, or kill by hand.
Interrupt(p) ==
    /\ IsRunning(p)
    /\ spent.signals < MaxSignals
    /\ spent' = [spent EXCEPT !.signals = @ + 1]
    /\ Signalled(p)
    /\ history' = Ended(p)
    /\ UNCHANGED files

Crash(p) ==
    /\ IsRunning(p)
    /\ spent.crashes < MaxCrashes
    /\ spent' = [spent EXCEPT !.crashes = @ + 1]
    /\ Exit(p)
    /\ history' = [Ended(p) EXCEPT !.killed = TRUE]
    /\ UNCHANGED files

-----------------------------------------------------------------------------
(* The TUI *)

\* ensure_daemon_running: a daemon is running ...
FindDaemon ==
    /\ tui \in {"off", "waiting"}
    /\ IsRunning(pidFile.pid)
    /\ tui' = "ready"
    /\ history' = IF tui = "off"
                  THEN [history EXCEPT !.ended = FALSE,
                                       !.overlapped = @ \/ \E q \in Pids : Moving(q)]
                  ELSE history
    /\ UNCHANGED <<process, files, attached, spent>>

\* ... or is spawned, and waited for.
SpawnDaemon(p) ==
    /\ tui = "off"
    /\ ~IsRunning(pidFile.pid)
    /\ Begin(p, "start")
    /\ tui' = "waiting"
    /\ history' = [Noted(p) EXCEPT !.ended = FALSE]
    /\ UNCHANGED <<files, attached>>

\* "Daemon failed to start within 3 seconds"
GiveUp ==
    /\ tui = "waiting"
    /\ ~IsRunning(pidFile.pid)
    /\ tui' = "failed"
    /\ UNCHANGED <<process, files, attached, spent, history>>

\* connect_with_retry tries for ever; a file without a listener refuses.
ConnectTui ==
    /\ tui = "ready"
    /\ socketFile # NoSocket
    /\ At(socketFile, "serving")
    /\ tui' = "connected"
    /\ attached' = socketFile
    /\ UNCHANGED <<process, files, spent, history>>

Quit ==
    /\ tui \in {"connected", "failed"}
    /\ tui' = "off"
    /\ attached' = NoPid
    /\ UNCHANGED <<process, files, spent, history>>

-----------------------------------------------------------------------------

Init ==
    /\ process = [p \in Pids |-> NoProcess]
    /\ pidFile = NoFile
    /\ socketFile = NoSocket
    /\ tui = "off"
    /\ attached = NoPid
    /\ spent = [runs |-> 0, signals |-> 0, crashes |-> 0]
    /\ history = [overlapped |-> FALSE, reused |-> FALSE, killed |-> FALSE, stopped |-> FALSE, ended |-> FALSE]

Works(p) ==
    \/ ReadPid(p) \/ Judge(p) \/ ClearPidFile(p) \/ NotRunning(p)
    \/ \E q \in Pids : Fork(p, q)
    \/ CreatePidFile(p) \/ WritePid(p) \/ LookForSocket(p) \/ ReplaceSocket(p)
    \/ Bind(p) \/ Shutdown(p) \/ RemoveFiles(p) \/ SendSignal(p)

Tui == FindDaemon \/ GiveUp \/ ConnectTui

Next ==
    \/ \E p \in Pids :
          \/ \E command \in Commands \ {"none"} : Run(p, command)
          \/ Works(p) \/ HandleSignals(p) \/ Interrupt(p) \/ Crash(p) \/ SpawnDaemon(p)
    \/ Tui \/ Quit

Spec == Init /\ [][Next]_vars

\* Processes run, the TUI polls and connects.  Nothing makes anybody start,
\* signal or quit.
FairSpec ==
    /\ Spec
    /\ \A p \in Pids : WF_vars(Works(p)) /\ WF_vars(HandleSignals(p))
    /\ WF_vars(Tui)

-----------------------------------------------------------------------------
(* Properties *)

Serving == {p \in Pids : At(p, "serving")}

\* The variables keep their types, and a pid file that has been removed while
\* it was being written stays removed.
TypeOK ==
    /\ process \in [Pids -> [command : Commands, stage : Stages, seen : Pids \union {NoPid},
                             handles : BOOLEAN, cancelled : BOOLEAN]]
    /\ pidFile \in [exists : BOOLEAN, pid : Pids \union {NoPid}, writers : SUBSET Pids]
    /\ ~pidFile.exists => pidFile = NoFile
    /\ socketFile \in Pids \union {NoSocket}
    /\ tui \in {"off", "waiting", "ready", "connected", "failed"}
    /\ attached \in Pids \union {NoPid}

\* Commands that are run one after another keep one daemon, named by the pid
\* file and reachable by the socket file, whatever crashes have left behind.
OneDaemonInTurn ==
    ~history.overlapped =>
        \A p \in Serving : Serving = {p} /\ pidFile.pid = p /\ socketFile = p

\* However starts and stops overlap, unless a process was killed: when nothing is
\* under way and the pid file names a running process, the socket is served,
\* so that nobody who found a daemon waits for one in vain.
NamedIsReachable ==
    (~history.killed /\ \A p \in Pids : ~Moving(p)) =>
        (IsRunning(pidFile.pid) => socketFile \in Serving)

\* A TUI that has found a daemon is connected, even if several are being
\* started, unless one has been stopped since, or a stop or crash overlapped
\* with a start or left a pid file whose pid is in use again.
TuiServed ==
    tui = "ready" ~>
        \/ tui = "connected"
        \/ history.ended
        \/ history.stopped /\ (history.overlapped \/ history.reused)

=============================================================================
