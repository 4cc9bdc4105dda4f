----------------------------- MODULE Discovery -----------------------------
(***************************************************************************)
(* Discovery of running agents (crates/atmd/src/discovery.rs and tmux.rs), *)
(* at the start of the daemon and when a client asks for a rescan.  The    *)
(* scan looks at one process of /proc after the other, first at what it    *)
(* runs, then for the tmux pane it is in, and registers what it has found  *)
(* when it has looked at all.  Processes start, exit and take over pids    *)
(* meanwhile.                                                              *)
(*                                                                         *)
(* Abstracted: working directories; the order of /proc; ids, which are the *)
(* pending one of a discovered session or a real one; the agents' messages *)
(* but for the real ids they bring (SessionRegistry has the others).       *)
(***************************************************************************)
EXTENDS Naturals, Sequences, FiniteSets

CONSTANTS
    LastPid, LastPane,  \* bounds: pids and panes are 1, 2, ...
    NoPid, NoPane, NoProcess,
    Looks,        \* bound: what processes look like
    MaxDepth,     \* MAX_DEPTH of find_pane_for_pid
    MaxSessions,  \* MAX_SESSIONS
    MaxStarts     \* bound: processes that ever start

VARIABLES
    procs,    \* processes by pid
    shells,   \* the pids of the shells of the panes opened so far
    started,  \* number of processes started so far
    highest,  \* highest pid given to one
    known,    \* the registry's sessions by pid
    scan      \* the discovery in progress, or the last one

vars == <<procs, shells, started, highest, known, scan>>

Pids == 1..LastPid
Panes == 1..LastPane

\* HarnessDefinition: is it looked for, and by a bare command name?
Harnesses ==
    [claude |-> [discovery_enabled |-> TRUE,  allow_bare_cmdline_match |-> TRUE],
     pi     |-> [discovery_enabled |-> TRUE,  allow_bare_cmdline_match |-> FALSE],
     codex  |-> [discovery_enabled |-> FALSE, allow_bare_cmdline_match |-> TRUE],
     amp    |-> [discovery_enabled |-> FALSE, allow_bare_cmdline_match |-> TRUE],
     qwen   |-> [discovery_enabled |-> FALSE, allow_bare_cmdline_match |-> TRUE],
     gemini |-> [discovery_enabled |-> FALSE, allow_bare_cmdline_match |-> TRUE]]

\* A process shows a harness's matcher in the path of its program or of an
\* argument, in its bare name, or in another bare argument only.
AllLooks == [harness : DOMAIN Harnesses, shown : {"path", "name", "argument"}]
Plain == [harness |-> "claude", shown |-> "argument"]

Process == [start : 1..MaxStarts, parent : Pids \union {NoPid}, look : AllLooks,
            home : Panes \union {NoPane}, depth : Nat]

Alive == {p \in Pids : procs[p] # NoProcess}

ScanStart == [at |-> "off", left |-> {}, pid |-> NoPid, table |-> {}, found |-> {},
              steady |-> {}, settled |-> {}, placed |-> {},
              refused |-> {}, masked |-> {}, blind |-> {}]

\* The session of a process that runs, and not of an earlier one with its pid.
HasOwnSession(p) == p \in DOMAIN known /\ p \in Alive /\ known[p].start = procs[p].start

-----------------------------------------------------------------------------
(* Processes and panes *)

\* A process and all that descend from it: what every set that has it and the
\* children of its members has.
Family(S) == \A q \in Alive : procs[q].parent \in S => q \in S
Below(p) == {q \in Pids : \A S \in SUBSET Pids : p \in S /\ Family(S) => q \in S}

\* The kernel gives out pids in ascending order, and later those that are free.
Start(p, parent, look, home, depth) ==
    /\ p \notin Alive /\ p <= highest + 1 /\ started < MaxStarts
    /\ started' = started + 1
    /\ highest' = IF p > highest THEN p ELSE highest
    /\ procs' = [procs EXCEPT ![p] = [start |-> started + 1, parent |-> parent, look |-> look,
                                      home |-> home, depth |-> depth]]

\* tmux starts a shell in a new pane, and does not use a pane's id again.
OpenPane ==
    /\ Len(shells) < LastPane
    /\ \E p \in Pids :
          /\ Start(p, NoPid, Plain, Len(shells) + 1, 0)
          /\ shells' = Append(shells, p)
    /\ UNCHANGED <<known, scan>>

\* A process starts another, or one starts outside tmux.  Home is the pane whose
\* shell a process descends from, depth how far.
Fork ==
    \E p \in Pids, parent \in Alive \union {NoPid}, look \in Looks :
       /\ IF parent = NoPid THEN Start(p, NoPid, look, NoPane, 0)
          ELSE Start(p, parent, look, procs[parent].home, procs[parent].depth + 1)
       /\ UNCHANGED <<shells, known, scan>>

\* init inherits the children; a pane ends with its shell.  A process below the
\* one that exits runs on, but no longer from its pane's shell.
Exit ==
    \E p \in Alive :
       /\ procs' = [r \in Pids |->
              IF r = p THEN NoProcess
              ELSE IF r \notin Below(p) THEN procs[r]
              ELSE [procs[r] EXCEPT !.parent = IF @ = p THEN NoPid ELSE @, !.home = NoPane]]
       /\ shells' = [q \in DOMAIN shells |-> IF shells[q] = p THEN NoPid ELSE shells[q]]
       /\ scan' = [scan EXCEPT !.steady = @ \ {p}, !.settled = @ \ Below(p)]
       /\ UNCHANGED <<started, highest, known>>

-----------------------------------------------------------------------------
(* The scan *)

\* check_via_exe, check_via_cmdline, cmdline_arg_matches_definition
Recognised(look) ==
    /\ Harnesses[look.harness].discovery_enabled
    /\ \/ look.shown = "path"
       \/ look.shown = "name" /\ Harnesses[look.harness].allow_bare_cmdline_match

ParentPid(p) == IF p \in Alive THEN procs[p].parent ELSE NoPid

\* find_pane_for_pid: the pane whose shell is the process or an ancestor, in a
\* table taken before the walk.
FindPane(p, table) ==
    LET Walk[n \in 0..MaxDepth] ==
            [r \in Pids \union {NoPid} |->
               IF n = MaxDepth \/ r = NoPid THEN NoPane
               ELSE IF \E e \in table : e.shell = r
               THEN (CHOOSE e \in table : e.shell = r).pane
               ELSE Walk[n + 1][ParentPid(r)]]
    IN  Walk[0][p]

\* list_tmux_panes
PaneTable == {[pane |-> q, shell |-> shells[q]] : q \in {r \in DOMAIN shells : shells[r] # NoPid}}

BeginScan ==
    /\ scan.at \in {"off", "done"}
    /\ scan' = [ScanStart EXCEPT !.at = "scan", !.left = Pids,
                                 !.steady = Alive, !.settled = Alive]
    /\ UNCHANGED <<procs, shells, started, highest, known>>

\* A bug to catch: a process that is gone when it is looked at ends the scan.
PassOverEnding(p) == scan' = [scan EXCEPT !.left = IF p \in Alive THEN @ \ {p} ELSE {}]

PassOver(p) == scan' = [scan EXCEPT !.left = @ \ {p}]

\* detect_agent_process, up to the list of the panes, which is empty if tmux
\* does not answer.
Detect ==
    /\ scan.at = "scan"
    /\ \E p \in scan.left :
          IF p \in Alive /\ Recognised(procs[p].look)
          THEN \E answers \in BOOLEAN :
                  scan' = [scan EXCEPT !.at = "locate", !.pid = p,
                                       !.table = IF answers THEN PaneTable ELSE {},
                                       !.blind = IF answers THEN @ ELSE @ \union {p}]
          ELSE PassOver(p)
    /\ UNCHANGED <<procs, shells, started, highest, known>>

\* get_process_info: the walk up, in processes that change.
Locate ==
    /\ scan.at = "locate"
    /\ scan' = [scan EXCEPT !.at = "scan", !.left = @ \ {scan.pid}, !.pid = NoPid, !.table = {},
                            !.found = @ \union {[pid  |-> scan.pid,
                                                 pane |-> FindPane(scan.pid, scan.table)]}]
    /\ UNCHANGED <<procs, shells, started, highest, known>>

EndOfList ==
    /\ scan.at = "scan" /\ scan.left = {}
    /\ scan' = [scan EXCEPT !.at = "register"]
    /\ UNCHANGED <<procs, shells, started, highest, known>>

\* handle_register_discovered for the pending id of a pid.  The start time cannot
\* be read of a process that is gone.
Added(f) ==
    [r \in DOMAIN known \union {f.pid} |->
       IF r # f.pid THEN known[r]
       ELSE [id |-> "pending", pane |-> f.pane,
             start |-> IF f.pid \in Alive THEN procs[f.pid].start ELSE 0]]

\* A session with its real id gets the pending one again and the pane, if one was
\* found; the start time stays that of the process it was made for.
Rediscovered(f) ==
    IF known[f.pid].id = "pending" THEN known
    ELSE [known EXCEPT ![f.pid].id = "pending",
                       ![f.pid].pane = IF f.pane = NoPane THEN @ ELSE f.pane]

\* discover_session; discover goes on when a registration fails.  Placed are the
\* sessions that get the pane found for them, masked the pids that are passed
\* over for the session of another process.
Register ==
    /\ scan.at = "register"
    /\ \E f \in scan.found :
          LET rest == [scan EXCEPT !.found = @ \ {f}]
          IN  IF f.pid \in DOMAIN known
              THEN /\ known' = Rediscovered(f)
                   /\ scan' = IF ~HasOwnSession(f.pid)
                              THEN [rest EXCEPT !.masked = @ \union {f.pid}]
                              ELSE IF known[f.pid].id = "real" /\ f.pane # NoPane
                              THEN [rest EXCEPT !.placed = @ \union {f.pid}]
                              ELSE rest
              ELSE IF Cardinality(DOMAIN known) >= MaxSessions
              THEN scan' = [rest EXCEPT !.refused = @ \union {f.pid}] /\ UNCHANGED known
              ELSE /\ scan' = [rest EXCEPT !.placed = @ \union {f.pid}]
                   /\ known' = Added(f)
    /\ UNCHANGED <<procs, shells, started, highest>>

EndScan ==
    /\ scan.at = "register" /\ scan.found = {}
    /\ scan' = [scan EXCEPT !.at = "done"]
    /\ UNCHANGED <<procs, shells, started, highest, known>>

\* reconcile_session_id: a message brings the real id.
Reconcile ==
    /\ \E p \in DOMAIN known :
          known[p].id = "pending" /\ known' = [known EXCEPT ![p].id = "real"]
    /\ UNCHANGED <<procs, shells, started, highest, scan>>

\* handle_cleanup_stale: an entry without a start time counts as alive.
Cleanup ==
    LET dead == {p \in DOMAIN known :
                    known[p].start # 0 /\ (p \in Alive => procs[p].start # known[p].start)}
    IN  /\ dead # {}
        /\ known' = [p \in DOMAIN known \ dead |-> known[p]]
        /\ UNCHANGED <<procs, shells, started, highest, scan>>

-----------------------------------------------------------------------------

Init ==
    /\ procs = [p \in Pids |-> NoProcess]
    /\ shells = <<>>
    /\ started = 0 /\ highest = 0
    /\ known = [p \in {} |-> NoPid]
    /\ scan = ScanStart

Next ==
    \/ OpenPane \/ Fork \/ Exit
    \/ BeginScan \/ Detect \/ Locate \/ EndOfList \/ Register \/ EndScan
    \/ Reconcile \/ Cleanup

Spec == Init /\ [][Next]_vars

-----------------------------------------------------------------------------
(* Properties *)

\* The variables keep their types; the registry is within its limit.
TypeOK ==
    /\ procs \in [Pids -> Process \union {NoProcess}]
    /\ Len(shells) <= LastPane /\ \A q \in DOMAIN shells : shells[q] \in Pids \union {NoPid}
    /\ DOMAIN known \subseteq Pids /\ Cardinality(DOMAIN known) <= MaxSessions
    /\ \A p \in DOMAIN known :
          known[p] \in [id : {"pending", "real"}, pane : Panes \union {NoPane}, start : 0..MaxStarts]
    /\ scan.at \in {"off", "scan", "locate", "register", "done"}
    /\ scan.left \subseteq Pids /\ scan.settled \subseteq scan.steady /\ scan.steady \subseteq Alive
    /\ scan.placed \subseteq Pids /\ scan.refused \subseteq Pids /\ scan.masked \subseteq Pids

\* A scan misses no agent that runs from its beginning to its end, whatever other
\* processes do: at the end each has a session of its own, unless the registry was
\* full or still had the session of an earlier process with that pid.  The session
\* that the scan placed is in the pane whose shell the agent descends from, if
\* none of those between them has exited, tmux answered and the shell is not too
\* far above.
SteadyAgentsFound ==
    scan.at = "done" =>
       \A p \in scan.steady : Recognised(procs[p].look) =>
          /\ HasOwnSession(p) \/ p \in scan.refused \union scan.masked
          /\ p \in (scan.settled \intersect scan.placed) \ scan.blind =>
                known[p].pane = IF procs[p].depth < MaxDepth THEN procs[p].home ELSE NoPane

=============================================================================
