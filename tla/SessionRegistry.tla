--------------------------- MODULE SessionRegistry ---------------------------
(***************************************************************************)
(* The RegistryActor of the ATM daemon (crates/atmd/src/registry/actor.rs) *)
(* together with the agent processes it observes.                          *)
(*                                                                         *)
(* One tokio task owns all session state and handles one command at a      *)
(* time, so every command is one action.  A command that returns early     *)
(* (unknown id, full registry, unparsable payload) changes nothing: it is  *)
(* the action being disabled.                                              *)
(*                                                                         *)
(* Abstracted: everything a SessionView displays (cost, tokens, cwd, git   *)
(* info, tmux pane, tool history, status).  Kept: which entries exist,     *)
(* their ids, the id index, process identity, parent/child links, pending  *)
(* subagents, and what the published events make a subscriber display.     *)
(***************************************************************************)
EXTENDS Naturals, FiniteSets

CONSTANTS
    Pids,          \* pids an agent process may have
    SynthPids,     \* keys generate_synthetic_pid may hand out (test-only command)
    RealIds,       \* session ids chosen by a vendor
    Agents,        \* subagent ids
    Speaks,        \* <<id, pid>>: vendor messages of pid may carry id
    NoPid, NoId, NoAgent, NoSession,   \* None
    MaxSessions,   \* MAX_SESSIONS
    MaxDepth,      \* levels of /proc walked by is_descendant_of
    MaxStart,      \* bound: incarnations of one pid
    LateMessages,  \* may a message outlive the process it is about?
    Rediscovery    \* may /proc discovery report a pid that has an entry?

Keys == Pids \union SynthPids

PendingId(p) == <<"pending", p>>
PendingIds == {PendingId(p) : p \in Pids}
SessionIds == RealIds \union PendingIds
IsPending(id) == id \in PendingIds

Entry == [id     : SessionIds,
          seen   : Nat,         \* infra.process_start_time, 0 when set_pid failed
          parent : SessionIds \union {NoId},
          kids   : SUBSET SessionIds,
          agent  : Agents \union {NoAgent}]

\* Agent ids are given out once, so the position in the Vec is kept as the
\* number of announcements so far.
PendingEntry == [agent       : Agents,
                 order       : Nat,
                 parentId    : SessionIds,
                 parentPid   : Keys \union {NoPid},
                 parentStart : Nat,
                 fresh       : BOOLEAN]   \* younger than 30 s

\* What the daemon assumes of its surroundings: vendor ids are not of the
\* pending-{pid} form, and a pid's own pending id is the only one it can carry.
ASSUME RegistryAssumption ==
    /\ NoPid \notin Keys
    /\ Pids \intersect SynthPids = {}
    /\ NoId \notin SessionIds
    /\ NoAgent \notin Agents
    /\ IsFiniteSet(Agents)
    /\ NoSession \notin Entry
    /\ RealIds \intersect PendingIds = {}
    /\ Speaks \subseteq (RealIds \X Pids) \union {<<PendingId(p), p>> : p \in Pids}
    /\ MaxSessions \in Nat \ {0}
    /\ MaxDepth \in Nat \ {0}
    /\ MaxStart \in Nat \ {0}
    /\ LateMessages \in BOOLEAN
    /\ Rediscovery \in BOOLEAN

VARIABLES
    sessions,   \* sessions_by_pid
    index,      \* session_id_to_pid
    pending,    \* pending_subagents
    shown,      \* ids a subscriber displays after applying every published event
    procs,      \* the operating system's processes
    spawned     \* what the vendors know of their subagents

vars == <<sessions, index, pending, shown, procs, spawned>>
envVars == <<procs, spawned>>

-----------------------------------------------------------------------------
(* Processes *)

Process == [start : Nat, alive : BOOLEAN, parent : Pids \union {NoPid}]
Spawn == [phase : {"idle", "running", "ended"}, pid : Keys \union {NoPid}, start : Nat]

\* read_process_start_time: 0 when /proc has no such process.
StartTime(k) == IF k \in Pids /\ procs[k].alive THEN procs[k].start ELSE 0

ParentPid(k) == IF k \in Pids /\ procs[k].alive THEN procs[k].parent ELSE NoPid

\* is_descendant_of: the walk starts at p itself.
IsDescendantOf(p, ancestor) ==
    LET Up[n \in 0 .. MaxDepth] == IF n = 0 THEN p ELSE ParentPid(Up[n - 1])
    IN  \E n \in 0 .. MaxDepth - 1 : Up[n] = ancestor

\* A hook or discovery result about p can reach the actor.
CanReport(p) ==
    /\ procs[p].start # 0
    /\ procs[p].alive \/ LateMessages

StartProcess(p) ==
    /\ ~procs[p].alive
    /\ procs[p].start < MaxStart
    /\ \E q \in {k \in Pids : procs[k].alive} \union {NoPid} :
          procs' = [procs EXCEPT ![p] = [start |-> @.start + 1, alive |-> TRUE, parent |-> q]]
    /\ UNCHANGED <<sessions, index, pending, shown, spawned>>

\* Orphans are adopted by init.
ExitProcess(p) ==
    /\ procs[p].alive
    /\ procs' = [k \in Pids |->
                    IF k = p THEN [procs[p] EXCEPT !.alive = FALSE]
                    ELSE [procs[k] EXCEPT !.parent = IF @ = p THEN NoPid ELSE @]]
    /\ UNCHANGED <<sessions, index, pending, shown, spawned>>

-----------------------------------------------------------------------------
(* State of the actor *)

Present(k) == k \in Keys /\ sessions[k] # NoSession
Live == {k \in Keys : Present(k)}
Full == Cardinality(Live) >= MaxSessions

\* SessionEvent::Removed hides an id, ::Updated displays one; the broadcaster
\* drops ::Registered.  Within a command Removed events come first.
Publish(removed, updated) == shown' = (shown \ removed) \union updated

\* set_pid captures the start time if the process can still be read.
NewEntry(id, k) ==
    [id |-> id, seen |-> StartTime(k), parent |-> NoId, kids |-> {}, agent |-> NoAgent]

Renamed(k, new) == [sessions EXCEPT ![k].id = new]

\* A bug to catch: the new id is not entered into the index.
ReindexedLosingNew(old, new, k) == [index EXCEPT ![old] = NoPid]

\* The entry at k takes the id new: the old id leaves the index whatever it
\* points to, the new one points to k whatever it pointed to.
Reindexed(old, new, k) == [index EXCEPT ![old] = NoPid, ![new] = k]

\* A bug to catch: the announcing pid may meanwhile be another process.
MayAdoptFromReusedPid(sub, p) ==
    /\ sub.fresh
    /\ sub.parentPid # NoPid
    /\ IsDescendantOf(p, sub.parentPid)

MayAdopt(sub, p) ==
    /\ sub.fresh
    /\ sub.parentPid # NoPid
    /\ sub.parentStart # 0 => StartTime(sub.parentPid) = sub.parentStart
    /\ IsDescendantOf(p, sub.parentPid)

\* The oldest pending subagent the process p can be, as a set of at most one.
Matches(subs, p) ==
    LET candidates == {s \in subs : MayAdopt(s, p)}
    IN  {s \in candidates : \A t \in candidates : s.order <= t.order}

WithKid(table, k, id) ==
    IF k \notin Keys \/ table[k] = NoSession THEN table
    ELSE [table EXCEPT ![k].kids = @ \union {id}]

Linked(table, sub, id, p) ==
    [WithKid(table, sub.parentPid, id)
        EXCEPT ![p].parent = sub.parentId, ![p].agent = sub.agent]

\* A bug to catch: a correlated subagent stays pending.
CreateKeepingPending(id, p, subs) ==
    LET table  == [sessions EXCEPT ![p] = NewEntry(id, p)]
        oldest == Matches(subs, p)
    IN  /\ index' = [index EXCEPT ![id] = p]
        /\ pending' = subs
        /\ \/ oldest = {} /\ sessions' = table
           \/ \E s \in oldest : sessions' = Linked(table, s, id, p)
        /\ Publish({}, {id})

\* Insert a new entry for id at p, then try_correlate_subagent against subs.
\* No event announces the link.
Create(id, p, subs) ==
    LET table  == [sessions EXCEPT ![p] = NewEntry(id, p)]
        oldest == Matches(subs, p)
    IN  /\ index' = [index EXCEPT ![id] = p]
        /\ pending' = subs \ oldest
        /\ \/ oldest = {} /\ sessions' = table
           \/ \E s \in oldest : sessions' = Linked(table, s, id, p)
        /\ Publish({}, {id})

\* Bugs to catch: the index entry stays; the removal is not published.
RemoveByPidKeepingIndex(k) ==
    /\ sessions' = [sessions EXCEPT ![k] = NoSession]
    /\ UNCHANGED index
    /\ Publish({sessions[k].id}, {})

RemoveByPidSilently(k) ==
    /\ sessions' = [sessions EXCEPT ![k] = NoSession]
    /\ index' = [index EXCEPT ![sessions[k].id] = NoPid]
    /\ Publish({}, {})

\* sessions_by_pid.remove(k) and session_id_to_pid.remove(its id)
RemoveByPid(k) ==
    /\ sessions' = [sessions EXCEPT ![k] = NoSession]
    /\ index' = [index EXCEPT ![sessions[k].id] = NoPid]
    /\ Publish({sessions[k].id}, {})

-----------------------------------------------------------------------------
(* Commands *)

\* handle_register: no pid is passed, a synthetic one is taken; only
\* Registered is published, so nothing is displayed.
Register(id) ==
    /\ id \in RealIds
    /\ ~Full
    /\ index[id] = NoPid
    /\ \E k \in SynthPids :
          /\ ~Present(k)
          /\ sessions' = [sessions EXCEPT ![k] = NewEntry(id, k)]
          /\ index' = [index EXCEPT ![id] = k]
    /\ UNCHANGED <<pending, shown, envVars>>

\* handle_register_discovered: a scan of /proc found p.  A known pid gets its
\* pending id back, announced by an Updated for the new id alone.
RegisterDiscovered(p) ==
    /\ CanReport(p)
    /\ \/ /\ Present(p)
          /\ Rediscovery
          /\ sessions[p].id # PendingId(p)
          /\ sessions' = Renamed(p, PendingId(p))
          /\ index' = Reindexed(sessions[p].id, PendingId(p), p)
          /\ Publish({}, {PendingId(p)})
          /\ UNCHANGED pending
       \/ /\ ~Present(p)
          /\ ~Full
          /\ Create(PendingId(p), p, pending)
    /\ UNCHANGED envVars

\* The fields every Claude status line and vendor event carries.
Says(id, p) == <<id, p>> \in Speaks /\ CanReport(p)

\* update_or_create_by_pid: status line with a pid.  Any difference of ids is
\* reconciled, and a new entry is not correlated with pending subagents.
StatusLine(id, p) ==
    /\ Says(id, p)
    /\ id \in RealIds
    /\ \/ /\ Present(p)
          /\ sessions' = Renamed(p, id)
          /\ index' = IF sessions[p].id = id THEN index
                      ELSE Reindexed(sessions[p].id, id, p)
          /\ Publish({sessions[p].id} \ {id}, {id})
       \/ /\ ~Present(p)
          /\ ~Full
          /\ sessions' = [sessions EXCEPT ![p] = NewEntry(id, p)]
          /\ index' = [index EXCEPT ![id] = p]
          /\ Publish({}, {id})
    /\ UNCHANGED <<pending, envVars>>

\* The same without a pid: the index finds the entry, which is only refreshed.
StatusLineById(id) ==
    /\ \E p \in Pids : Says(id, p)
    /\ id \in RealIds
    /\ Present(index[id])
    /\ Publish({}, {sessions[index[id]].id})
    /\ UNCHANGED <<sessions, index, pending, envVars>>

\* The second half of handle_apply_lifecycle_event: the entry is found by pid,
\* else by id; a pending id is upgraded; an unknown pid gets an entry, with no
\* look at the capacity.
ApplyEvent(id, pid, subs) ==
    LET target == IF pid # NoPid THEN pid ELSE index[id]
    IN  \/ /\ Present(target)
           /\ LET old == sessions[target].id
                  new == IF IsPending(old) /\ ~IsPending(id) THEN id ELSE old
              IN  /\ sessions' = Renamed(target, new)
                  /\ index' = IF new = old THEN index ELSE Reindexed(old, new, target)
                  /\ Publish({old} \ {new}, {new})
           /\ pending' = subs
        \/ /\ pid # NoPid
           /\ ~Present(pid)
           /\ Create(id, pid, subs)
        \/ /\ pid = NoPid
           /\ ~Present(target)
           /\ pending' = subs
           /\ UNCHANGED <<sessions, index, shown>>

\* A message of p about session id, with or without the pid; the connection
\* handler derives a pending id from the pid, never without one.
Attributed(id, p, pid) ==
    /\ Says(id, p)
    /\ pid \in {p, NoPid}
    /\ pid = NoPid => id \in RealIds

\* Any event but SessionEnd and the two child-session events.
LifecycleEvent(id, p, pid) ==
    /\ Attributed(id, p, pid)
    /\ ApplyEvent(id, pid, pending)
    /\ UNCHANGED envVars

\* A bug to catch: the id of a session that is not there is recorded.
CurrentIdUnchecked(k, id) == IF Present(k) THEN sessions[k].id ELSE NoId

CurrentId(k, id) == IF Present(k) THEN sessions[k].id ELSE id

\* The parent is looked up before the event can upgrade its id.
ChildSessionStart(id, p, pid, a) ==
    /\ Attributed(id, p, pid)
    /\ spawned[a].phase = "idle"
    /\ LET parent == IF pid # NoPid THEN pid ELSE index[id]
           sub == [agent       |-> a,
                   order       |-> Cardinality({b \in Agents : spawned[b].phase # "idle"}),
                   parentId    |-> CurrentId(parent, id),
                   parentPid   |-> parent,
                   parentStart |-> StartTime(parent),
                   fresh       |-> TRUE]
       IN  /\ ApplyEvent(id, pid, pending \union {sub})
           /\ spawned' = [spawned EXCEPT ![a] =
                             [phase |-> "running", pid |-> parent, start |-> StartTime(parent)]]
    /\ UNCHANGED procs

ChildSessionEnd(id, p, pid, a) ==
    /\ Attributed(id, p, pid)
    /\ spawned[a].phase = "running"
    /\ ApplyEvent(id, pid, {s \in pending : s.agent # a})
    /\ spawned' = [spawned EXCEPT ![a].phase = "ended"]
    /\ UNCHANGED procs

SessionEnd(id, p, pid) ==
    /\ Attributed(id, p, pid)
    /\ LET target == IF pid # NoPid THEN pid ELSE index[id]
       IN  /\ Present(target)
           /\ RemoveByPid(target)
    /\ UNCHANGED <<pending, envVars>>

\* handle_remove
Remove(id) ==
    /\ index[id] # NoPid
    /\ sessions' = [sessions EXCEPT ![index[id]] = NoSession]
    /\ index' = [index EXCEPT ![id] = NoPid]
    /\ Publish({id}, {})
    /\ UNCHANGED <<pending, envVars>>

\* A bug to catch: the start time of a living process is not compared.
DeadWhenGone(k) ==
    /\ Present(k)
    /\ sessions[k].seen # 0
    /\ StartTime(k) = 0

\* is_process_alive is FALSE: with no start time captured it never is.
Dead(k) ==
    /\ Present(k)
    /\ sessions[k].seen # 0
    /\ StartTime(k) # sessions[k].seen

CleanupStale ==
    LET gone    == {k \in Keys : Dead(k)}
        goneIds == {sessions[k].id : k \in gone}
        fresh   == {s \in pending : s.fresh}
    IN  /\ gone # {} \/ fresh # pending
        /\ sessions' = [k \in Keys |-> IF k \in gone THEN NoSession ELSE sessions[k]]
        /\ index' = [id \in SessionIds |-> IF id \in goneIds THEN NoPid ELSE index[id]]
        /\ pending' = fresh
        /\ Publish(goneIds, {})
        /\ UNCHANGED envVars

\* Entries whose git info changed are announced again.
RefreshGitInfo ==
    /\ \E changed \in SUBSET Live : Publish({}, {sessions[k].id : k \in changed})
    /\ UNCHANGED <<sessions, index, pending, envVars>>

\* Thirty seconds have passed since the oldest fresh announcement.
AgePending ==
    /\ \E s \in pending :
          /\ s.fresh
          /\ \A t \in pending : t.fresh => s.order <= t.order
          /\ pending' = (pending \ {s}) \union {[s EXCEPT !.fresh = FALSE]}
    /\ UNCHANGED <<sessions, index, shown, envVars>>

-----------------------------------------------------------------------------

Init ==
    /\ sessions = [k \in Keys |-> NoSession]
    /\ index = [id \in SessionIds |-> NoPid]
    /\ pending = {}
    /\ shown = {}
    /\ procs = [p \in Pids |-> [start |-> 0, alive |-> FALSE, parent |-> NoPid]]
    /\ spawned = [a \in Agents |-> [phase |-> "idle", pid |-> NoPid, start |-> 0]]

Environment == \E p \in Pids : StartProcess(p) \/ ExitProcess(p)

Timers == CleanupStale \/ RefreshGitInfo \/ AgePending

ById(id) == Register(id) \/ StatusLineById(id) \/ Remove(id)

ByPid(id, p) ==
    \/ StatusLine(id, p)
    \/ \E pid \in {p, NoPid} :
          \/ LifecycleEvent(id, p, pid)
          \/ SessionEnd(id, p, pid)
          \/ \E a \in Agents :
                ChildSessionStart(id, p, pid, a) \/ ChildSessionEnd(id, p, pid, a)

Next ==
    \/ Environment
    \/ Timers
    \/ \E id \in SessionIds : ById(id)
    \/ \E p \in Pids : RegisterDiscovered(p)
    \/ \E id \in SessionIds, p \in Pids : ByPid(id, p)

Spec == Init /\ [][Next]_vars

\* The cleanup task ticks every two seconds for as long as the daemon runs;
\* nothing is assumed of processes, vendors or clients.
FairSpec == Spec /\ WF_vars(CleanupStale)

-----------------------------------------------------------------------------
(* Properties *)

\* The variables stay within their types.
TypeOK ==
    /\ sessions \in [Keys -> Entry \union {NoSession}]
    /\ index \in [SessionIds -> Keys \union {NoPid}]
    /\ pending \subseteq PendingEntry
    /\ shown \subseteq SessionIds
    /\ procs \in [Pids -> Process]
    /\ spawned \in [Agents -> Spawn]

\* Whatever vendors, discovery and processes do, an id the index knows leads to
\* an entry of that very id: GetSession, Remove and pid-less events never touch
\* another session, and removal leaves no dangling index entry.
IndexSound ==
    \A id \in SessionIds :
        index[id] # NoPid =>
            Present(index[id]) /\ sessions[index[id]].id = id

\* Every entry can be found by its id, so no session is beyond the reach of
\* pid-less status lines and events, GetSession and Remove.
IndexComplete ==
    \A k \in Keys : Present(k) => index[sessions[k].id] = k

\* A subscriber that has applied every published event displays exactly the
\* registry's sessions: no ghost of a removed or renamed session, none missing.
SubscriberAgrees == shown = {sessions[k].id : k \in Live}

\* An assumption on Speaks, not on the registry: no session id is ever used by
\* two processes.  Without it an id resumed in a second process moves the index
\* entry there, and removing either entry hides the other.
UniqueOwner == \A s, t \in Speaks : s[1] = t[1] => s[2] = t[2]

\* One announced subagent becomes at most one child session, and once it has
\* become one it no longer waits to be adopted.
AgentAdoptedOnce ==
    \A k \in Keys : Present(k) /\ sessions[k].agent # NoAgent =>
        /\ \A j \in Keys \ {k} : Present(j) => sessions[j].agent # sessions[k].agent
        /\ \A s \in pending : s.agent # sessions[k].agent

\* A session is attached to a subagent only while that subagent runs and while
\* the very process that announced it runs: neither an ended subagent nor a
\* process that merely reuses the announcing pid acquires children.
AdoptedBySpawner ==
    [][\A k \in Keys :
          LET a == sessions'[k].agent
          IN  /\ sessions'[k] # NoSession
              /\ a # NoAgent
              /\ ~(Present(k) /\ sessions[k].agent = a)
              => /\ spawned'[a].phase = "running"
                 /\ StartTime(spawned'[a].pid) = spawned'[a].start]_vars

\* An entry with a recorded start time whose process is gone, or whose pid now
\* belongs to another process, does not stay.
DeadEntriesReaped ==
    \A k \in Keys :
        LET outlived == /\ Present(k)
                        /\ sessions[k].seen # 0
                        /\ StartTime(k) # sessions[k].seen
        IN  outlived ~> ~outlived

\* The registry keeps the promises of a directory: of the ids of all processes
\* at most one appears or changes at a time, and every change is announced in
\* the step that makes it.
Directory ==
    INSTANCE SessionDirectory
        WITH Ids <- SessionIds, NoKey <- NoPid, Forgetful <- Rediscovery,
             idOf <- [k \in Keys |-> IF Present(k) THEN sessions[k].id ELSE NoId],
             route <- index
DirectoryKept == Directory!Spec

=============================================================================
