------------------------ MODULE SessionRegistryProofs ------------------------
(***************************************************************************)
(* Theorems about SessionRegistry for every number of processes, ids,      *)
(* subagents and sessions.  Every step of the specification changes the    *)
(* session table, its index and the subscriber's display in one of four    *)
(* ways; each invariant is then a fact about those four.  The theorems on  *)
(* the adoption of subagents need of the table only which subagent each    *)
(* entry is attached to.                                                   *)
(***************************************************************************)
EXTENDS SessionRegistry, FiniteSetTheorems, TLAPS

Table == [Keys -> Entry \union {NoSession}]
IdsOf(K) == {sessions[k].id : k \in K}

\* id is an id that a message about k may bring into the table.
Owns(id, k) == <<id, k>> \in Speaks \/ (k \in Pids /\ id = PendingId(k))

\* Nothing but a repeated announcement of entries.
Refreshed ==
    /\ UNCHANGED <<sessions, index>>
    /\ \E K \in SUBSET Live : shown' = shown \union IdsOf(K)

\* The entry at k got the id new.
RenamedTo(k, new) ==
    /\ Present(k)
    /\ sessions' = Renamed(k, new)
    /\ index' = IF new = sessions[k].id THEN index ELSE Reindexed(sessions[k].id, new, k)
    /\ k \in Pids => Owns(new, k) \/ new = sessions[k].id
    /\ k \in SynthPids => new = sessions[k].id
    /\ \/ shown' = (shown \ ({sessions[k].id} \ {new})) \union {new}
       \/ Rediscovery /\ shown' = shown \union {new}

\* A new entry for id at k; links may have been set, ids have not.
CreatedAt(k, id) ==
    /\ ~Present(k)
    /\ index' = [index EXCEPT ![id] = k]
    /\ sessions' \in Table
    /\ sessions'[k] \in Entry
    /\ sessions'[k].id = id
    /\ \A j \in Keys \ {k} :
          /\ sessions'[j] = NoSession <=> sessions[j] = NoSession
          /\ sessions[j] # NoSession => sessions'[j].id = sessions[j].id
    /\ \/ k \in Pids /\ Owns(id, k) /\ shown' = shown \union {id}
       \/ k \in SynthPids /\ shown' = shown

\* The entries of K were dropped, with the index entries of their ids.
Dropped(K) ==
    /\ K # {}
    /\ sessions' = [k \in Keys |-> IF k \in K THEN NoSession ELSE sessions[k]]
    /\ index' = [id \in SessionIds |-> IF id \in IdsOf(K) THEN NoPid ELSE index[id]]
    /\ shown' = shown \ IdsOf(K)

TableStep ==
    \/ Refreshed
    \/ \E k \in Keys, new \in SessionIds : RenamedTo(k, new)
    \/ \E k \in Keys, id \in SessionIds : CreatedAt(k, id)
    \/ \E K \in SUBSET Live : Dropped(K)

-----------------------------------------------------------------------------
(* Lemmas about the operators *)

\* Setting the links of a correlated child changes no id and no presence.
LEMMA LinkedKeepsIds ==
    ASSUME NEW table \in Table, NEW s \in PendingEntry,
           NEW id \in SessionIds, NEW p \in Keys, table[p] \in Entry
    PROVE  /\ Linked(table, s, id, p) \in Table
           /\ \A k \in Keys :
                 /\ Linked(table, s, id, p)[k] = NoSession <=> table[k] = NoSession
                 /\ table[k] # NoSession => Linked(table, s, id, p)[k].id = table[k].id
<1> DEFINE kidded == WithKid(table, s.parentPid, id)
           linked == Linked(table, s, id, p)
<1>1. /\ kidded \in Table
      /\ \A k \in Keys :
            /\ kidded[k] = NoSession <=> table[k] = NoSession
            /\ table[k] # NoSession => kidded[k].id = table[k].id
  <2>1. CASE s.parentPid \notin Keys \/ table[s.parentPid] = NoSession
    BY <2>1 DEF WithKid
  <2>2. CASE s.parentPid \in Keys /\ table[s.parentPid] # NoSession
    <3> DEFINE q == s.parentPid
               e == [table[q] EXCEPT !.kids = @ \union {id}]
    <3>1. table[q] \in Entry
      BY <2>2 DEF Table
    <3>2. e \in Entry /\ e.id = table[q].id /\ e # NoSession
      BY <3>1, RegistryAssumption DEF Entry
    <3>3. kidded = [table EXCEPT ![q] = e]
      BY <2>2 DEF WithKid
    <3> QED
      BY <2>2, <3>1, <3>2, <3>3 DEF Table
  <2> QED
    BY <2>1, <2>2
<1>2. kidded[p] \in Entry
  BY <1>1, RegistryAssumption DEF Table
<1> DEFINE e == [kidded[p] EXCEPT !.parent = s.parentId, !.agent = s.agent]
<1>3. e \in Entry /\ e.id = kidded[p].id /\ e # NoSession
  BY <1>2, RegistryAssumption DEF Entry, PendingEntry
<1>4. linked = [kidded EXCEPT ![p] = e]
  BY <1>1 DEF Linked, Table
<1>5. linked \in Table
  <2> HIDE DEF kidded, e, linked
  <2> QED
    BY <1>1, <1>3, <1>4 DEF Table
<1>6. ASSUME NEW k \in Keys
      PROVE  /\ linked[k] = NoSession <=> table[k] = NoSession
             /\ table[k] # NoSession => linked[k].id = table[k].id
  <2> HIDE DEF kidded, e, linked
  <2>1. CASE k = p
    BY <2>1, <1>1, <1>2, <1>3, <1>4, RegistryAssumption DEF Table
  <2>2. CASE k # p
    BY <2>2, <1>1, <1>4 DEF Table
  <2> QED
    BY <2>1, <2>2
<1> QED
  BY <1>5, <1>6

\* A captured start time is a natural number.
LEMMA StartTimeType ==
    ASSUME TypeOK, NEW k
    PROVE  StartTime(k) \in Nat
BY DEF StartTime, TypeOK, Process

\* A new entry is an entry.
LEMMA NewEntryType ==
    ASSUME TypeOK, NEW id \in SessionIds, NEW k
    PROVE  NewEntry(id, k) \in Entry /\ NewEntry(id, k).id = id
BY StartTimeType DEF NewEntry, Entry

\* Creating an entry with correlation is a creation step.
LEMMA CreateIsCreation ==
    ASSUME TypeOK, NEW id \in SessionIds, NEW p \in Pids, ~Present(p), Owns(id, p),
           NEW subs \in SUBSET PendingEntry, Create(id, p, subs)
    PROVE  CreatedAt(p, id) /\ pending' \in SUBSET subs
<1> DEFINE table == [sessions EXCEPT ![p] = NewEntry(id, p)]
<1>1. /\ index' = [index EXCEPT ![id] = p]
      /\ pending' \in SUBSET subs
      /\ shown' = shown \union {id}
      /\ sessions' = table \/ \E s \in subs : sessions' = Linked(table, s, id, p)
  BY DEF Create, Publish, Matches
<1>2. /\ p \in Keys
      /\ sessions \in Table
      /\ NewEntry(id, p) \in Entry
      /\ NewEntry(id, p).id = id
  BY NewEntryType DEF TypeOK, Table, Keys
<1>3. /\ table \in Table
      /\ table[p] \in Entry
      /\ table[p].id = id
      /\ \A j \in Keys \ {p} : table[j] = sessions[j]
  BY <1>2 DEF Table
<1>4. table[p] # NoSession
  BY <1>3, RegistryAssumption
<1>5. /\ sessions' \in Table
      /\ \A k \in Keys :
            /\ sessions'[k] = NoSession <=> table[k] = NoSession
            /\ table[k] # NoSession => sessions'[k].id = table[k].id
  <2>1. CASE sessions' = table
    BY <2>1, <1>3
  <2>2. CASE \E s \in subs : sessions' = Linked(table, s, id, p)
    <3>1. PICK s \in subs : sessions' = Linked(table, s, id, p)
      BY <2>2
    <3>2. s \in PendingEntry
      OBVIOUS
    <3> HIDE DEF table
    <3> QED
      BY <3>1, <3>2, <1>2, <1>3, LinkedKeepsIds
  <2> QED
    BY <1>1, <2>1, <2>2
<1>6. sessions'[p] \in Entry /\ sessions'[p].id = id
  BY <1>2, <1>3, <1>4, <1>5 DEF Table
<1> QED
  BY <1>1, <1>2, <1>3, <1>5, <1>6 DEF CreatedAt

-----------------------------------------------------------------------------
(* Every step is a table step *)

\* An announcement of entries, or none, leaves the table as it is.
LEMMA RefreshIsTableStep ==
    ASSUME UNCHANGED <<sessions, index>>, NEW K \in SUBSET Live,
           shown' = shown \union IdsOf(K)
    PROVE  TableStep
BY DEF TableStep, Refreshed

\* Nothing at all happens to the table and the display.
LEMMA IdleIsTableStep ==
    ASSUME UNCHANGED <<sessions, index, shown>>
    PROVE  TableStep
<1>1. {} \in SUBSET Live /\ shown' = shown \union IdsOf({})
  BY DEF IdsOf
<1> QED
  BY <1>1, RefreshIsTableStep

\* A present key holds an entry whose id is a session id.
LEMMA PresentEntry ==
    ASSUME TypeOK, NEW k, Present(k)
    PROVE  k \in Keys /\ sessions[k] \in Entry /\ sessions[k].id \in SessionIds
BY RegistryAssumption DEF TypeOK, Present, Entry

\* What a message says about a pid is something the pid owns.
LEMMA SaidIsOwned ==
    ASSUME NEW id, NEW p \in Pids, Says(id, p)
    PROVE  Owns(id, p)
BY DEF Says, Owns

\* The common half of the lifecycle events is a table step.
LEMMA ApplyEventIsTableStep ==
    ASSUME TypeOK, IndexSound, NEW id \in SessionIds, NEW p \in Pids, NEW pid,
           Attributed(id, p, pid), NEW subs \in SUBSET PendingEntry,
           ApplyEvent(id, pid, subs)
    PROVE  TableStep /\ pending' \in SUBSET PendingEntry
<1> DEFINE target == IF pid # NoPid THEN pid ELSE index[id]
           old == sessions[target].id
           new == IF IsPending(old) /\ ~IsPending(id) THEN id ELSE old
<1>1. pid = NoPid \/ pid = p
  BY DEF Attributed
<1>2. Owns(id, p)
  BY SaidIsOwned DEF Attributed
<1>3. CASE /\ Present(target)
           /\ sessions' = Renamed(target, new)
           /\ index' = IF new = old THEN index ELSE Reindexed(old, new, target)
           /\ Publish({old} \ {new}, {new})
           /\ pending' = subs
  <2>1. target \in Keys /\ old \in SessionIds /\ new \in SessionIds
    BY <1>3, PresentEntry
  <2>2. target = p \/ new = old
    <3>1. CASE pid = NoPid
      <4>1. index[id] # NoPid /\ target = index[id]
        BY <3>1, <2>1, RegistryAssumption
      <4>2. old = id
        BY <4>1 DEF IndexSound
      <4> QED
        BY <4>2
    <3>2. CASE pid = p
      BY <3>2, RegistryAssumption DEF Keys
    <3> QED
      BY <3>1, <3>2, <1>1
  <2>3. /\ target \in Pids => Owns(new, target) \/ new = old
        /\ target \in SynthPids => new = old
    BY <2>2, <1>2, RegistryAssumption
  <2>4. shown' = (shown \ ({old} \ {new})) \union {new}
    BY <1>3 DEF Publish
  <2>5. RenamedTo(target, new)
    <3> HIDE DEF target, new
    <3> QED
      BY <1>3, <2>3, <2>4 DEF RenamedTo
  <2> QED
    BY <1>3, <2>1, <2>5 DEF TableStep
<1>4. CASE pid # NoPid /\ ~Present(pid) /\ Create(id, pid, subs)
  <2>1. CreatedAt(p, id) /\ pending' \in SUBSET subs
    BY <1>1, <1>2, <1>4, CreateIsCreation
  <2> QED
    BY <2>1 DEF TableStep, Keys
<1>5. CASE UNCHANGED <<sessions, index, shown>> /\ pending' = subs
  BY <1>5, IdleIsTableStep
<1> QED
  BY <1>3, <1>4, <1>5 DEF ApplyEvent

\* Dropping the entry that is found under k.
LEMMA RemoveByPidIsTableStep ==
    ASSUME TypeOK, NEW k, Present(k), RemoveByPid(k)
    PROVE  TableStep
<1>1. /\ k \in Keys
      /\ {k} \in SUBSET Live
      /\ IdsOf({k}) = {sessions[k].id}
  BY PresentEntry DEF Live, IdsOf
<1>2. Dropped({k})
  BY <1>1 DEF RemoveByPid, Dropped, Publish, TypeOK
<1> QED
  BY <1>1, <1>2 DEF TableStep

\* The commands that name no process.
LEMMA ByIdIsTableStep ==
    ASSUME TypeOK, IndexSound, NEW id \in SessionIds, ById(id)
    PROVE  TableStep /\ UNCHANGED <<pending, procs, spawned>>
<1>1. CASE Register(id)
  <2>1. PICK k \in SynthPids : /\ ~Present(k)
                              /\ sessions' = [sessions EXCEPT ![k] = NewEntry(id, k)]
                              /\ index' = [index EXCEPT ![id] = k]
    BY <1>1 DEF Register
  <2>2. k \in Keys /\ NewEntry(id, k) \in Entry /\ NewEntry(id, k).id = id
    BY NewEntryType DEF Keys
  <2>3. CreatedAt(k, id)
    BY <1>1, <2>1, <2>2, RegistryAssumption DEF CreatedAt, TypeOK, Table, Register
  <2> QED
    BY <1>1, <2>2, <2>3 DEF TableStep, Register, envVars
<1>2. CASE StatusLineById(id)
  <2>1. index[id] \in Keys /\ {index[id]} \in SUBSET Live
    BY <1>2 DEF StatusLineById, Present, Live
  <2>2. shown' = shown \union IdsOf({index[id]})
    BY <1>2 DEF StatusLineById, Publish, IdsOf
  <2> QED
    BY <1>2, <2>1, <2>2, RefreshIsTableStep DEF StatusLineById, envVars
<1>3. CASE Remove(id)
  <2>1. Present(index[id]) /\ sessions[index[id]].id = id
    BY <1>3 DEF Remove, IndexSound
  <2>2. RemoveByPid(index[id])
    BY <1>3, <2>1 DEF Remove, RemoveByPid
  <2> QED
    BY <1>3, <2>1, <2>2, RemoveByPidIsTableStep DEF Remove, envVars
<1> QED
  BY <1>1, <1>2, <1>3 DEF ById

\* Discovery of a pid.
LEMMA RegisterDiscoveredIsTableStep ==
    ASSUME TypeOK, NEW p \in Pids, RegisterDiscovered(p)
    PROVE  /\ TableStep
           /\ pending' \in SUBSET PendingEntry
           /\ UNCHANGED <<procs, spawned>>
<1>1. PendingId(p) \in SessionIds /\ Owns(PendingId(p), p) /\ p \in Keys
  BY DEF SessionIds, PendingIds, Owns, Keys
<1>2. CASE /\ Present(p)
           /\ Rediscovery
           /\ sessions[p].id # PendingId(p)
           /\ sessions' = Renamed(p, PendingId(p))
           /\ index' = Reindexed(sessions[p].id, PendingId(p), p)
           /\ Publish({}, {PendingId(p)})
           /\ UNCHANGED pending
  <2>1. RenamedTo(p, PendingId(p))
    BY <1>1, <1>2, RegistryAssumption DEF RenamedTo, Publish
  <2> QED
    BY <1>1, <1>2, <2>1 DEF TableStep, RegisterDiscovered, TypeOK, envVars
<1>3. CASE ~Present(p) /\ Create(PendingId(p), p, pending)
  <2>1. CreatedAt(p, PendingId(p)) /\ pending' \in SUBSET pending
    BY <1>1, <1>3, CreateIsCreation DEF TypeOK
  <2> QED
    BY <1>1, <2>1 DEF TableStep, RegisterDiscovered, TypeOK, envVars
<1> QED
  BY <1>2, <1>3 DEF RegisterDiscovered

\* A status line with a pid.
LEMMA StatusLineIsTableStep ==
    ASSUME TypeOK, NEW id \in SessionIds, NEW p \in Pids, StatusLine(id, p)
    PROVE  TableStep /\ UNCHANGED <<pending, procs, spawned>>
<1>1. Owns(id, p) /\ p \in Keys
  BY SaidIsOwned DEF StatusLine, Keys
<1>2. CASE Present(p)
  <2>1. RenamedTo(p, id)
    BY <1>1, <1>2, RegistryAssumption DEF StatusLine, RenamedTo, Publish
  <2> QED
    BY <1>1, <2>1 DEF TableStep, StatusLine, envVars
<1>3. CASE ~Present(p)
  <2>1. NewEntry(id, p) \in Entry /\ NewEntry(id, p).id = id
    BY NewEntryType
  <2>2. CreatedAt(p, id)
    BY <1>1, <1>3, <2>1 DEF StatusLine, CreatedAt, Publish, TypeOK, Table
  <2> QED
    BY <1>1, <2>2 DEF TableStep, StatusLine, envVars
<1> QED
  BY <1>2, <1>3

\* Events of vendors that come with, or are attributed to, a pid.
LEMMA ByPidIsTableStep ==
    ASSUME TypeOK, IndexSound, NEW id \in SessionIds, NEW p \in Pids, ByPid(id, p)
    PROVE  /\ TableStep
           /\ pending' \in SUBSET PendingEntry
           /\ spawned' \in [Agents -> Spawn]
           /\ UNCHANGED procs
<1>1. CASE StatusLine(id, p)
  BY <1>1, StatusLineIsTableStep DEF TypeOK
<1>2. ASSUME NEW pid \in {p, NoPid}, LifecycleEvent(id, p, pid)
      PROVE  /\ TableStep
             /\ pending' \in SUBSET PendingEntry
             /\ UNCHANGED <<procs, spawned>>
  BY <1>2, ApplyEventIsTableStep DEF LifecycleEvent, TypeOK, envVars
<1>3. ASSUME NEW pid \in {p, NoPid}, SessionEnd(id, p, pid)
      PROVE  TableStep /\ UNCHANGED <<pending, procs, spawned>>
  BY <1>3, RemoveByPidIsTableStep DEF SessionEnd, envVars
<1>4. ASSUME NEW pid \in {p, NoPid}, NEW a \in Agents, ChildSessionStart(id, p, pid, a)
      PROVE  /\ TableStep
             /\ pending' \in SUBSET PendingEntry
             /\ spawned' \in [Agents -> Spawn]
             /\ UNCHANGED procs
  <2> DEFINE parent == IF pid # NoPid THEN pid ELSE index[id]
             sub == [agent       |-> a,
                     order       |-> Cardinality({b \in Agents : spawned[b].phase # "idle"}),
                     parentId    |-> CurrentId(parent, id),
                     parentPid   |-> parent,
                     parentStart |-> StartTime(parent),
                     fresh       |-> TRUE]
             now == [phase |-> "running", pid |-> parent, start |-> StartTime(parent)]
  <2>1. parent \in Keys \union {NoPid}
    BY DEF TypeOK, Keys
  <2>2. StartTime(parent) \in Nat
    BY StartTimeType
  <2>3. CurrentId(parent, id) \in SessionIds
    BY PresentEntry DEF CurrentId
  <2>4. Cardinality({b \in Agents : spawned[b].phase # "idle"}) \in Nat
    BY RegistryAssumption, FS_Subset, FS_CardinalityType
  <2>5. sub \in PendingEntry /\ now \in Spawn
    <3> HIDE DEF parent
    <3> QED
      BY <2>1, <2>2, <2>3, <2>4 DEF PendingEntry, Spawn
  <2>6. /\ Attributed(id, p, pid)
        /\ ApplyEvent(id, pid, pending \union {sub})
        /\ spawned' = [spawned EXCEPT ![a] = now]
        /\ UNCHANGED procs
    BY <1>4 DEF ChildSessionStart
  <2>7. pending \union {sub} \in SUBSET PendingEntry
    BY <2>5 DEF TypeOK
  <2> HIDE DEF sub, now
  <2>8. TableStep /\ pending' \in SUBSET PendingEntry
    BY <2>6, <2>7, ApplyEventIsTableStep
  <2> QED
    BY <2>5, <2>6, <2>8 DEF TypeOK
<1>5. ASSUME NEW pid \in {p, NoPid}, NEW a \in Agents, ChildSessionEnd(id, p, pid, a)
      PROVE  /\ TableStep
             /\ pending' \in SUBSET PendingEntry
             /\ spawned' \in [Agents -> Spawn]
             /\ UNCHANGED procs
  <2>1. {s \in pending : s.agent # a} \in SUBSET PendingEntry
    BY DEF TypeOK
  <2>2. TableStep /\ pending' \in SUBSET PendingEntry
    BY <1>5, <2>1, ApplyEventIsTableStep DEF ChildSessionEnd
  <2>3. spawned' \in [Agents -> Spawn]
    BY <1>5 DEF ChildSessionEnd, TypeOK, Spawn
  <2> QED
    BY <1>5, <2>2, <2>3 DEF ChildSessionEnd
<1> QED
  BY <1>1, <1>2, <1>3, <1>4, <1>5 DEF ByPid, TypeOK

\* The timers.
LEMMA TimersAreTableSteps ==
    ASSUME TypeOK, Timers
    PROVE  /\ TableStep
           /\ pending' \in SUBSET PendingEntry
           /\ UNCHANGED <<procs, spawned>>
<1>1. CASE CleanupStale
  <2> DEFINE gone == {k \in Keys : Dead(k)}
  <2>1. gone \in SUBSET Live
    BY DEF Dead, Live
  <2>2. CASE gone = {}
    <3>1. UNCHANGED <<sessions, index, shown>>
      BY <1>1, <2>2 DEF CleanupStale, Publish, TypeOK
    <3> QED
      BY <1>1, <3>1, IdleIsTableStep DEF CleanupStale, TypeOK, envVars
  <2>3. CASE gone # {}
    <3>1. Dropped(gone)
      BY <1>1, <2>3 DEF CleanupStale, Publish, Dropped, IdsOf
    <3> QED
      BY <1>1, <2>1, <3>1 DEF TableStep, CleanupStale, TypeOK, envVars
  <2> QED
    BY <2>2, <2>3
<1>2. CASE RefreshGitInfo
  <2>1. PICK K \in SUBSET Live : Publish({}, {sessions[k].id : k \in K})
    BY <1>2 DEF RefreshGitInfo
  <2>2. shown' = shown \union IdsOf(K)
    BY <2>1 DEF Publish, IdsOf
  <2> QED
    BY <1>2, <2>2, RefreshIsTableStep DEF RefreshGitInfo, TypeOK, envVars
<1>3. CASE AgePending
  <2>1. PICK s \in pending : pending' = (pending \ {s}) \union {[s EXCEPT !.fresh = FALSE]}
    BY <1>3 DEF AgePending
  <2>2. [s EXCEPT !.fresh = FALSE] \in PendingEntry
    BY DEF TypeOK, PendingEntry
  <2> QED
    BY <1>3, <2>1, <2>2, IdleIsTableStep DEF AgePending, TypeOK, envVars
<1> QED
  BY <1>1, <1>2, <1>3 DEF Timers

\* Processes come and go without the registry noticing.
LEMMA EnvironmentIsTableStep ==
    ASSUME TypeOK, Environment
    PROVE  TableStep /\ procs' \in [Pids -> Process] /\ UNCHANGED <<pending, spawned>>
<1>1. PICK p \in Pids : StartProcess(p) \/ ExitProcess(p)
  BY DEF Environment
<1>2. CASE StartProcess(p)
  <2>1. PICK q \in {k \in Pids : procs[k].alive} \union {NoPid} :
           procs' = [procs EXCEPT ![p] = [start |-> @.start + 1, alive |-> TRUE, parent |-> q]]
    BY <1>2 DEF StartProcess
  <2>2. procs' \in [Pids -> Process]
    BY <2>1 DEF TypeOK, Process
  <2> QED
    BY <1>2, <2>2, IdleIsTableStep DEF StartProcess
<1>3. CASE ExitProcess(p)
  <2>1. procs' \in [Pids -> Process]
    BY <1>3 DEF ExitProcess, TypeOK, Process
  <2> QED
    BY <1>3, <2>1, IdleIsTableStep DEF ExitProcess
<1> QED
  BY <1>1, <1>2, <1>3

\* A table step keeps the table, the index and the display within their types.
LEMMA TableStepType ==
    ASSUME TypeOK, TableStep
    PROVE  /\ sessions' \in [Keys -> Entry \union {NoSession}]
           /\ index' \in [SessionIds -> Keys \union {NoPid}]
           /\ shown' \subseteq SessionIds
<1>1. CASE Refreshed
  BY <1>1, PresentEntry DEF Refreshed, TypeOK, Live, IdsOf
<1>2. ASSUME NEW k \in Keys, NEW new \in SessionIds, RenamedTo(k, new)
      PROVE  /\ sessions' \in Table
             /\ index' \in [SessionIds -> Keys \union {NoPid}]
             /\ shown' \subseteq SessionIds
  <2>1. sessions[k] \in Entry /\ [sessions[k] EXCEPT !.id = new] \in Entry
    BY <1>2, PresentEntry DEF RenamedTo, Entry
  <2>2. sessions' = [sessions EXCEPT ![k] = [sessions[k] EXCEPT !.id = new]]
    BY <1>2 DEF RenamedTo, Renamed, TypeOK
  <2>3. sessions' \in Table
    BY <2>1, <2>2 DEF Table, TypeOK
  <2>4. index' \in [SessionIds -> Keys \union {NoPid}] /\ shown' \subseteq SessionIds
    BY <1>2 DEF RenamedTo, Reindexed, TypeOK
  <2> QED
    BY <2>3, <2>4
<1>3. ASSUME NEW k \in Keys, NEW id \in SessionIds, CreatedAt(k, id)
      PROVE  /\ sessions' \in Table
             /\ index' \in [SessionIds -> Keys \union {NoPid}]
             /\ shown' \subseteq SessionIds
  BY <1>3 DEF CreatedAt, TypeOK, Table
<1>4. ASSUME NEW K \in SUBSET Live, Dropped(K)
      PROVE  /\ sessions' \in Table
             /\ index' \in [SessionIds -> Keys \union {NoPid}]
             /\ shown' \subseteq SessionIds
  BY <1>4 DEF Dropped, TypeOK, Table
<1> QED
  BY <1>1, <1>2, <1>3, <1>4 DEF TableStep, Table

\* Every step is a table step that keeps the types.
LEMMA NextIsTableStep ==
    ASSUME TypeOK, IndexSound, [Next]_vars
    PROVE  TableStep /\ TypeOK'
<1>1. /\ TableStep
      /\ pending' \in SUBSET PendingEntry
      /\ procs' \in [Pids -> Process]
      /\ spawned' \in [Agents -> Spawn]
  <2>1. CASE UNCHANGED vars
    BY <2>1, IdleIsTableStep DEF vars, TypeOK
  <2>2. CASE Environment
    BY <2>2, EnvironmentIsTableStep DEF TypeOK
  <2>3. CASE Timers
    BY <2>3, TimersAreTableSteps DEF TypeOK
  <2>4. CASE \E id \in SessionIds : ById(id)
    BY <2>4, ByIdIsTableStep DEF TypeOK
  <2>5. CASE \E p \in Pids : RegisterDiscovered(p)
    BY <2>5, RegisterDiscoveredIsTableStep DEF TypeOK
  <2>6. CASE \E id \in SessionIds, p \in Pids : ByPid(id, p)
    BY <2>6, ByPidIsTableStep DEF TypeOK
  <2> QED
    BY <2>1, <2>2, <2>3, <2>4, <2>5, <2>6 DEF Next
<1> QED
  BY <1>1, TableStepType DEF TypeOK

-----------------------------------------------------------------------------
(* Soundness of the index: no assumption on ids *)

\* A table step leaves no index entry that dangles or leads to another id.
LEMMA TableStepKeepsIndexSound ==
    ASSUME TypeOK, IndexSound, TableStep
    PROVE  IndexSound'
<1> DEFINE Leads(k, id) == k \in Keys /\ sessions'[k] # NoSession /\ sessions'[k].id = id
<1> SUFFICES ASSUME NEW x \in SessionIds, index'[x] # NoPid
             PROVE  Leads(index'[x], x)
  BY DEF IndexSound, Present
<1>1. CASE Refreshed
  BY <1>1 DEF Refreshed, IndexSound, Present
<1>2. ASSUME NEW k \in Keys, NEW new \in SessionIds, RenamedTo(k, new)
      PROVE  Leads(index'[x], x)
  <2> DEFINE old == sessions[k].id
  <2>1. /\ sessions[k] \in Entry
        /\ sessions' = [sessions EXCEPT ![k] = [sessions[k] EXCEPT !.id = new]]
        /\ [sessions[k] EXCEPT !.id = new] \in Entry
    BY <1>2, PresentEntry DEF RenamedTo, Renamed, TypeOK, Entry
  <2>2. sessions'[k] # NoSession /\ sessions'[k].id = new
    BY <2>1, RegistryAssumption DEF TypeOK, Entry
  <2>3. \A j \in Keys \ {k} : sessions'[j] = sessions[j]
    BY <2>1 DEF TypeOK
  <2>4. CASE index'[x] = k
    <3>1. x = new
      BY <1>2, <2>4, RegistryAssumption DEF RenamedTo, Reindexed, IndexSound, TypeOK
    <3> QED
      BY <2>2, <2>4, <3>1 DEF Present
  <2>5. CASE index'[x] # k
    <3>1. index'[x] = index[x] /\ index[x] \in Keys
      BY <1>2, <2>5 DEF RenamedTo, Reindexed, TypeOK
    <3> QED
      BY <2>3, <2>5, <3>1 DEF IndexSound, Present
  <2> QED
    BY <2>4, <2>5
<1>3. ASSUME NEW k \in Keys, NEW id \in SessionIds, CreatedAt(k, id)
      PROVE  Leads(index'[x], x)
  <2>1. CASE x = id
    BY <1>3, <2>1, RegistryAssumption DEF CreatedAt, Present, TypeOK
  <2>2. CASE x # id
    <3>1. /\ index'[x] = index[x]
          /\ Present(index[x])
          /\ sessions[index[x]].id = x
      BY <1>3, <2>2 DEF CreatedAt, IndexSound, TypeOK
    <3>2. index[x] \in Keys \ {k}
      BY <1>3, <3>1 DEF CreatedAt, Present
    <3> QED
      BY <1>3, <3>1, <3>2 DEF CreatedAt, Present
  <2> QED
    BY <2>1, <2>2
<1>4. ASSUME NEW K \in SUBSET Live, Dropped(K)
      PROVE  Leads(index'[x], x)
  <2>1. x \notin IdsOf(K) /\ index'[x] = index[x]
    BY <1>4 DEF Dropped
  <2>2. Present(index[x]) /\ sessions[index[x]].id = x /\ index[x] \notin K
    BY <2>1 DEF IndexSound, IdsOf
  <2> QED
    BY <1>4, <2>1, <2>2 DEF Dropped, Present
<1> QED
  BY <1>1, <1>2, <1>3, <1>4 DEF TableStep

\* Initially everything is empty.
LEMMA InitSound == Init => TypeOK /\ IndexSound
BY RegistryAssumption DEF Init, TypeOK, IndexSound, Process, Spawn

\* The types are kept, and an id that the index knows leads to an entry of that
\* very id, whatever ids vendors reuse and however discovery interferes.
THEOREM RegistrySafe == Spec => [](TypeOK /\ IndexSound)
<1>1. Init => TypeOK /\ IndexSound
  BY InitSound
<1>2. (TypeOK /\ IndexSound) /\ [Next]_vars => (TypeOK /\ IndexSound)'
  BY NextIsTableStep, TableStepKeepsIndexSound
<1> QED
  BY <1>1, <1>2, PTL DEF Spec

\* The registry's variables keep their types.
THEOREM TypeCorrect == Spec => []TypeOK
BY RegistrySafe, PTL

\* GetSession, Remove and messages without a pid never reach a foreign entry.
THEOREM IndexIsSound == Spec => []IndexSound
BY RegistrySafe, PTL

-----------------------------------------------------------------------------
(* Completeness of the index and fidelity of the display, when every id *)
(* belongs to one process.  The strengthening says whose id an entry has. *)

\* Every entry has an id that belongs to the entry's process.
Owned == \A k \in Keys : Present(k) => Owns(sessions[k].id, k)

\* An id belongs to one process.
LEMMA OneOwner ==
    ASSUME UniqueOwner, NEW id, NEW j \in Pids, NEW k \in Pids, Owns(id, j), Owns(id, k)
    PROVE  j = k
<1>1. ASSUME NEW p \in Pids, NEW q \in Pids, <<PendingId(p), q>> \in Speaks
      PROVE  p = q
  BY <1>1, RegistryAssumption DEF PendingIds, PendingId
<1>2. ASSUME PendingId(j) = PendingId(k)
      PROVE  j = k
  BY <1>2 DEF PendingId
<1>3. CASE <<id, j>> \in Speaks /\ <<id, k>> \in Speaks
  <2>1. <<id, j>>[1] = <<id, k>>[1] => <<id, j>>[2] = <<id, k>>[2]
    BY <1>3 DEF UniqueOwner
  <2> QED
    BY <2>1
<1> QED
  BY <1>1, <1>2, <1>3 DEF Owns

\* Two entries never share an id.
LEMMA IdsAreDistinct ==
    ASSUME UniqueOwner, SynthPids = {}, Owned,
           NEW j \in Keys, NEW k \in Keys, Present(j), Present(k),
           sessions[j].id = sessions[k].id
    PROVE  j = k
BY OneOwner DEF Owned, Keys

\* What a renaming does to the table.
LEMMA RenamedTable ==
    ASSUME TypeOK, NEW k \in Keys, NEW new \in SessionIds, RenamedTo(k, new)
    PROVE  /\ sessions' \in Table
           /\ sessions'[k] # NoSession
           /\ sessions'[k].id = new
           /\ \A j \in Keys \ {k} : sessions'[j] = sessions[j]
<1>1. /\ sessions[k] \in Entry
      /\ sessions' = [sessions EXCEPT ![k] = [sessions[k] EXCEPT !.id = new]]
      /\ [sessions[k] EXCEPT !.id = new] \in Entry
  BY PresentEntry DEF RenamedTo, Renamed, TypeOK, Entry
<1> QED
  BY <1>1, RegistryAssumption DEF TypeOK, Entry, Table

\* Ids stay with their processes.
LEMMA TableStepKeepsOwned ==
    ASSUME TypeOK, SynthPids = {}, Owned, TableStep
    PROVE  Owned'
<1> SUFFICES ASSUME NEW j \in Keys, sessions'[j] # NoSession
             PROVE  Owns(sessions'[j].id, j)
  BY DEF Owned, Present, Owns
<1>1. CASE Refreshed
  BY <1>1 DEF Refreshed, Owned, Present
<1>2. ASSUME NEW k \in Keys, NEW new \in SessionIds, RenamedTo(k, new)
      PROVE  Owns(sessions'[j].id, j)
  <2>1. k \in Pids /\ (Owns(new, k) \/ new = sessions[k].id) /\ Present(k)
    BY <1>2 DEF RenamedTo, Keys
  <2>2. CASE j = k
    BY <1>2, <2>1, <2>2, RenamedTable DEF Owned
  <2>3. CASE j # k
    BY <1>2, <2>3, RenamedTable DEF Owned, Present
  <2> QED
    BY <2>2, <2>3
<1>3. ASSUME NEW k \in Keys, NEW id \in SessionIds, CreatedAt(k, id)
      PROVE  Owns(sessions'[j].id, j)
  <2>1. CASE j = k
    BY <1>3, <2>1 DEF CreatedAt
  <2>2. CASE j # k
    BY <1>3, <2>2 DEF CreatedAt, Owned, Present
  <2> QED
    BY <2>1, <2>2
<1>4. ASSUME NEW K \in SUBSET Live, Dropped(K)
      PROVE  Owns(sessions'[j].id, j)
  BY <1>4 DEF Dropped, Owned, Present
<1> QED
  BY <1>1, <1>2, <1>3, <1>4 DEF TableStep

\* Every entry stays reachable by its id.
LEMMA TableStepKeepsIndexComplete ==
    ASSUME TypeOK, UniqueOwner, SynthPids = {}, Owned, Owned', IndexComplete, TableStep
    PROVE  IndexComplete'
<1> SUFFICES ASSUME NEW j \in Keys, sessions'[j] # NoSession
             PROVE  index'[sessions'[j].id] = j
  BY DEF IndexComplete, Present
<1>1. CASE Refreshed
  BY <1>1 DEF Refreshed, IndexComplete, Present
<1>2. ASSUME NEW k \in Keys, NEW new \in SessionIds, RenamedTo(k, new)
      PROVE  index'[sessions'[j].id] = j
  <2>1. /\ Present(k) /\ sessions[k].id \in SessionIds /\ index[sessions[k].id] = k
        /\ index \in [SessionIds -> Keys \union {NoPid}]
        /\ sessions'[k] # NoSession /\ sessions'[k].id = new
    BY <1>2, PresentEntry, RenamedTable DEF RenamedTo, IndexComplete, TypeOK
  <2>2. CASE j = k
    BY <1>2, <2>1, <2>2 DEF RenamedTo, Reindexed
  <2>3. CASE j # k
    <3>1. sessions'[j] = sessions[j] /\ Present(j) /\ sessions[j].id \in SessionIds
      BY <1>2, <2>3, RenamedTable, PresentEntry DEF Present
    <3>2. sessions[j].id # sessions[k].id
      BY <2>1, <2>3, <3>1, IdsAreDistinct
    <3>3. sessions[j].id # new
      <4>1. Owns(sessions'[j].id, j) /\ Owns(sessions'[k].id, k)
        BY <2>1 DEF Owned, Present, Owns
      <4> QED
        BY <2>1, <2>3, <3>1, <4>1, OneOwner DEF Keys
    <3>4. index'[sessions[j].id] = index[sessions[j].id]
      BY <1>2, <2>1, <3>1, <3>2, <3>3 DEF RenamedTo, Reindexed
    <3> QED
      BY <3>1, <3>4 DEF IndexComplete
  <2> QED
    BY <2>2, <2>3
<1>3. ASSUME NEW k \in Keys, NEW id \in SessionIds, CreatedAt(k, id)
      PROVE  index'[sessions'[j].id] = j
  <2>1. CASE j = k
    BY <1>3, <2>1 DEF CreatedAt, TypeOK
  <2>2. CASE j # k
    <3>1. Present(j) /\ sessions'[j].id = sessions[j].id /\ sessions'[k] # NoSession
      BY <1>3, <2>2, RegistryAssumption DEF CreatedAt, Present
    <3>2. Owns(sessions'[j].id, j) /\ Owns(sessions'[k].id, k)
      BY <3>1 DEF Owned, Present, Owns
    <3>3. sessions[j].id # id
      BY <1>3, <2>2, <3>1, <3>2, OneOwner DEF CreatedAt, Keys
    <3>4. index'[sessions[j].id] = index[sessions[j].id]
      BY <1>3, <3>1, <3>3, PresentEntry DEF CreatedAt, TypeOK
    <3> QED
      BY <3>1, <3>4 DEF IndexComplete
  <2> QED
    BY <2>1, <2>2
<1>4. ASSUME NEW K \in SUBSET Live, Dropped(K)
      PROVE  index'[sessions'[j].id] = j
  <2>1. j \notin K /\ Present(j) /\ sessions'[j] = sessions[j]
    BY <1>4 DEF Dropped, Present
  <2>2. sessions[j].id \notin IdsOf(K)
    BY <2>1, IdsAreDistinct DEF IdsOf, Live
  <2> QED
    BY <1>4, <2>1, <2>2, PresentEntry DEF Dropped, IndexComplete
<1> QED
  BY <1>1, <1>2, <1>3, <1>4 DEF TableStep

\* The display follows the table.
LEMMA TableStepKeepsSubscriber ==
    ASSUME TypeOK, UniqueOwner, SynthPids = {}, ~Rediscovery,
           Owned, SubscriberAgrees, TableStep
    PROVE  SubscriberAgrees'
<1> SUFFICES ASSUME NEW x
             PROVE  x \in shown' <=> \E j \in Keys : sessions'[j] # NoSession /\ sessions'[j].id = x
  BY DEF SubscriberAgrees, Live, Present
<1>1. x \in shown <=> \E j \in Keys : sessions[j] # NoSession /\ sessions[j].id = x
  BY DEF SubscriberAgrees, Live, Present
<1>2. CASE Refreshed
  BY <1>1, <1>2 DEF Refreshed, IdsOf, Live, Present
<1>3. ASSUME NEW k \in Keys, NEW new \in SessionIds, RenamedTo(k, new)
      PROVE  x \in shown' <=> \E j \in Keys : sessions'[j] # NoSession /\ sessions'[j].id = x
  <2> DEFINE old == sessions[k].id
  <2>1. /\ Present(k)
        /\ shown' = (shown \ ({old} \ {new})) \union {new}
        /\ sessions'[k] # NoSession /\ sessions'[k].id = new
        /\ \A j \in Keys \ {k} : sessions'[j] = sessions[j]
    BY <1>3, RenamedTable DEF RenamedTo
  <2>2. \A j \in Keys \ {k} : sessions[j] # NoSession => sessions[j].id # old
    BY <2>1, IdsAreDistinct DEF Present
  <2> QED
    BY <1>1, <2>1, <2>2
<1>4. ASSUME NEW k \in Keys, NEW id \in SessionIds, CreatedAt(k, id)
      PROVE  x \in shown' <=> \E j \in Keys : sessions'[j] # NoSession /\ sessions'[j].id = x
  <2>1. /\ shown' = shown \union {id}
        /\ sessions[k] = NoSession
        /\ sessions'[k] # NoSession /\ sessions'[k].id = id
        /\ \A j \in Keys \ {k} :
              /\ sessions'[j] = NoSession <=> sessions[j] = NoSession
              /\ sessions[j] # NoSession => sessions'[j].id = sessions[j].id
    BY <1>4, RegistryAssumption DEF CreatedAt, Present
  <2> QED
    BY <1>1, <2>1
<1>5. ASSUME NEW K \in SUBSET Live, Dropped(K)
      PROVE  x \in shown' <=> \E j \in Keys : sessions'[j] # NoSession /\ sessions'[j].id = x
  <2>1. \A j \in Keys : sessions[j] # NoSession =>
           (j \in K <=> sessions[j].id \in IdsOf(K))
    BY IdsAreDistinct DEF IdsOf, Live, Present
  <2>2. \A j \in Keys : sessions'[j] = IF j \in K THEN NoSession ELSE sessions[j]
    BY <1>5 DEF Dropped
  <2>3. x \in shown' <=> x \in shown /\ x \notin IdsOf(K)
    BY <1>5 DEF Dropped
  <2> QED
    BY <1>1, <2>1, <2>2, <2>3
<1> QED
  BY <1>2, <1>3, <1>4, <1>5 DEF TableStep

\* If no id is used by two processes, every session can be found by its id:
\* the index and the table are inverse to each other.
THEOREM IndexIsComplete ==
    ASSUME UniqueOwner, SynthPids = {}
    PROVE  Spec => []IndexComplete
<1>1. Init => Owned /\ IndexComplete
  BY DEF Init, Owned, IndexComplete, Present
<1>2. TypeOK /\ IndexSound /\ Owned /\ IndexComplete /\ [Next]_vars
      => (Owned /\ IndexComplete)'
  BY NextIsTableStep, TableStepKeepsOwned, TableStepKeepsIndexComplete
<1> QED
  BY <1>1, <1>2, RegistrySafe, PTL DEF Spec

\* If, besides, discovery does not report pids that have an entry, a subscriber
\* displays exactly the registry's sessions.
THEOREM SubscriberIsFaithful ==
    ASSUME UniqueOwner, SynthPids = {}, ~Rediscovery
    PROVE  Spec => []SubscriberAgrees
<1>1. Init => Owned /\ SubscriberAgrees
  BY DEF Init, Owned, SubscriberAgrees, Live, Present
<1>2. TypeOK /\ IndexSound /\ Owned /\ SubscriberAgrees /\ [Next]_vars
      => (Owned /\ SubscriberAgrees)'
  BY NextIsTableStep, TableStepKeepsOwned, TableStepKeepsSubscriber
<1> QED
  BY <1>1, <1>2, RegistrySafe, PTL DEF Spec

-----------------------------------------------------------------------------
(* The registry implements the directory *)

\* The directory's view of the session table.
IdOf == [k \in Keys |-> IF Present(k) THEN sessions[k].id ELSE NoId]

\* The directory knows the processes that have an entry, by the entry's id.
LEMMA DirectoryView ==
    ASSUME TypeOK
    PROVE  /\ \A k \in Keys : IdOf[k] # NoId <=> Present(k)
           /\ \A k \in Keys : Present(k) => IdOf[k] = sessions[k].id
           /\ Directory!Known = Live
           /\ \A K \in SUBSET Live : Directory!IdsOf(K) = IdsOf(K)
<1>1. \A k \in Keys : Present(k) => IdOf[k] = sessions[k].id
  BY DEF IdOf
<1>2. \A k \in Keys : IdOf[k] # NoId <=> Present(k)
  BY <1>1, PresentEntry, RegistryAssumption DEF IdOf
<1>3. Directory!Known = Live
  BY <1>2 DEF Directory!Known, Live, IdOf
<1>4. ASSUME NEW K \in SUBSET Live
      PROVE  Directory!IdsOf(K) = IdsOf(K)
  <2>1. \A k \in K : k \in Keys /\ IdOf[k] = sessions[k].id
    BY <1>1 DEF Live
  <2>2. Directory!IdsOf(K) = {IdOf[k] : k \in K}
    BY DEF Directory!IdsOf, IdOf
  <2> QED
    BY <2>1, <2>2 DEF IdsOf
<1> QED
  BY <1>1, <1>2, <1>3, <1>4

\* Every table step is a step of the directory.
LEMMA TableStepIsDirectoryStep ==
    ASSUME TypeOK, TypeOK', TableStep
    PROVE  [Directory!Next]_(Directory!vars)
<1>1. /\ \A k \in Keys : IdOf[k] # NoId <=> Present(k)
      /\ \A k \in Keys : Present(k) => IdOf[k] = sessions[k].id
      /\ Directory!Known = Live
      /\ \A K \in SUBSET Live : Directory!IdsOf(K) = IdsOf(K)
  BY DirectoryView
<1>2. CASE Refreshed
  <2>1. PICK K \in SUBSET Live : shown' = shown \union IdsOf(K)
    BY <1>2 DEF Refreshed
  <2>2. UNCHANGED <<IdOf, index>>
    BY <1>2 DEF Refreshed, IdOf, Present
  <2>3. Directory!Announce(K)
    BY <1>1, <2>1, <2>2 DEF Directory!Announce, IdOf
  <2> QED
    BY <1>1, <2>3 DEF Directory!Next
<1>3. ASSUME NEW k \in Keys, NEW new \in SessionIds, RenamedTo(k, new)
      PROVE  Directory!Next
  <2>1. /\ Present(k)
        /\ sessions[k] \in Entry
        /\ sessions[k].id \in SessionIds
    BY <1>3, PresentEntry DEF RenamedTo
  <2>2. /\ sessions' = [sessions EXCEPT ![k].id = new]
        /\ sessions \in [Keys -> Entry \union {NoSession}]
    BY <1>3 DEF RenamedTo, Renamed, TypeOK
  <2>3. sessions'[k].id = new /\ sessions'[k] \in Entry
    BY <2>1, <2>2 DEF Entry
  <2>4. IdOf' = [IdOf EXCEPT ![k] = new]
    <3>1. ASSUME NEW j \in Keys
          PROVE  IdOf'[j] = IF j = k THEN new ELSE IdOf[j]
      BY <2>2, <2>3, RegistryAssumption DEF IdOf, Present
    <3> QED
      BY <3>1 DEF IdOf
  <2>5. CASE new = sessions[k].id
    <3>1. UNCHANGED <<IdOf, index>>
      BY <1>1, <1>3, <2>1, <2>4, <2>5 DEF RenamedTo, IdOf
    <3>2. shown' = shown \union IdsOf({k})
      BY <1>3, <2>5 DEF RenamedTo, IdsOf
    <3>3. {k} \in SUBSET Live
      BY <2>1 DEF Live
    <3>4. Directory!Announce({k})
      BY <1>1, <3>1, <3>2, <3>3 DEF Directory!Announce, IdOf
    <3> QED
      BY <1>1, <3>3, <3>4 DEF Directory!Next
  <2>6. CASE new # sessions[k].id
    <3>1. index' = [index EXCEPT ![sessions[k].id] = NoPid, ![new] = k]
      BY <1>3, <2>6 DEF RenamedTo, Reindexed
    <3>2. \/ shown' = (shown \ {sessions[k].id}) \union {new}
          \/ Rediscovery /\ shown' = shown \union {new}
      BY <1>3, <2>6 DEF RenamedTo
    <3>3. k \in Live /\ IdOf[k] = sessions[k].id
      BY <1>1, <2>1 DEF Live
    <3>4. Directory!Rename(k, new)
      BY <1>1, <2>4, <2>6, <3>1, <3>2, <3>3 DEF Directory!Rename, IdOf
    <3> QED
      BY <3>4 DEF Directory!Next
  <2> QED
    BY <2>5, <2>6
<1>4. ASSUME NEW k \in Keys, NEW id \in SessionIds, CreatedAt(k, id)
      PROVE  Directory!Next
  <2>1. IdOf[k] = NoId
    BY <1>1, <1>4 DEF CreatedAt
  <2>2. IdOf' = [IdOf EXCEPT ![k] = id]
    <3>1. ASSUME NEW j \in Keys
          PROVE  IdOf'[j] = IF j = k THEN id ELSE IdOf[j]
      BY <1>4, RegistryAssumption DEF CreatedAt, IdOf, Present
    <3> QED
      BY <3>1 DEF IdOf
  <2>3. Directory!Arrive(k, id)
    BY <1>4, <2>1, <2>2 DEF CreatedAt, Directory!Arrive, IdOf
  <2> QED
    BY <2>3 DEF Directory!Next
<1>5. ASSUME NEW K \in SUBSET Live, Dropped(K)
      PROVE  Directory!Next
  <2>1. IdOf' = [k \in Keys |-> IF k \in K THEN NoId ELSE IdOf[k]]
    BY <1>5 DEF Dropped, IdOf, Present
  <2>2. Directory!Depart(K)
    BY <1>1, <1>5, <2>1 DEF Dropped, Directory!Depart, IdOf
  <2> QED
    BY <1>1, <2>2 DEF Directory!Next
<1> QED
  BY <1>2, <1>3, <1>4, <1>5 DEF TableStep

\* Ids come, change and go one at a time, and are announced as they do so.
THEOREM RegistryIsDirectory == Spec => DirectoryKept
<1>1. Init => Directory!Init
  BY DEF Init, Directory!Init, Present
<1>2. TypeOK /\ IndexSound /\ TypeOK' /\ [Next]_vars => [Directory!Next]_(Directory!vars)
  BY NextIsTableStep, TableStepIsDirectoryStep
<1> QED
  BY <1>1, <1>2, RegistrySafe, PTL DEF Spec, DirectoryKept, Directory!Spec

-----------------------------------------------------------------------------
(* Adoption of subagents *)

\* The subagent the entry at k is attached to.
AgentOf(k) == IF sessions[k] = NoSession THEN NoAgent ELSE sessions[k].agent

\* No entry is newly attached.
NoneAdopted == \A k \in Keys : AgentOf(k)' \in {AgentOf(k), NoAgent}

\* The entry at p has been created for the pending subagent s.
AdoptedAt(p, s) ==
    /\ MayAdopt(s, p)
    /\ AgentOf(p)' = s.agent
    /\ \A k \in Keys \ {p} : AgentOf(k)' = AgentOf(k)

\* The pending subagents run, as their vendors know, and there is one record of
\* each; an attached subagent was announced, and is neither attached twice nor
\* still pending.
AgentInv ==
    /\ \A s \in pending :
          spawned[s.agent] = [phase |-> "running", pid |-> s.parentPid, start |-> s.parentStart]
    /\ \A s, t \in pending : s.agent = t.agent => s = t
    /\ \A k \in Keys : AgentOf(k) # NoAgent => spawned[AgentOf(k)].phase # "idle"
    /\ \A k \in Keys : AgentOf(k) # NoAgent =>
          /\ \A j \in Keys \ {k} : AgentOf(j) # AgentOf(k)
          /\ \A s \in pending : s.agent # AgentOf(k)

\* A step adopts at most one of the subagents in subs, for the entry at p.  They
\* run by then, there is one record of each, and none is attached.
Adopting(p, subs) ==
    /\ pending' \in SUBSET subs
    /\ NoneAdopted \/ \E s \in subs : s \notin pending' /\ AdoptedAt(p, s)
    /\ \A s \in subs :
          spawned'[s.agent] = [phase |-> "running", pid |-> s.parentPid, start |-> s.parentStart]
    /\ \A s, t \in subs : s.agent = t.agent => s = t
    /\ \A k \in Keys : AgentOf(k) # NoAgent =>
          /\ spawned'[AgentOf(k)].phase # "idle"
          /\ \A j \in Keys \ {k} : AgentOf(j) # AgentOf(k)
          /\ \A s \in subs : s.agent # AgentOf(k)

\* The process a message is attributed to.
Announcer(id, pid) == IF pid # NoPid THEN pid ELSE index[id]

\* The subagents in subs that have not been pending are announced by a message.
AnnouncedNow(subs) ==
    \A s \in subs \ pending :
        \E id \in SessionIds, p \in Pids, pid \in Pids \union {NoPid} :
            /\ Attributed(id, p, pid)
            /\ s.parentPid = Announcer(id, pid)
            /\ s.parentStart = StartTime(s.parentPid)

-----------------------------------------------------------------------------
(* What a step does to the attached subagents *)

\* A correlated child gets the subagent's id, other entries keep theirs.
LEMMA LinkedAgents ==
    ASSUME NEW table \in Table, NEW s \in PendingEntry,
           NEW id \in SessionIds, NEW p \in Keys, table[p] \in Entry
    PROVE  /\ Linked(table, s, id, p)[p] # NoSession
           /\ Linked(table, s, id, p)[p].agent = s.agent
           /\ \A k \in Keys \ {p} :
                 /\ Linked(table, s, id, p)[k] = NoSession <=> table[k] = NoSession
                 /\ table[k] # NoSession => Linked(table, s, id, p)[k].agent = table[k].agent
<1> DEFINE kidded == WithKid(table, s.parentPid, id)
           linked == Linked(table, s, id, p)
<1>1. /\ kidded \in Table
      /\ \A k \in Keys :
            /\ kidded[k] = NoSession <=> table[k] = NoSession
            /\ table[k] # NoSession => kidded[k].agent = table[k].agent
  <2>1. CASE s.parentPid \notin Keys \/ table[s.parentPid] = NoSession
    BY <2>1 DEF WithKid
  <2>2. CASE s.parentPid \in Keys /\ table[s.parentPid] # NoSession
    <3> DEFINE q == s.parentPid
               e == [table[q] EXCEPT !.kids = @ \union {id}]
    <3>1. table[q] \in Entry
      BY <2>2 DEF Table
    <3>2. e \in Entry /\ e.agent = table[q].agent /\ e # NoSession
      BY <3>1, RegistryAssumption DEF Entry
    <3>3. kidded = [table EXCEPT ![q] = e]
      BY <2>2 DEF WithKid
    <3> QED
      BY <2>2, <3>1, <3>2, <3>3 DEF Table
  <2> QED
    BY <2>1, <2>2
<1>2. kidded[p] \in Entry
  BY <1>1, RegistryAssumption DEF Table
<1> DEFINE e == [kidded[p] EXCEPT !.parent = s.parentId, !.agent = s.agent]
<1>3. e \in Entry /\ e.agent = s.agent /\ e # NoSession
  BY <1>2, RegistryAssumption DEF Entry, PendingEntry
<1>4. linked = [kidded EXCEPT ![p] = e]
  BY <1>1 DEF Linked, Table
<1> HIDE DEF kidded, e, linked
<1>5. linked[p] = e /\ \A k \in Keys \ {p} : linked[k] = kidded[k]
  BY <1>1, <1>4 DEF Table
<1> QED
  BY <1>1, <1>3, <1>5 DEF linked

\* A new entry is attached to one of the subagents in subs, which then no longer
\* waits, or to none.
LEMMA CreateAdopts ==
    ASSUME TypeOK, NEW id \in SessionIds, NEW p \in Pids, ~Present(p),
           NEW subs \in SUBSET PendingEntry, Create(id, p, subs)
    PROVE  /\ pending' \in SUBSET subs
           /\ NoneAdopted \/ \E s \in subs : s \notin pending' /\ AdoptedAt(p, s)
<1> DEFINE table == [sessions EXCEPT ![p] = NewEntry(id, p)]
<1>1. /\ p \in Keys /\ sessions \in Table /\ sessions[p] = NoSession
      /\ NewEntry(id, p) \in Entry /\ NewEntry(id, p).agent = NoAgent
  BY NewEntryType DEF TypeOK, Table, Keys, Present, NewEntry
<1>2. /\ table \in Table
      /\ table[p] \in Entry /\ table[p].agent = NoAgent /\ table[p] # NoSession
      /\ \A j \in Keys \ {p} : table[j] = sessions[j]
  BY <1>1, RegistryAssumption DEF Table
<1>3. \/ pending' \in SUBSET subs /\ sessions' = table
      \/ \E s \in Matches(subs, p) :
            pending' = subs \ Matches(subs, p) /\ sessions' = Linked(table, s, id, p)
  BY DEF Create
<1> HIDE DEF table
<1>4. CASE pending' \in SUBSET subs /\ sessions' = table
  BY <1>1, <1>2, <1>4 DEF NoneAdopted, AgentOf
<1>5. ASSUME NEW s \in Matches(subs, p), pending' = subs \ Matches(subs, p),
             sessions' = Linked(table, s, id, p)
      PROVE  /\ pending' \in SUBSET subs
             /\ \E t \in subs : t \notin pending' /\ AdoptedAt(p, t)
  <2>1. s \in subs /\ s \notin pending' /\ MayAdopt(s, p) /\ s \in PendingEntry
    BY <1>5 DEF Matches
  <2>2. /\ sessions'[p] # NoSession /\ sessions'[p].agent = s.agent
        /\ \A k \in Keys \ {p} :
              /\ sessions'[k] = NoSession <=> table[k] = NoSession
              /\ table[k] # NoSession => sessions'[k].agent = table[k].agent
    BY <1>1, <1>2, <1>5, <2>1, LinkedAgents
  <2>3. AgentOf(p)' = s.agent /\ \A k \in Keys \ {p} : AgentOf(k)' = AgentOf(k)
    BY <1>1, <1>2, <2>2 DEF AgentOf
  <2> QED
    BY <1>5, <2>1, <2>3 DEF AdoptedAt
<1> QED
  BY <1>3, <1>4, <1>5

\* Renaming an entry leaves it attached to what it was.
LEMMA RenamedAdoptsNone ==
    ASSUME TypeOK, NEW k \in Keys, Present(k), NEW new \in SessionIds,
           sessions' = Renamed(k, new)
    PROVE  NoneAdopted
<1>1. /\ sessions[k] \in Entry
      /\ sessions' = [sessions EXCEPT ![k] = [sessions[k] EXCEPT !.id = new]]
      /\ [sessions[k] EXCEPT !.id = new] \in Entry
      /\ [sessions[k] EXCEPT !.id = new].agent = sessions[k].agent
  BY PresentEntry DEF Renamed, TypeOK, Entry
<1>2. sessions'[k] # NoSession /\ sessions'[k].agent = sessions[k].agent
  BY <1>1, RegistryAssumption DEF TypeOK
<1>3. \A j \in Keys \ {k} : sessions'[j] = sessions[j]
  BY <1>1 DEF TypeOK
<1> QED
  BY <1>2, <1>3 DEF NoneAdopted, AgentOf, Present

\* The common half of the lifecycle events adopts at most one of the subagents.
LEMMA ApplyEventAdopts ==
    ASSUME TypeOK, NEW id \in SessionIds, NEW p \in Pids, NEW pid,
           Attributed(id, p, pid), NEW subs \in SUBSET PendingEntry,
           ApplyEvent(id, pid, subs)
    PROVE  /\ pending' \in SUBSET subs
           /\ NoneAdopted \/ \E s \in subs : s \notin pending' /\ AdoptedAt(p, s)
<1> DEFINE target == IF pid # NoPid THEN pid ELSE index[id]
           old == sessions[target].id
           new == IF IsPending(old) /\ ~IsPending(id) THEN id ELSE old
<1>1. pid = NoPid \/ pid = p
  BY DEF Attributed
<1>2. CASE Present(target) /\ sessions' = Renamed(target, new) /\ pending' = subs
  <2>1. target \in Keys /\ new \in SessionIds
    BY <1>2, PresentEntry
  <2> HIDE DEF target, new
  <2> QED
    BY <1>2, <2>1, RenamedAdoptsNone
<1>3. CASE pid # NoPid /\ ~Present(pid) /\ Create(id, pid, subs)
  BY <1>1, <1>3, CreateAdopts
<1>4. CASE UNCHANGED sessions /\ pending' = subs
  BY <1>4 DEF NoneAdopted, AgentOf
<1> QED
  BY <1>2, <1>3, <1>4 DEF ApplyEvent

\* Entries that go, and new ones that are not correlated, adopt nothing.
LEMMA OthersAdoptNone ==
    ASSUME TypeOK, IndexSound
    PROVE  /\ \A id \in SessionIds : ById(id) => NoneAdopted /\ UNCHANGED <<pending, spawned>>
           /\ \A id \in SessionIds, p \in Pids, pid \in Pids \union {NoPid} :
                 StatusLine(id, p) \/ SessionEnd(id, p, pid)
                    => NoneAdopted /\ UNCHANGED <<pending, spawned>>
           /\ Timers => NoneAdopted /\ UNCHANGED spawned
           /\ Environment => NoneAdopted /\ UNCHANGED <<pending, spawned>>
<1>1. ASSUME UNCHANGED sessions
      PROVE  NoneAdopted
  BY <1>1 DEF NoneAdopted, AgentOf
<1>2. ASSUME NEW id \in SessionIds, NEW k \in Keys, ~Present(k),
             sessions' = [sessions EXCEPT ![k] = NewEntry(id, k)]
      PROVE  NoneAdopted
  <2>1. NewEntry(id, k).agent = NoAgent
    BY DEF NewEntry
  <2>2. sessions'[k] = NewEntry(id, k) /\ \A j \in Keys \ {k} : sessions'[j] = sessions[j]
    BY <1>2 DEF TypeOK
  <2> QED
    BY <2>1, <2>2 DEF NoneAdopted, AgentOf
<1>3. ASSUME NEW K, \A k \in Keys : sessions'[k] = IF k \in K THEN NoSession ELSE sessions[k]
      PROVE  NoneAdopted
  BY <1>3 DEF NoneAdopted, AgentOf
<1>4. ASSUME NEW k, sessions' = [sessions EXCEPT ![k] = NoSession]
      PROVE  NoneAdopted
  <2>1. \A j \in Keys : sessions'[j] = IF j \in {k} THEN NoSession ELSE sessions[j]
    BY <1>4 DEF TypeOK
  <2> QED
    BY <1>3, <2>1
<1>5. ASSUME NEW id \in SessionIds, ById(id)
      PROVE  NoneAdopted /\ UNCHANGED <<pending, spawned>>
  <2>1. CASE Register(id)
    BY <1>2, <2>1 DEF Register, envVars, Keys
  <2>2. CASE StatusLineById(id)
    BY <1>1, <2>2 DEF StatusLineById, envVars
  <2>3. CASE Remove(id)
    BY <1>4, <2>3 DEF Remove, envVars
  <2> QED
    BY <1>5, <2>1, <2>2, <2>3 DEF ById
<1>6. ASSUME NEW id \in SessionIds, NEW p \in Pids, StatusLine(id, p)
      PROVE  NoneAdopted /\ UNCHANGED <<pending, spawned>>
  BY <1>2, <1>6, RenamedAdoptsNone DEF StatusLine, envVars, Keys
<1>7. ASSUME NEW id, NEW p, NEW pid, SessionEnd(id, p, pid)
      PROVE  NoneAdopted /\ UNCHANGED <<pending, spawned>>
  BY <1>4, <1>7 DEF SessionEnd, RemoveByPid, envVars
<1>8. ASSUME Timers
      PROVE  NoneAdopted /\ UNCHANGED spawned
  <2>1. CASE CleanupStale
    BY <1>3, <2>1 DEF CleanupStale, envVars
  <2>2. CASE RefreshGitInfo \/ AgePending
    BY <1>1, <2>2 DEF RefreshGitInfo, AgePending, envVars
  <2> QED
    BY <1>8, <2>1, <2>2 DEF Timers
<1>9. ASSUME Environment
      PROVE  NoneAdopted /\ UNCHANGED <<pending, spawned>>
  BY <1>1, <1>9 DEF Environment, StartProcess, ExitProcess
<1> QED
  BY <1>5, <1>6, <1>7, <1>8, <1>9

-----------------------------------------------------------------------------
(* One announcement, one child *)

\* If the subagents in subs run, are announced once each and are attached to
\* nobody, it does not matter which of them a step adopts.
LEMMA AdoptionKeepsInv ==
    ASSUME NEW subs, NEW p \in Keys, Adopting(p, subs)
    PROVE  AgentInv'
<1> USE DEF Adopting
<1>1. \A s \in pending' :
         spawned'[s.agent] = [phase |-> "running", pid |-> s.parentPid, start |-> s.parentStart]
  OBVIOUS
<1>2. \A s, t \in pending' : s.agent = t.agent => s = t
  OBVIOUS
<1>3. ASSUME NEW k \in Keys, AgentOf(k)' # NoAgent
      PROVE  /\ spawned'[AgentOf(k)'].phase # "idle"
             /\ \A j \in Keys \ {k} : AgentOf(j)' # AgentOf(k)'
             /\ \A s \in pending' : s.agent # AgentOf(k)'
  <2>1. CASE NoneAdopted
    <3>1. AgentOf(k)' = AgentOf(k)
      BY <1>3, <2>1 DEF NoneAdopted
    <3>2. \A j \in Keys \ {k} : AgentOf(j)' \in {AgentOf(j), NoAgent}
      BY <2>1 DEF NoneAdopted
    <3> QED
      BY <1>3, <3>1, <3>2
  <2>2. ASSUME NEW s \in subs, s \notin pending', AdoptedAt(p, s)
        PROVE  /\ spawned'[AgentOf(k)'].phase # "idle"
               /\ \A j \in Keys \ {k} : AgentOf(j)' # AgentOf(k)'
               /\ \A t \in pending' : t.agent # AgentOf(k)'
    <3>1. AgentOf(p)' = s.agent /\ \A j \in Keys \ {p} : AgentOf(j)' = AgentOf(j)
      BY <2>2 DEF AdoptedAt
    <3>2. CASE k = p
      <4>1. spawned'[s.agent].phase = "running"
        <5>1. spawned'[s.agent] = [phase |-> "running", pid |-> s.parentPid, start |-> s.parentStart]
          BY <2>2
        <5> QED
          BY <5>1
      <4>2. \A j \in Keys \ {k} : AgentOf(j)' # s.agent
        BY <1>3, <3>1, <3>2
      <4>3. \A t \in pending' : t.agent # s.agent
        BY <2>2
      <4> QED
        BY <3>1, <3>2, <4>1, <4>2, <4>3
    <3>3. CASE k # p
      <4>1. AgentOf(k)' = AgentOf(k) /\ s.agent # AgentOf(k)
        BY <1>3, <3>1, <3>3
      <4> QED
        BY <1>3, <3>1, <4>1
    <3> QED
      BY <3>2, <3>3
  <2> QED
    BY <2>1, <2>2
<1> QED
  BY <1>1, <1>2, <1>3 DEF AgentInv

LEMMA InitAgents == Init => AgentInv
BY DEF Init, AgentInv, AgentOf

\* A step that adopts nothing, and leaves the subagents alone.
LEMMA QuietStepKeepsAgents ==
    ASSUME AgentInv, NoneAdopted, UNCHANGED <<pending, spawned>>
    PROVE  AgentInv'
BY DEF AgentInv, NoneAdopted

LEMMA TimersKeepAgents ==
    ASSUME TypeOK, IndexSound, AgentInv, Timers
    PROVE  AgentInv'
<1>1. NoneAdopted /\ spawned' = spawned
  BY OthersAdoptNone
<1>2. CASE pending' \in SUBSET pending
  BY <1>1, <1>2 DEF AgentInv, NoneAdopted
<1>3. ASSUME NEW s \in pending, s.fresh,
             pending' = (pending \ {s}) \union {[s EXCEPT !.fresh = FALSE]}
      PROVE  AgentInv'
  <2> DEFINE old == [s EXCEPT !.fresh = FALSE]
  <2>1. /\ old.agent = s.agent /\ old.parentPid = s.parentPid
        /\ old.parentStart = s.parentStart
    BY DEF TypeOK, PendingEntry
  <2> HIDE DEF old
  <2>2. pending' = (pending \ {s}) \union {old}
    BY <1>3 DEF old
  <2>3. \A t \in pending' : \E u \in pending :
           /\ t.agent = u.agent /\ t.parentPid = u.parentPid /\ t.parentStart = u.parentStart
           /\ t = IF u = s THEN old ELSE u
    BY <2>1, <2>2
  <2>4. \A t \in pending' :
           spawned'[t.agent] = [phase |-> "running", pid |-> t.parentPid, start |-> t.parentStart]
    <3> SUFFICES ASSUME NEW t \in pending'
                 PROVE  spawned'[t.agent]
                           = [phase |-> "running", pid |-> t.parentPid, start |-> t.parentStart]
      OBVIOUS
    <3>1. PICK u \in pending :
             t.agent = u.agent /\ t.parentPid = u.parentPid /\ t.parentStart = u.parentStart
      BY <2>3
    <3>2. spawned[u.agent] = [phase |-> "running", pid |-> u.parentPid, start |-> u.parentStart]
      BY DEF AgentInv
    <3> QED
      BY <1>1, <3>1, <3>2
  <2>5. \A t, u \in pending' : t.agent = u.agent => t = u
    BY <2>3 DEF AgentInv
  <2>6. \A k \in Keys : \A t \in pending' : AgentOf(k) # NoAgent => t.agent # AgentOf(k)
    BY <2>3 DEF AgentInv
  <2> QED
    BY <1>1, <2>4, <2>5, <2>6 DEF AgentInv, NoneAdopted
<1>4. CASE CleanupStale \/ RefreshGitInfo
  BY <1>2, <1>4 DEF CleanupStale, RefreshGitInfo
<1>5. CASE AgePending
  BY <1>3, <1>5 DEF AgePending
<1> QED
  BY <1>4, <1>5 DEF Timers

\* The announcement of a subagent, and its end.
LEMMA ChildEventsAdopt ==
    ASSUME TypeOK, IndexSound, AgentInv, NEW id \in SessionIds, NEW p \in Pids,
           NEW pid \in {p, NoPid}, NEW a \in Agents,
           ChildSessionStart(id, p, pid, a) \/ ChildSessionEnd(id, p, pid, a)
    PROVE  \E subs : Adopting(p, subs) /\ AnnouncedNow(subs)
<1>1. pid \in Pids \union {NoPid}
  OBVIOUS
<1>2. \A k \in Keys : AgentOf(k) \in Agents \union {NoAgent}
  BY RegistryAssumption DEF AgentOf, TypeOK, Entry
<1>3. CASE ChildSessionStart(id, p, pid, a)
  <2> DEFINE parent == IF pid # NoPid THEN pid ELSE index[id]
             sub == [agent       |-> a,
                     order       |-> Cardinality({b \in Agents : spawned[b].phase # "idle"}),
                     parentId    |-> CurrentId(parent, id),
                     parentPid   |-> parent,
                     parentStart |-> StartTime(parent),
                     fresh       |-> TRUE]
             now == [phase |-> "running", pid |-> parent, start |-> StartTime(parent)]
             subs == pending \union {sub}
  <2>1. /\ Attributed(id, p, pid) /\ spawned[a].phase = "idle"
        /\ ApplyEvent(id, pid, subs)
        /\ spawned' = [spawned EXCEPT ![a] = now]
    BY <1>3 DEF ChildSessionStart
  <2>2. sub \in PendingEntry
    <3>1. parent \in Keys \union {NoPid} /\ StartTime(parent) \in Nat
      BY StartTimeType DEF TypeOK, Keys
    <3>2. CurrentId(parent, id) \in SessionIds
      BY PresentEntry DEF CurrentId
    <3>3. Cardinality({b \in Agents : spawned[b].phase # "idle"}) \in Nat
      BY RegistryAssumption, FS_Subset, FS_CardinalityType
    <3> HIDE DEF parent
    <3> QED
      BY <3>1, <3>2, <3>3 DEF PendingEntry
  <2>3. /\ sub.agent = a /\ sub.parentPid = parent /\ sub.parentStart = StartTime(parent)
        /\ now = [phase |-> "running", pid |-> sub.parentPid, start |-> sub.parentStart]
    OBVIOUS
  <2> HIDE DEF sub, now
  <2>4. subs \in SUBSET PendingEntry
    BY <2>2 DEF TypeOK
  <2>5. pending' \in SUBSET subs
        /\ (NoneAdopted \/ \E s \in subs : s \notin pending' /\ AdoptedAt(p, s))
    BY <2>1, <2>4, ApplyEventAdopts
  <2>6. spawned'[a] = now /\ \A b \in Agents \ {a} : spawned'[b] = spawned[b]
    BY <2>1 DEF TypeOK
  <2>7. \A s \in pending : s.agent \in Agents /\ s.agent # a
    <3> SUFFICES ASSUME NEW s \in pending
                 PROVE  s.agent \in Agents /\ s.agent # a
      OBVIOUS
    <3>1. spawned[s.agent] = [phase |-> "running", pid |-> s.parentPid, start |-> s.parentStart]
      BY DEF AgentInv
    <3>2. spawned[s.agent].phase = "running"
      BY <3>1
    <3> QED
      BY <2>1, <3>2 DEF TypeOK, PendingEntry
  <2>8. \A s \in subs :
           spawned'[s.agent] = [phase |-> "running", pid |-> s.parentPid, start |-> s.parentStart]
    BY <2>3, <2>6, <2>7 DEF AgentInv
  <2>9. \A s, t \in subs : s.agent = t.agent => s = t
    BY <2>3, <2>7 DEF AgentInv
  <2>10. \A k \in Keys : AgentOf(k) # NoAgent =>
            /\ spawned'[AgentOf(k)].phase # "idle"
            /\ \A j \in Keys \ {k} : AgentOf(j) # AgentOf(k)
            /\ \A s \in subs : s.agent # AgentOf(k)
    <3>1. \A k \in Keys : AgentOf(k) # NoAgent => AgentOf(k) # a /\ AgentOf(k) \in Agents
      BY <1>2, <2>1 DEF AgentInv
    <3> QED
      BY <2>3, <2>6, <3>1 DEF AgentInv
  <2>11. AnnouncedNow(subs)
    BY <1>1, <2>1, <2>3 DEF AnnouncedNow, Announcer
  <2> HIDE DEF subs
  <2> QED
    BY <2>5, <2>8, <2>9, <2>10, <2>11 DEF Adopting
<1>4. CASE ChildSessionEnd(id, p, pid, a)
  <2> DEFINE subs == {s \in pending : s.agent # a}
  <2>1. /\ Attributed(id, p, pid)
        /\ ApplyEvent(id, pid, subs)
        /\ spawned' = [spawned EXCEPT ![a].phase = "ended"]
    BY <1>4 DEF ChildSessionEnd
  <2>2. subs \in SUBSET PendingEntry
    BY DEF TypeOK
  <2>3. pending' \in SUBSET subs
        /\ (NoneAdopted \/ \E s \in subs : s \notin pending' /\ AdoptedAt(p, s))
    BY <2>1, <2>2, ApplyEventAdopts
  <2>4. /\ spawned'[a].phase = "ended"
        /\ \A b \in Agents \ {a} : spawned'[b] = spawned[b]
    BY <2>1 DEF TypeOK, Spawn
  <2>5. \A s \in subs :
           spawned'[s.agent] = [phase |-> "running", pid |-> s.parentPid, start |-> s.parentStart]
    BY <2>4 DEF AgentInv, TypeOK, PendingEntry
  <2>6. \A s, t \in subs : s.agent = t.agent => s = t
    BY DEF AgentInv
  <2>7. \A k \in Keys : AgentOf(k) # NoAgent =>
            /\ spawned'[AgentOf(k)].phase # "idle"
            /\ \A j \in Keys \ {k} : AgentOf(j) # AgentOf(k)
            /\ \A s \in subs : s.agent # AgentOf(k)
    BY <1>2, <2>4 DEF AgentInv
  <2>8. AnnouncedNow(subs)
    BY DEF AnnouncedNow
  <2> HIDE DEF subs
  <2> QED
    BY <2>3, <2>5, <2>6, <2>7, <2>8 DEF Adopting
<1> QED
  BY <1>3, <1>4

\* Every step adopts nothing, or one of the subagents that wait or are announced.
LEMMA NextAdopts ==
    ASSUME TypeOK, IndexSound, AgentInv, [Next]_vars
    PROVE  \/ NoneAdopted /\ AgentInv' /\ (pending' \in SUBSET pending \/ AgePending)
           \/ \E p \in Pids : \E subs : Adopting(p, subs) /\ AnnouncedNow(subs) /\ UNCHANGED procs
<1>1. CASE UNCHANGED vars
  BY <1>1 DEF AgentInv, AgentOf, vars, NoneAdopted
<1>2. CASE Environment
  BY <1>2, OthersAdoptNone, QuietStepKeepsAgents
<1>3. CASE Timers
  <2>1. pending' \in SUBSET pending \/ AgePending
    BY <1>3 DEF Timers, CleanupStale, RefreshGitInfo
  <2> QED
    BY <1>3, <2>1, TimersKeepAgents, OthersAdoptNone
<1>4. ASSUME NEW id \in SessionIds, ById(id)
      PROVE  NoneAdopted /\ AgentInv' /\ pending' \in SUBSET pending
  BY <1>4, OthersAdoptNone, QuietStepKeepsAgents
<1>5. ASSUME NEW p \in Pids, UNCHANGED spawned, pending' \in SUBSET pending,
             NoneAdopted \/ \E s \in pending : s \notin pending' /\ AdoptedAt(p, s)
      PROVE  Adopting(p, pending) /\ AnnouncedNow(pending)
  BY <1>5 DEF Adopting, AnnouncedNow, AgentInv
<1>6. ASSUME NEW p \in Pids, RegisterDiscovered(p)
      PROVE  Adopting(p, pending) /\ AnnouncedNow(pending) /\ UNCHANGED procs
  <2>1. UNCHANGED <<procs, spawned>> /\ p \in Keys /\ PendingId(p) \in SessionIds
        /\ pending \in SUBSET PendingEntry
    BY <1>6 DEF RegisterDiscovered, envVars, Keys, SessionIds, PendingIds, TypeOK
  <2>2. CASE Present(p) /\ sessions' = Renamed(p, PendingId(p)) /\ UNCHANGED pending
    <3>1. NoneAdopted
      BY <2>1, <2>2, RenamedAdoptsNone
    <3> QED
      BY <1>5, <2>1, <2>2, <3>1
  <2>3. CASE ~Present(p) /\ Create(PendingId(p), p, pending)
    <3>1. pending' \in SUBSET pending
          /\ (NoneAdopted \/ \E s \in pending : s \notin pending' /\ AdoptedAt(p, s))
      BY <2>1, <2>3, CreateAdopts
    <3> QED
      BY <1>5, <2>1, <3>1
  <2> QED
    BY <1>6, <2>2, <2>3 DEF RegisterDiscovered
<1>7. ASSUME NEW id \in SessionIds, NEW p \in Pids, ByPid(id, p)
      PROVE  \/ NoneAdopted /\ AgentInv' /\ pending' \in SUBSET pending
             \/ \E subs : Adopting(p, subs) /\ AnnouncedNow(subs) /\ UNCHANGED procs
  <2>1. CASE StatusLine(id, p)
    BY <2>1, OthersAdoptNone, QuietStepKeepsAgents
  <2>2. ASSUME NEW pid \in {p, NoPid}, LifecycleEvent(id, p, pid)
        PROVE  Adopting(p, pending) /\ AnnouncedNow(pending) /\ UNCHANGED procs
    <3>1. pending \in SUBSET PendingEntry
      BY DEF TypeOK
    <3>2. UNCHANGED <<procs, spawned>> /\ pending' \in SUBSET pending
          /\ (NoneAdopted \/ \E s \in pending : s \notin pending' /\ AdoptedAt(p, s))
      BY <2>2, <3>1, ApplyEventAdopts DEF LifecycleEvent, envVars
    <3> QED
      BY <1>5, <3>2
  <2>3. ASSUME NEW pid \in {p, NoPid}, SessionEnd(id, p, pid)
        PROVE  NoneAdopted /\ AgentInv' /\ pending' \in SUBSET pending
    BY <2>3, OthersAdoptNone, QuietStepKeepsAgents
  <2>4. ASSUME NEW pid \in {p, NoPid}, NEW a \in Agents,
               ChildSessionStart(id, p, pid, a) \/ ChildSessionEnd(id, p, pid, a)
        PROVE  \E subs : Adopting(p, subs) /\ AnnouncedNow(subs) /\ UNCHANGED procs
    BY <2>4, ChildEventsAdopt DEF ChildSessionStart, ChildSessionEnd
  <2> QED
    BY <1>7, <2>1, <2>2, <2>3, <2>4 DEF ByPid
<1> QED
  BY <1>1, <1>2, <1>3, <1>4, <1>6, <1>7 DEF Next

LEMMA NextKeepsAgents == TypeOK /\ IndexSound /\ AgentInv /\ [Next]_vars => AgentInv'
BY NextAdopts, AdoptionKeepsInv DEF Keys

\* An announced subagent becomes at most one child session and does not wait any
\* longer once it has become one, whatever vendors, discovery and processes do.
THEOREM AgentsAdoptedOnce == Spec => []AgentAdoptedOnce
<1>1. Init => AgentInv
  BY InitAgents
<1>2. TypeOK /\ IndexSound /\ AgentInv /\ [Next]_vars => AgentInv'
  BY NextKeepsAgents
<1>3. AgentInv => AgentAdoptedOnce
  BY DEF AgentInv, AgentOf, AgentAdoptedOnce, Present
<1> QED
  BY <1>1, <1>2, <1>3, RegistrySafe, PTL DEF Spec

-----------------------------------------------------------------------------
(* Children of the process that announced them *)

\* The entry of a process has an id of that process; the test-only keys may
\* have any.
OwnedByPids == \A k \in Pids : Present(k) => Owns(sessions[k].id, k)

\* A pending subagent of a process was announced while that process ran.
Started == \A s \in pending : s.parentPid \in Pids <=> s.parentStart # 0

LEMMA TableStepKeepsOwnedByPids ==
    ASSUME TypeOK, OwnedByPids, TableStep
    PROVE  OwnedByPids'
<1> SUFFICES ASSUME NEW j \in Pids, sessions'[j] # NoSession
             PROVE  Owns(sessions'[j].id, j)
  BY DEF OwnedByPids, Present, Owns
<1>1. j \in Keys
  BY DEF Keys
<1>2. CASE Refreshed
  BY <1>1, <1>2 DEF Refreshed, OwnedByPids, Present
<1>3. ASSUME NEW k \in Keys, NEW new \in SessionIds, RenamedTo(k, new)
      PROVE  Owns(sessions'[j].id, j)
  <2>1. CASE j = k
    <3>1. (Owns(new, k) \/ new = sessions[k].id) /\ Present(k)
      BY <1>3, <2>1 DEF RenamedTo
    <3> QED
      BY <1>3, <2>1, <3>1, RenamedTable DEF OwnedByPids
  <2>2. CASE j # k
    BY <1>1, <1>3, <2>2, RenamedTable DEF OwnedByPids, Present
  <2> QED
    BY <2>1, <2>2
<1>4. ASSUME NEW k \in Keys, NEW id \in SessionIds, CreatedAt(k, id)
      PROVE  Owns(sessions'[j].id, j)
  <2>1. CASE j = k
    BY <1>4, <2>1, RegistryAssumption DEF CreatedAt
  <2>2. CASE j # k
    BY <1>1, <1>4, <2>2 DEF CreatedAt, OwnedByPids, Present
  <2> QED
    BY <2>1, <2>2
<1>5. ASSUME NEW K \in SUBSET Live, Dropped(K)
      PROVE  Owns(sessions'[j].id, j)
  BY <1>1, <1>5 DEF Dropped, OwnedByPids, Present
<1> QED
  BY <1>2, <1>3, <1>4, <1>5 DEF TableStep

\* A message that reaches the actor in time is attributed to a process that
\* runs, or to none of the operating system's.
LEMMA AnnouncerStarted ==
    ASSUME UniqueOwner, ~LateMessages, TypeOK, IndexSound, OwnedByPids,
           NEW id \in SessionIds, NEW p \in Pids, NEW pid, Attributed(id, p, pid)
    PROVE  Announcer(id, pid) \in Pids <=> StartTime(Announcer(id, pid)) # 0
<1>1. procs[p].alive /\ procs[p].start # 0 /\ Owns(id, p)
  BY SaidIsOwned DEF Attributed, Says, CanReport
<1>2. ASSUME Announcer(id, pid) \in Pids
      PROVE  Announcer(id, pid) = p
  <2>1. CASE pid = NoPid
    <3>1. index[id] \in Pids /\ index[id] # NoPid
      BY <1>2, <2>1, RegistryAssumption DEF Announcer, Keys
    <3>2. Present(index[id]) /\ sessions[index[id]].id = id
      BY <3>1 DEF IndexSound
    <3> QED
      BY <1>1, <2>1, <3>1, <3>2, OneOwner DEF OwnedByPids, Announcer
  <2>2. CASE pid # NoPid
    BY <2>2 DEF Attributed, Announcer
  <2> QED
    BY <2>1, <2>2
<1>3. p \in Pids => StartTime(p) # 0
  BY <1>1 DEF StartTime
<1>4. Announcer(id, pid) \notin Pids => StartTime(Announcer(id, pid)) = 0
  BY DEF StartTime
<1> QED
  BY <1>2, <1>3, <1>4

LEMMA AnnouncedStarted ==
    ASSUME UniqueOwner, ~LateMessages, TypeOK, IndexSound, OwnedByPids, Started,
           NEW subs, AnnouncedNow(subs)
    PROVE  \A s \in subs : s.parentPid \in Pids <=> s.parentStart # 0
BY AnnouncerStarted DEF AnnouncedNow, Started

LEMMA NextKeepsStarted ==
    ASSUME UniqueOwner, ~LateMessages, TypeOK, IndexSound, OwnedByPids, Started, AgentInv,
           [Next]_vars
    PROVE  Started'
<1>1. CASE pending' \in SUBSET pending
  BY <1>1 DEF Started
<1>2. CASE AgePending
  <2>1. PICK s \in pending : pending' = (pending \ {s}) \union {[s EXCEPT !.fresh = FALSE]}
    BY <1>2 DEF AgePending
  <2> DEFINE old == [s EXCEPT !.fresh = FALSE]
  <2>2. old.parentPid = s.parentPid /\ old.parentStart = s.parentStart
    BY DEF TypeOK, PendingEntry
  <2> HIDE DEF old
  <2>3. pending' = (pending \ {s}) \union {old}
    BY <2>1 DEF old
  <2> QED
    BY <2>2, <2>3 DEF Started
<1>3. ASSUME NEW p \in Pids, NEW subs, Adopting(p, subs), AnnouncedNow(subs)
      PROVE  Started'
  BY <1>3, AnnouncedStarted DEF Adopting, Started
<1> QED
  BY <1>1, <1>2, <1>3, NextAdopts

\* What AdoptedBySpawner says of a step.
BySpawner(k) ==
    LET a == sessions'[k].agent
    IN  /\ sessions'[k] # NoSession
        /\ a # NoAgent
        /\ ~(Present(k) /\ sessions[k].agent = a)
        => /\ spawned'[a].phase = "running"
           /\ StartTime(spawned'[a].pid) = spawned'[a].start

LEMMA NextAdoptsBySpawner ==
    ASSUME UniqueOwner, ~LateMessages, TypeOK, IndexSound, OwnedByPids, Started, AgentInv,
           [Next]_vars, NEW k \in Keys
    PROVE  BySpawner(k)
<1>1. CASE AgentOf(k)' \in {AgentOf(k), NoAgent}
  BY <1>1 DEF AgentOf, BySpawner, Present
<1>2. ASSUME NEW p \in Pids, NEW subs, Adopting(p, subs), AnnouncedNow(subs),
             NEW s \in subs, AdoptedAt(p, s), k = p
      PROVE  BySpawner(k)
  <2>1. sessions'[k] # NoSession => sessions'[k].agent = s.agent
    BY <1>2 DEF AdoptedAt, AgentOf
  <2>2. spawned'[s.agent] = [phase |-> "running", pid |-> s.parentPid, start |-> s.parentStart]
    BY <1>2 DEF Adopting
  <2>3. StartTime(s.parentPid) = s.parentStart
    <3>1. CASE s.parentStart # 0
      BY <1>2, <3>1 DEF AdoptedAt, MayAdopt
    <3>2. CASE s.parentStart = 0
      BY <1>2, <3>2, AnnouncedStarted DEF StartTime
    <3> QED
      BY <3>1, <3>2
  <2>4. /\ spawned'[s.agent].phase = "running"
        /\ StartTime(spawned'[s.agent].pid) = spawned'[s.agent].start
    BY <2>2, <2>3
  <2> QED
    BY <2>1, <2>4 DEF BySpawner
<1>3. ASSUME NEW p \in Pids, NEW subs, Adopting(p, subs), AnnouncedNow(subs)
      PROVE  BySpawner(k)
  <2>1. CASE NoneAdopted
    BY <1>1, <2>1 DEF NoneAdopted
  <2>2. ASSUME NEW s \in subs, AdoptedAt(p, s)
        PROVE  BySpawner(k)
    BY <1>1, <1>2, <1>3, <2>2 DEF AdoptedAt
  <2> QED
    BY <1>3, <2>1, <2>2 DEF Adopting
<1> QED
  BY <1>1, <1>3, NextAdopts DEF NoneAdopted

\* If ids belong to one process each and no message outlives its process, a
\* session is attached to a subagent only while that subagent runs and while
\* the very process that announced it runs.
THEOREM AdoptionIsBySpawner ==
    ASSUME UniqueOwner, ~LateMessages
    PROVE  Spec => AdoptedBySpawner
<1>1. Init => OwnedByPids /\ Started /\ AgentInv
  BY InitAgents DEF Init, OwnedByPids, Started, Present
<1>2. TypeOK /\ IndexSound /\ OwnedByPids /\ Started /\ AgentInv /\ [Next]_vars
      => (OwnedByPids /\ Started /\ AgentInv)'
  BY NextIsTableStep, TableStepKeepsOwnedByPids, NextKeepsStarted, NextKeepsAgents
<1>3. TypeOK /\ IndexSound /\ OwnedByPids /\ Started /\ AgentInv /\ [Next]_vars
      => \A k \in Keys : BySpawner(k)
  BY NextAdoptsBySpawner
<1>4. (\A k \in Keys : BySpawner(k)) =>
      (\A k \in Keys :
          LET a == sessions'[k].agent
          IN  /\ sessions'[k] # NoSession
              /\ a # NoAgent
              /\ ~(Present(k) /\ sessions[k].agent = a)
              => /\ spawned'[a].phase = "running"
                 /\ StartTime(spawned'[a].pid) = spawned'[a].start)
  BY DEF BySpawner
<1> QED
  BY <1>1, <1>2, <1>3, <1>4, RegistrySafe, PTL DEF Spec, AdoptedBySpawner

=============================================================================
