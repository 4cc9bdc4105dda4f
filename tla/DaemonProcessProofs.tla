------------------------- MODULE DaemonProcessProofs -------------------------
(***************************************************************************)
(* Theorems about the commands of atmd and their two files, for every set  *)
(* of pids and any number of runs, signals and crashes.                    *)
(***************************************************************************)
EXTENDS DaemonProcess, TLAPS

ProcessRecord == [command : Commands, stage : Stages, seen : Pids \union {NoPid},
                  handles : BOOLEAN, cancelled : BOOLEAN]

HistoryOK ==
    history \in [overlapped : BOOLEAN, reused : BOOLEAN, killed : BOOLEAN,
                 stopped : BOOLEAN, ended : BOOLEAN]

In(p, stages) == process[p].stage \in stages

\* A process that has not bound the socket yet, and one that has.
Working == {"asked", "judging", "clearing", "cleared", "signalling",
            "forked", "created", "started", "replacing", "binding"}
Up == {"serving", "closing", "ending"}

\* As long as no command is run while another process moves: one process works
\* and one is up; while one is up, a command that works has only looked at the
\* pid file, in which it has found that one; and the files are those of the
\* process that is up, or about to be.
TurnInv ==
    ~history.overlapped =>
        /\ \A p, q \in Pids : In(p, Working) /\ In(q, Working) => p = q
        /\ \A p, q \in Pids : In(p, Up) /\ In(q, Up) => p = q
        /\ \A p, q \in Pids : In(p, Up) /\ In(q, Working) =>
              \/ In(q, {"asked", "signalling"})
              \/ At(q, "judging") /\ process[q].seen = p
        /\ \A p \in Pids : In(p, Up \union {"started", "replacing", "binding"}) => pidFile.pid = p
        /\ \A p \in Pids : At(p, "created") => p \in pidFile.writers
        /\ \A p \in Pids : In(p, {"serving", "closing"}) => socketFile = p

\* However starts and stops overlap, as long as nobody is killed: a socket file
\* has a listener, and while a server that the pid file names has lost its
\* socket to another process, that one is about to bind or to remove the pid file.
ReachInv ==
    ~history.killed =>
        /\ socketFile # NoSocket => In(socketFile, {"serving", "closing"})
        /\ pidFile.pid \in Serving =>
              socketFile # NoSocket \/ \E q \in Pids : In(q, {"binding", "ending"})

Typed == TypeOK /\ HistoryOK

-----------------------------------------------------------------------------
(* Lemmas about the operators *)

LEMMA ToProperties ==
    ASSUME TypeOK, NEW p \in Pids, NEW stage \in Stages, To(p, stage)
    PROVE  /\ process' \in [Pids -> ProcessRecord]
           /\ process'[p].stage = stage
           /\ process'[p].seen = process[p].seen
           /\ process'[p].cancelled = process[p].cancelled
           /\ \A q \in Pids \ {p} : process'[q] = process[q]
<1> DEFINE new == [process[p] EXCEPT !.stage = stage]
<1>1. /\ process[p] \in ProcessRecord /\ new \in ProcessRecord
      /\ new.stage = stage /\ new.seen = process[p].seen /\ new.cancelled = process[p].cancelled
  BY DEF TypeOK, ProcessRecord
<1>2. process' = [process EXCEPT ![p] = new]
  BY DEF To
<1> HIDE DEF new
<1> QED
  BY <1>1, <1>2 DEF TypeOK, ProcessRecord

LEMMA NoProcessTyped ==
    NoProcess \in ProcessRecord /\ NoProcess.stage = "none" /\ ~NoProcess.cancelled
BY DEF NoProcess, ProcessRecord, Commands, Stages

LEMMA ExitProperties ==
    ASSUME TypeOK, NEW p \in Pids, Exit(p)
    PROVE  /\ process' \in [Pids -> ProcessRecord]
           /\ process'[p].stage = "none" /\ ~process'[p].cancelled
           /\ \A q \in Pids \ {p} : process'[q] = process[q]
           /\ tui' \in {"off", "waiting", "ready", "connected", "failed"}
           /\ attached' \in Pids \union {NoPid}
<1>1. process' = [process EXCEPT ![p] = NoProcess]
  BY DEF Exit
<1>2. /\ tui' \in {"off", "waiting", "ready", "connected", "failed"}
      /\ attached' \in Pids \union {NoPid}
  BY DEF Exit, TypeOK, client
<1> QED
  BY <1>1, <1>2, NoProcessTyped DEF TypeOK, ProcessRecord

LEMMA BeginProperties ==
    ASSUME TypeOK, NEW p \in Pids, NEW command \in Commands, Begin(p, command)
    PROVE  /\ process' \in [Pids -> ProcessRecord]
           /\ process[p].stage = "none"
           /\ process'[p].stage = "asked"
           /\ \A q \in Pids \ {p} : process'[q] = process[q]
<1> DEFINE new == [NoProcess EXCEPT !.command = command, !.stage = "asked"]
<1>1. new \in ProcessRecord /\ new.stage = "asked"
  BY DEF NoProcess, ProcessRecord, Commands, Stages
<1>2. process' = [process EXCEPT ![p] = new] /\ process[p].stage = "none"
  BY NoProcessTyped DEF Begin
<1> HIDE DEF new
<1> QED
  BY <1>1, <1>2 DEF TypeOK, ProcessRecord

\* A signal tells a process to end, or ends it.
LEMMA SignalledProperties ==
    ASSUME TypeOK, NEW p \in Pids, Signalled(p)
    PROVE  /\ process' \in [Pids -> ProcessRecord]
           /\ \A q \in Pids \ {p} : process'[q] = process[q]
           /\ \/ /\ process[p].handles
                 /\ process'[p].stage = process[p].stage
                 /\ process'[p].seen = process[p].seen
                 /\ process'[p].cancelled
              \/ process'[p].stage = "none" /\ ~process[p].handles
           /\ tui' \in {"off", "waiting", "ready", "connected", "failed"}
           /\ attached' \in Pids \union {NoPid}
<1>1. CASE process[p].handles
  <2> DEFINE new == [process[p] EXCEPT !.cancelled = TRUE]
  <2>1. /\ new \in ProcessRecord /\ new.cancelled
        /\ new.stage = process[p].stage /\ new.seen = process[p].seen
    BY DEF TypeOK, ProcessRecord
  <2>2. process' = [process EXCEPT ![p] = new] /\ UNCHANGED client
    BY <1>1 DEF Signalled
  <2> HIDE DEF new
  <2> QED
    BY <1>1, <2>1, <2>2 DEF TypeOK, ProcessRecord, client
<1>2. CASE ~process[p].handles
  BY <1>2, ExitProperties DEF Signalled
<1> QED
  BY <1>1, <1>2

Inv == Typed /\ TurnInv /\ ReachInv

LEMMA InitHolds == Init => Inv
<1> SUFFICES ASSUME Init PROVE Inv
  OBVIOUS
<1>1. \A p \in Pids : process[p] = NoProcess /\ process[p].stage = "none"
  BY NoProcessTyped DEF Init
<1>2. process \in [Pids -> ProcessRecord]
  BY NoProcessTyped DEF Init
<1>3. Typed
  BY <1>2 DEF Init, Typed, TypeOK, HistoryOK, NoFile, NoSocket, ProcessRecord
<1>4. TurnInv
  BY <1>1 DEF TurnInv, In, At, Working, Up
<1>5. ReachInv
  BY <1>1 DEF ReachInv, In, At, Serving, Init, NoFile, NoSocket
<1> QED
  BY <1>3, <1>4, <1>5 DEF Inv

-----------------------------------------------------------------------------
(* The invariant, action by action *)

\* A command looks at the pid file.
LEMMA LookKeepsInv ==
    ASSUME Inv, NEW p \in Pids, ReadPid(p) \/ Judge(p)
    PROVE  Inv'
<1> USE DEF Inv, Typed
<1>1. CASE ReadPid(p)
  <2> DEFINE new == [process[p] EXCEPT !.stage = IF pidFile.pid = NoPid THEN "cleared" ELSE "judging",
                                       !.seen = pidFile.pid]
  <2>1. /\ new \in ProcessRecord
        /\ new.stage = IF pidFile.pid = NoPid THEN "cleared" ELSE "judging"
        /\ new.seen = pidFile.pid
    BY DEF TypeOK, ProcessRecord, Stages
  <2>2. process' = [process EXCEPT ![p] = new]
    BY <1>1 DEF ReadPid
  <2> HIDE DEF new
  <2>3. /\ process' \in [Pids -> ProcessRecord]
        /\ process'[p].stage = IF pidFile.pid = NoPid THEN "cleared" ELSE "judging"
        /\ process'[p].seen = pidFile.pid
        /\ \A q \in Pids \ {p} : process'[q] = process[q]
        /\ process[p].stage = "asked"
        /\ UNCHANGED <<pidFile, socketFile, tui, attached, history>>
    BY <1>1, <2>1, <2>2 DEF TypeOK, ProcessRecord, ReadPid, At, files, client
  <2>4. Typed'
    BY <2>3 DEF TypeOK, HistoryOK, ProcessRecord
  <2>5. TurnInv'
    BY <2>3, ProcessAssumption DEF TurnInv, In, At, Working, Up
  <2>6. ReachInv'
    BY <2>3 DEF ReachInv, In, At, Serving, TypeOK, NoSocket
  <2> QED
    BY <2>4, <2>5, <2>6
<1>2. CASE Judge(p)
  <2>1. /\ process' \in [Pids -> ProcessRecord]
        /\ \A q \in Pids \ {p} : process'[q] = process[q]
        /\ process[p].stage = "judging"
        /\ UNCHANGED <<pidFile, socketFile, history>>
        /\ tui' \in {"off", "waiting", "ready", "connected", "failed"}
        /\ attached' \in Pids \union {NoPid}
    BY <1>2, ToProperties, ExitProperties DEF Judge, At, Stages, TypeOK, files, client
  <2>2. \/ process'[p].stage = "clearing" /\ ~IsRunning(process[p].seen)
        \/ process'[p].stage = "signalling"
        \/ process'[p].stage = "none"
    BY <1>2, ToProperties, ExitProperties DEF Judge, Stages
  <2>3. Typed'
    BY <2>1 DEF TypeOK, HistoryOK, ProcessRecord
  <2>4. TurnInv'
    <3>1. ASSUME NEW q \in Pids, In(q, Up), ~history.overlapped
          PROVE  process'[p].stage \in {"signalling", "none"}
      <4>1. process[p].seen = q
        BY <2>1, <3>1 DEF TurnInv, In, At, Working
      <4>2. IsRunning(q)
        BY <3>1, ProcessAssumption DEF IsRunning, In, Up
      <4> QED
        BY <2>2, <4>1, <4>2
    <3> QED
      BY <2>1, <2>2, <3>1 DEF TurnInv, In, At, Working, Up
  <2>5. ReachInv'
    BY <2>1, <2>2 DEF ReachInv, In, At, Serving, TypeOK, NoSocket
  <2> QED
    BY <2>3, <2>4, <2>5
<1> QED
  BY <1>1, <1>2

\* A command begins: if none has been under way, nobody else works.
LEMMA BeginKeepsInv ==
    ASSUME Inv, NEW p \in Pids, NEW command \in Commands, Begin(p, command),
           UNCHANGED <<files, attached>>,
           tui' \in {"off", "waiting", "ready", "connected", "failed"},
           HistoryOK', history'.killed = history.killed,
           ~history'.overlapped => ~history.overlapped /\ \A q \in Pids : ~Moving(q)
    PROVE  Inv'
<1> USE DEF Inv, Typed
<1>1. /\ process' \in [Pids -> ProcessRecord]
      /\ process[p].stage = "none"
      /\ process'[p].stage = "asked"
      /\ \A q \in Pids \ {p} : process'[q] = process[q]
      /\ UNCHANGED <<pidFile, socketFile>>
  BY BeginProperties DEF files
<1>2. Typed'
  BY <1>1 DEF TypeOK, ProcessRecord
<1>3. TurnInv'
  <2>1. ~history'.overlapped => \A q \in Pids \ {p} : ~In(q, Working)'
    BY <1>1 DEF Moving, In, Working
  <2> QED
    BY <1>1, <2>1 DEF TurnInv, In, At, Working, Up
<1>4. ReachInv'
  BY <1>1 DEF ReachInv, In, At, Serving, TypeOK, NoSocket
<1> QED
  BY <1>2, <1>3, <1>4

LEMMA NotedProperties ==
    ASSUME HistoryOK, NEW p
    PROVE  /\ Noted(p).killed = history.killed
           /\ ~Noted(p).overlapped => ~history.overlapped /\ \A q \in Pids : ~Moving(q)
           /\ Noted(p) \in [overlapped : BOOLEAN, reused : BOOLEAN, killed : BOOLEAN,
                            stopped : BOOLEAN, ended : BOOLEAN]
           /\ [Noted(p) EXCEPT !.ended = FALSE].overlapped = Noted(p).overlapped
           /\ [Noted(p) EXCEPT !.ended = FALSE].killed = history.killed
           /\ [Noted(p) EXCEPT !.ended = FALSE] \in
                 [overlapped : BOOLEAN, reused : BOOLEAN, killed : BOOLEAN,
                  stopped : BOOLEAN, ended : BOOLEAN]
<1> DEFINE over == history.overlapped \/ \E q \in Pids : Moving(q)
           reuse == history.reused \/ pidFile.pid = p
<1>1. over \in BOOLEAN /\ reuse \in BOOLEAN
  BY DEF HistoryOK
<1>2. Noted(p) = [history EXCEPT !.overlapped = over, !.reused = reuse]
  BY DEF Noted, HistoryOK
<1>3. ~over => ~history.overlapped /\ \A q \in Pids : ~Moving(q)
  OBVIOUS
<1> HIDE DEF over, reuse
<1> QED
  BY <1>1, <1>2, <1>3 DEF HistoryOK

LEMMA StartKeepsInv ==
    ASSUME Inv, NEW p \in Pids,
           SpawnDaemon(p) \/ \E command \in Commands \ {"none"} : Run(p, command)
    PROVE  Inv'
<1>1. HistoryOK
  BY DEF Inv, Typed
<1>2. CASE SpawnDaemon(p)
  <2>1. "start" \in Commands
    BY DEF Commands
  <2> QED
    BY <1>1, <1>2, <2>1, NotedProperties, BeginKeepsInv DEF SpawnDaemon, HistoryOK
<1>3. ASSUME NEW command \in Commands \ {"none"}, Run(p, command)
      PROVE  Inv'
  BY <1>1, <1>3, NotedProperties, BeginKeepsInv DEF Run, HistoryOK, client, Inv, Typed, TypeOK
<1> QED
  BY <1>2, <1>3

\* start goes on in another process, which nothing else can have found yet.
LEMMA ForkKeepsInv ==
    ASSUME Inv, NEW p \in Pids, NEW q \in Pids, Fork(p, q)
    PROVE  Inv'
<1> USE DEF Inv, Typed
<1> DEFINE child == [process[p] EXCEPT !.stage = "forked", !.seen = NoPid]
           now == [history EXCEPT !.reused = @ \/ (p # q /\ pidFile.pid = q)]
<1>1. child \in ProcessRecord /\ child.stage = "forked"
  <2>1. process[p] \in ProcessRecord
    BY DEF TypeOK, ProcessRecord
  <2> QED
    BY <2>1 DEF ProcessRecord, Stages
<1>2. process' = [process EXCEPT ![p] = NoProcess, ![q] = child]
      /\ process[p].stage = "cleared" /\ (p = q \/ process[q] = NoProcess)
  BY DEF Fork, At
<1>3. now \in [overlapped : BOOLEAN, reused : BOOLEAN, killed : BOOLEAN,
               stopped : BOOLEAN, ended : BOOLEAN]
      /\ now.overlapped = history.overlapped /\ now.killed = history.killed
  <2>1. (history.reused \/ (p # q /\ pidFile.pid = q)) \in BOOLEAN
    BY DEF HistoryOK
  <2> QED
    BY <2>1 DEF HistoryOK
<1>4. history' = now
  BY DEF Fork
<1> HIDE DEF child, now
<1>5. /\ process' \in [Pids -> ProcessRecord]
      /\ process'[q].stage = "forked"
      /\ p # q => process'[p].stage = "none" /\ process[q].stage = "none"
      /\ \A r \in Pids \ {p, q} : process'[r] = process[r]
      /\ UNCHANGED <<pidFile, socketFile, tui, attached>>
      /\ history'.overlapped = history.overlapped /\ history'.killed = history.killed
      /\ HistoryOK'
  BY <1>1, <1>2, <1>3, <1>4, NoProcessTyped DEF TypeOK, ProcessRecord, Fork, files, client, HistoryOK
<1>6. Typed'
  BY <1>5 DEF TypeOK, ProcessRecord
<1>7. TurnInv'
  BY <1>2, <1>5 DEF TurnInv, In, At, Working, Up
<1>8. ReachInv'
  BY <1>2, <1>5 DEF ReachInv, In, At, Serving, TypeOK, NoSocket
<1> QED
  BY <1>6, <1>7, <1>8

\* The pid file is written, or removed, by the command that works.
LEMMA PidFileKeepsInv ==
    ASSUME Inv, NEW p \in Pids, ClearPidFile(p) \/ CreatePidFile(p) \/ WritePid(p)
    PROVE  Inv'
<1> USE DEF Inv, Typed
<1>1. /\ process' \in [Pids -> ProcessRecord]
      /\ \A q \in Pids \ {p} : process'[q] = process[q]
      /\ UNCHANGED <<socketFile, tui, attached, history>>
  BY ToProperties DEF ClearPidFile, CreatePidFile, WritePid, Stages, client
<1>2. \/ /\ process[p].stage = "clearing" /\ process'[p].stage = "cleared"
         /\ pidFile' = NoFile
      \/ /\ process[p].stage = "forked" /\ process'[p].stage = "created"
         /\ pidFile' = [exists |-> TRUE, pid |-> NoPid, writers |-> pidFile.writers \union {p}]
      \/ /\ process[p].stage = "created" /\ process'[p].stage = "started"
         /\ p \in pidFile.writers
         /\ pidFile' = [pidFile EXCEPT !.pid = p, !.writers = @ \ {p}]
      \/ /\ process[p].stage = "created" /\ process'[p].stage = "started"
         /\ p \notin pidFile.writers
         /\ pidFile' = pidFile
  BY ToProperties DEF ClearPidFile, CreatePidFile, WritePid, Stages, At
<1>3. /\ pidFile' \in [exists : BOOLEAN, pid : Pids \union {NoPid}, writers : SUBSET Pids]
      /\ ~pidFile'.exists => pidFile' = NoFile
      /\ pidFile'.pid \in {NoPid, p, pidFile.pid}
      /\ process[p].stage = "forked" => p \in pidFile'.writers
      /\ process[p].stage = "created" /\ p \in pidFile.writers => pidFile'.pid = p
      /\ process[p].stage = "created" /\ p \notin pidFile.writers => pidFile' = pidFile
  <2>1. /\ NoFile \in [exists : BOOLEAN, pid : Pids \union {NoPid}, writers : SUBSET Pids]
        /\ NoFile.pid = NoPid
    BY DEF NoFile
  <2>2. CASE pidFile' = NoFile /\ process[p].stage = "clearing"
    BY <2>1, <2>2
  <2>3. CASE /\ pidFile' = [exists |-> TRUE, pid |-> NoPid, writers |-> pidFile.writers \union {p}]
             /\ process[p].stage = "forked"
    BY <2>3 DEF TypeOK
  <2>4. CASE /\ pidFile' = [pidFile EXCEPT !.pid = p, !.writers = @ \ {p}]
             /\ p \in pidFile.writers /\ process[p].stage = "created"
    <3>1. pidFile.exists
      BY <2>4 DEF TypeOK, NoFile
    <3> QED
      BY <2>4, <3>1 DEF TypeOK
  <2>5. CASE pidFile' = pidFile /\ p \notin pidFile.writers /\ process[p].stage = "created"
    BY <2>5 DEF TypeOK
  <2> QED
    BY <1>2, <2>2, <2>3, <2>4, <2>5
<1>4. Typed'
  BY <1>1, <1>3 DEF TypeOK, HistoryOK, ProcessRecord
<1>5. TurnInv'
  BY <1>1, <1>2, <1>3 DEF TurnInv, In, At, Working, Up
<1>6. ReachInv'
  BY <1>1, <1>2, <1>3, ProcessAssumption DEF ReachInv, In, At, Serving, TypeOK, NoSocket
<1> QED
  BY <1>4, <1>5, <1>6

\* A command that finds no daemon ends; a server learns of signals.
LEMMA QuietKeepsInv ==
    ASSUME Inv, NEW p \in Pids, NotRunning(p) \/ HandleSignals(p) \/ Shutdown(p)
    PROVE  Inv'
<1> USE DEF Inv, Typed
<1>1. /\ UNCHANGED <<pidFile, socketFile, history>>
      /\ process' \in [Pids -> ProcessRecord]
      /\ \A q \in Pids \ {p} : process'[q] = process[q]
      /\ tui' \in {"off", "waiting", "ready", "connected", "failed"}
      /\ attached' \in Pids \union {NoPid}
      /\ \/ process[p].stage = "cleared" /\ process'[p].stage = "none"
         \/ process[p].stage = "serving" /\ process'[p].stage = "closing"
         \/ process'[p].stage = process[p].stage /\ process'[p].seen = process[p].seen
  <2>1. CASE NotRunning(p)
    BY <2>1, ExitProperties DEF NotRunning, At, files
  <2>2. CASE HandleSignals(p)
    <3> DEFINE new == [process[p] EXCEPT !.handles = TRUE]
    <3>1. process[p] \in ProcessRecord
      BY DEF TypeOK, ProcessRecord
    <3>2. new \in ProcessRecord /\ new.stage = process[p].stage /\ new.seen = process[p].seen
      BY <3>1 DEF ProcessRecord
    <3>3. process' = [process EXCEPT ![p] = new] /\ UNCHANGED <<files, client, history>>
      BY <2>2 DEF HandleSignals
    <3> HIDE DEF new
    <3> QED
      BY <3>2, <3>3 DEF TypeOK, ProcessRecord, files, client
  <2>3. CASE Shutdown(p)
    BY <2>3, ToProperties DEF Shutdown, At, files, client, Stages, TypeOK
  <2> QED
    BY <2>1, <2>2, <2>3
<1>2. Typed'
  BY <1>1 DEF TypeOK, HistoryOK, ProcessRecord
<1>3. TurnInv'
  BY <1>1 DEF TurnInv, In, At, Working, Up
<1>4. ReachInv'
  BY <1>1 DEF ReachInv, In, At, Serving, TypeOK, NoSocket
<1> QED
  BY <1>2, <1>3, <1>4

\* A server replaces the socket file, binds it and, in the end, removes it.
LEMMA SocketKeepsInv ==
    ASSUME Inv, NEW p \in Pids, LookForSocket(p) \/ ReplaceSocket(p) \/ Bind(p)
    PROVE  Inv'
<1> USE DEF Inv, Typed
<1>1. /\ UNCHANGED <<pidFile, tui, attached, history>>
      /\ process' \in [Pids -> ProcessRecord]
      /\ \A q \in Pids \ {p} : process'[q] = process[q]
  BY ToProperties DEF LookForSocket, ReplaceSocket, Bind, Stages, files, client
<1>2. \/ /\ process[p].stage = "started" /\ socketFile' = socketFile
         /\ process'[p].stage = IF socketFile = NoSocket THEN "binding" ELSE "replacing"
      \/ /\ process[p].stage = "replacing" /\ socketFile' = NoSocket
         /\ process'[p].stage = IF socketFile = NoSocket THEN "ending" ELSE "binding"
      \/ /\ process[p].stage = "binding" /\ socketFile = NoSocket
         /\ process'[p].stage = "serving" /\ socketFile' = p
      \/ /\ process[p].stage = "binding" /\ socketFile # NoSocket
         /\ process'[p].stage = "ending" /\ socketFile' = socketFile
  BY ToProperties DEF LookForSocket, ReplaceSocket, Bind, At, Stages, files
<1>3. socketFile' \in Pids \union {NoSocket}
  BY <1>2 DEF TypeOK
<1>4. Typed'
  BY <1>1, <1>3 DEF TypeOK, HistoryOK, ProcessRecord
<1>5. TurnInv'
  BY <1>1, <1>2 DEF TurnInv, In, At, Working, Up
<1>6. ReachInv'
  BY <1>1, <1>2, ProcessAssumption DEF ReachInv, In, At, Serving, TypeOK, NoSocket
<1> QED
  BY <1>4, <1>5, <1>6

LEMMA RemoveFilesKeepsInv ==
    ASSUME Inv, NEW p \in Pids, RemoveFiles(p)
    PROVE  Inv'
<1> USE DEF Inv, Typed
<1>1. CASE At(p, "closing") /\ socketFile' = NoSocket /\ To(p, "ending") /\ UNCHANGED <<pidFile, client, history>>
  <2>1. /\ process' \in [Pids -> ProcessRecord]
        /\ process[p].stage = "closing" /\ process'[p].stage = "ending"
        /\ \A q \in Pids \ {p} : process'[q] = process[q]
        /\ UNCHANGED <<pidFile, tui, attached, history>>
    BY <1>1, ToProperties DEF At, Stages, client
  <2>2. Typed'
    BY <1>1, <2>1 DEF TypeOK, HistoryOK, ProcessRecord
  <2>3. TurnInv'
    BY <1>1, <2>1 DEF TurnInv, In, At, Working, Up
  <2>4. ReachInv'
    BY <1>1, <2>1 DEF ReachInv, In, At, Serving
  <2> QED
    BY <2>2, <2>3, <2>4
<1>2. CASE At(p, "ending") /\ pidFile' = NoFile /\ Exit(p) /\ UNCHANGED <<socketFile, history>>
  <2>1. /\ process' \in [Pids -> ProcessRecord]
        /\ process[p].stage = "ending" /\ process'[p].stage = "none"
        /\ \A q \in Pids \ {p} : process'[q] = process[q]
        /\ tui' \in {"off", "waiting", "ready", "connected", "failed"}
        /\ attached' \in Pids \union {NoPid}
        /\ pidFile'.pid = NoPid
        /\ pidFile' \in [exists : BOOLEAN, pid : Pids \union {NoPid}, writers : SUBSET Pids]
    BY <1>2, ExitProperties DEF At, NoFile
  <2>2. Typed'
    BY <1>2, <2>1 DEF TypeOK, HistoryOK, ProcessRecord
  <2>3. TurnInv'
    BY <1>2, <2>1 DEF TurnInv, In, At, Working, Up
  <2>4. ReachInv'
    BY <1>2, <2>1, ProcessAssumption DEF ReachInv, In, At, Serving, TypeOK, NoSocket
  <2> QED
    BY <2>2, <2>3, <2>4
<1> QED
  BY <1>1, <1>2 DEF RemoveFiles

\* Signals and crashes only end processes, and only the commands that send them
\* end without being killed.
LEMMA FewerProcessesKeepInv ==
    ASSUME Inv, process' \in [Pids -> ProcessRecord],
           \A q \in Pids :
              \/ process'[q].stage = "none"
              \/ process'[q].stage = process[q].stage /\ process'[q].seen = process[q].seen,
           UNCHANGED files,
           tui' \in {"off", "waiting", "ready", "connected", "failed"},
           attached' \in Pids \union {NoPid},
           HistoryOK', history'.overlapped = history.overlapped,
           ~history'.killed =>
              /\ ~history.killed
              /\ \A q \in Pids :
                    process'[q].stage = process[q].stage \/ process[q].stage = "signalling"
    PROVE  Inv'
<1> USE DEF Inv, Typed, files
<1>1. Typed'
  BY DEF TypeOK, ProcessRecord
<1>2. TurnInv'
  BY DEF TurnInv, In, At, Working, Up
<1>3. ReachInv'
  BY DEF ReachInv, In, At, Serving, TypeOK, NoSocket
<1> QED
  BY <1>1, <1>2, <1>3

LEMMA EndedProperties ==
    ASSUME HistoryOK, NEW p
    PROVE  /\ Ended(p) \in [overlapped : BOOLEAN, reused : BOOLEAN, killed : BOOLEAN,
                            stopped : BOOLEAN, ended : BOOLEAN]
           /\ Ended(p).overlapped = history.overlapped
           /\ ~Ended(p).killed => ~history.killed /\ process[p].handles
           /\ [Ended(p) EXCEPT !.killed = TRUE] \in
                 [overlapped : BOOLEAN, reused : BOOLEAN, killed : BOOLEAN,
                  stopped : BOOLEAN, ended : BOOLEAN]
           /\ [Ended(p) EXCEPT !.killed = TRUE].overlapped = history.overlapped
           /\ [Ended(p) EXCEPT !.killed = TRUE].killed
<1> DEFINE kill == history.killed \/ ~process[p].handles
<1>1. kill \in BOOLEAN /\ (~kill => ~history.killed /\ process[p].handles)
  OBVIOUS
<1>2. Ended(p) = [history EXCEPT !.stopped = TRUE, !.ended = TRUE, !.killed = kill]
  BY DEF Ended, HistoryOK
<1> HIDE DEF kill
<1> QED
  BY <1>1, <1>2 DEF HistoryOK

LEMMA SignalsKeepInv ==
    ASSUME Inv, NEW p \in Pids, SendSignal(p) \/ Interrupt(p) \/ Crash(p)
    PROVE  Inv'
<1> USE DEF Inv, Typed
<1>1. CASE SendSignal(p)
  <2> DEFINE target == process[p].seen
  <2>1. \A q \in Pids : process[q] \in ProcessRecord
    BY DEF TypeOK, ProcessRecord
  <2>2. \A q \in Pids : /\ [process[q] EXCEPT !.cancelled = TRUE] \in ProcessRecord
                        /\ [process[q] EXCEPT !.cancelled = TRUE].stage = process[q].stage
                        /\ [process[q] EXCEPT !.cancelled = TRUE].seen = process[q].seen
    BY <2>1 DEF ProcessRecord
  <2>3. /\ process[p].stage = "signalling"
        /\ process' = [q \in Pids |->
              IF q = p THEN NoProcess
              ELSE IF q # target THEN process[q]
              ELSE IF process[q].handles THEN [process[q] EXCEPT !.cancelled = TRUE]
              ELSE NoProcess]
        /\ history' = Ended(target)
        /\ UNCHANGED files
        /\ tui' \in {tui, "ready"} /\ attached' \in {attached, NoPid}
    BY <1>1 DEF SendSignal, At, client
  <2> HIDE DEF target
  <2>4. /\ process' \in [Pids -> ProcessRecord]
        /\ \A q \in Pids :
              \/ process'[q].stage = "none"
              \/ process'[q].stage = process[q].stage /\ process'[q].seen = process[q].seen
    BY <2>1, <2>2, <2>3, NoProcessTyped
  <2>5. process[target].handles =>
           \A q \in Pids : process'[q].stage = process[q].stage \/ process[q].stage = "signalling"
    BY <2>2, <2>3
  <2>6. /\ HistoryOK' /\ history'.overlapped = history.overlapped
        /\ ~history'.killed => ~history.killed /\ process[target].handles
    BY <2>3, EndedProperties DEF HistoryOK
  <2>7. /\ tui' \in {"off", "waiting", "ready", "connected", "failed"}
        /\ attached' \in Pids \union {NoPid}
    BY <2>3 DEF TypeOK
  <2> QED
    BY <2>3, <2>4, <2>5, <2>6, <2>7, FewerProcessesKeepInv
<1>2. CASE Interrupt(p)
  <2>1. Signalled(p) /\ history' = Ended(p) /\ UNCHANGED files
    BY <1>2 DEF Interrupt
  <2>2. /\ HistoryOK' /\ history'.overlapped = history.overlapped
        /\ ~history'.killed => ~history.killed /\ process[p].handles
    BY <2>1, EndedProperties DEF HistoryOK
  <2> QED
    BY <2>1, <2>2, SignalledProperties, FewerProcessesKeepInv
<1>3. CASE Crash(p)
  <2>1. Exit(p) /\ history' = [Ended(p) EXCEPT !.killed = TRUE] /\ UNCHANGED files
    BY <1>3 DEF Crash
  <2>2. HistoryOK' /\ history'.overlapped = history.overlapped /\ history'.killed
    BY <2>1, EndedProperties DEF HistoryOK
  <2> QED
    BY <2>1, <2>2, ExitProperties, FewerProcessesKeepInv
<1> QED
  BY <1>1, <1>2, <1>3

\* The TUI changes neither processes nor files.
LEMMA TuiKeepsInv ==
    ASSUME Inv, Tui \/ Quit
    PROVE  Inv'
<1> USE DEF Inv, Typed
<1>1. /\ UNCHANGED <<process, files>>
      /\ tui' \in {"off", "waiting", "ready", "connected", "failed"}
      /\ attached' \in Pids \union {NoPid}
  BY ProcessAssumption DEF Tui, FindDaemon, GiveUp, ConnectTui, Quit, TypeOK, NoSocket
<1>2. /\ HistoryOK' /\ history'.killed = history.killed
      /\ ~history'.overlapped => ~history.overlapped
  <2>1. CASE history' = history
    BY <2>1 DEF HistoryOK
  <2>2. CASE history' = [history EXCEPT !.ended = FALSE,
                                        !.overlapped = @ \/ \E q \in Pids : Moving(q)]
    <3> DEFINE over == history.overlapped \/ \E q \in Pids : Moving(q)
    <3>1. over \in BOOLEAN /\ (~over => ~history.overlapped)
      OBVIOUS
    <3>2. history' = [history EXCEPT !.ended = FALSE, !.overlapped = over]
      BY <2>2 DEF HistoryOK
    <3> HIDE DEF over
    <3> QED
      BY <3>1, <3>2 DEF HistoryOK
  <2> QED
    BY <2>1, <2>2 DEF Tui, FindDaemon, GiveUp, ConnectTui, Quit
<1>3. Typed'
  BY <1>1, <1>2 DEF TypeOK, files
<1>4. TurnInv'
  BY <1>1, <1>2 DEF TurnInv, In, At, files
<1>5. ReachInv'
  BY <1>1, <1>2 DEF ReachInv, In, At, Serving, files
<1> QED
  BY <1>3, <1>4, <1>5

LEMMA NextKeepsInv == Inv /\ [Next]_vars => Inv'
<1> SUFFICES ASSUME Inv, [Next]_vars
             PROVE  Inv'
  OBVIOUS
<1>1. CASE UNCHANGED vars
  BY <1>1 DEF vars, files, client, Inv, Typed, TypeOK, HistoryOK, TurnInv, ReachInv, In, At, Serving
<1>2. ASSUME NEW p \in Pids, Works(p)
      PROVE  Inv'
  BY <1>2, LookKeepsInv, ForkKeepsInv, PidFileKeepsInv, QuietKeepsInv, SocketKeepsInv,
     RemoveFilesKeepsInv, SignalsKeepInv DEF Works
<1>3. ASSUME NEW p \in Pids,
             \/ SpawnDaemon(p) \/ \E command \in Commands \ {"none"} : Run(p, command)
             \/ HandleSignals(p) \/ Interrupt(p) \/ Crash(p)
      PROVE  Inv'
  BY <1>3, StartKeepsInv, QuietKeepsInv, SignalsKeepInv
<1>4. CASE Tui \/ Quit
  BY <1>4, TuiKeepsInv
<1> QED
  BY <1>1, <1>2, <1>3, <1>4 DEF Next

-----------------------------------------------------------------------------
(* The theorems *)

THEOREM DaemonInv == Spec => []Inv
BY InitHolds, NextKeepsInv, PTL DEF Spec

\* The processes, the two files and the TUI keep their types, and a pid file
\* that was removed while it was being written stays removed.
THEOREM DaemonTyped == Spec => []TypeOK
<1>1. Inv => TypeOK
  BY DEF Inv, Typed
<1> QED
  BY <1>1, DaemonInv, PTL

\* Commands that are run one after another keep one daemon, named by the pid
\* file and reachable by the socket file, whatever crashes have left behind.
THEOREM OneDaemon == Spec => []OneDaemonInTurn
<1>1. Inv => OneDaemonInTurn
  BY DEF Inv, TurnInv, OneDaemonInTurn, Serving, At, In, Up
<1> QED
  BY <1>1, DaemonInv, PTL

\* However starts and stops overlap, unless a process was killed: when nothing is
\* under way, a running process that the pid file names can be reached.
THEOREM NamedDaemonReachable == Spec => []NamedIsReachable
<1>1. ASSUME Inv, ~history.killed, \A p \in Pids : ~Moving(p), IsRunning(pidFile.pid)
      PROVE  socketFile \in Serving
  <2>1. pidFile.pid \in Serving
    BY <1>1 DEF Inv, Typed, TypeOK, IsRunning, Moving, Serving, At
  <2>2. \A q \in Pids : ~In(q, {"binding", "ending", "closing"})
    BY <1>1 DEF Moving, In
  <2> QED
    BY <1>1, <2>1, <2>2 DEF Inv, Typed, TypeOK, ReachInv, NoSocket, In, Serving, At
<1>2. Inv => NamedIsReachable
  BY <1>1 DEF NamedIsReachable
<1> QED
  BY <1>2, DaemonInv, PTL

=============================================================================
