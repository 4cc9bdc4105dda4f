---------------------------- MODULE AgentProofs ----------------------------
(***************************************************************************)
(* Proofs about the commands of Environment that find agents and answer    *)
(* them: that a scan for agents, while processes come and go, misses none  *)
(* that is there throughout; and that reply and peek, sent one key at a    *)
(* time, serve the prompt that is up.  With EnvironmentProofs they type    *)
(* all of Environment.                                                     *)
(***************************************************************************)
EXTENDS EnvironmentProofs, SequenceTheorems, FiniteSetTheorems, WellFoundedInduction, TLAPS

-----------------------------------------------------------------------------
(* Discovery: the walk up *)

\* A process, or none.
PidOrNone == Discovery!Pids \union {NoPid}

\* The walk in a table at process r, after n steps; W says how it goes on.
Onward(W, table, n, r) ==
    IF n = MaxDepth \/ r = NoPid THEN NoPane
    ELSE IF \E e \in table : e.shell = r THEN (CHOOSE e \in table : e.shell = r).pane
    ELSE W[n + 1][Discovery!ParentPid(r)]

Walked(W, table) == [n \in 0..MaxDepth |-> [r \in PidOrNone |-> Onward(W, table, n, r)]]

WalkIn(table) == CHOOSE W : W = Walked(W, table)

LEMMA FindPaneWalks ==
    ASSUME NEW p, NEW table
    PROVE  Discovery!FindPane(p, table) = WalkIn(table)[0][p]
BY DEF WalkIn, Walked, Onward, PidOrNone, Discovery!FindPane

\* Induction, for a set of numbers.
LEMMA NatInductive ==
    ASSUME NEW S, 0 \in S, \A k \in Nat : k \in S => k + 1 \in S
    PROVE  Nat \subseteq S
<1> DEFINE Bad == Nat \ S
<1> SUFFICES ASSUME Bad # {} PROVE FALSE
    OBVIOUS
<1>1. PICK m \in Bad : \A k \in Bad : ~(<<k, m>> \in OpToRel(<, Nat))
    BY NatLessThanWellFounded, WFMin
<1>2. m \in Nat /\ m \notin S /\ m # 0
    BY <1>1
<1>3. m - 1 \in Nat /\ m - 1 < m /\ (m - 1) + 1 = m
    BY <1>2
<1>4. m - 1 \in S
    BY <1>1, <1>2, <1>3, Zenon DEF OpToRel
<1> QED
    BY <1>2, <1>3, <1>4

LEMMA ParentTyped ==
    ASSUME Discovery!TypeOK, NEW r \in PidOrNone
    PROVE  Discovery!ParentPid(r) \in PidOrNone
BY EnvironmentAssumption
   DEF Discovery!TypeOK, Discovery!ParentPid, Discovery!Alive, Discovery!Process, PidOrNone

\* W is right about the last k steps of the walk.
Right(W, table, k) ==
    \A n \in 0..MaxDepth : n + k >= MaxDepth =>
       \A r \in PidOrNone : W[n][r] = Onward(W, table, n, r)

LEMMA WalkedOn ==
    ASSUME Discovery!TypeOK, NEW table, NEW V, NEW k \in Nat, Right(V, table, k)
    PROVE  Right(Walked(V, table), table, k + 1)
<1> DEFINE W == Walked(V, table)
<1>1. \A n \in 0..MaxDepth, r \in PidOrNone : W[n][r] = Onward(V, table, n, r)
    BY DEF Walked
<1>2. ASSUME NEW n \in 0..MaxDepth, n + (k + 1) >= MaxDepth, NEW r \in PidOrNone
      PROVE  W[n][r] = Onward(W, table, n, r)
    <2>1. CASE n = MaxDepth \/ r = NoPid
        BY <1>1, <2>1 DEF Onward
    <2>2. CASE n # MaxDepth /\ r # NoPid
        <3> DEFINE u == Discovery!ParentPid(r)
        <3>1. n + 1 \in 0..MaxDepth /\ u \in PidOrNone /\ (n + 1) + k >= MaxDepth
            BY <1>2, <2>2, ParentTyped, EnvironmentAssumption
        <3> HIDE DEF u
        <3>2. V[n + 1][u] = Onward(V, table, n + 1, u)
            BY <3>1 DEF Right
        <3>3. W[n + 1][u] = V[n + 1][u]
            BY <1>1, <3>1, <3>2
        <3> QED
            BY <1>1, <3>3 DEF Onward, u
    <2> QED
        BY <2>1, <2>2
<1> HIDE DEF W
<1> QED
    BY <1>2 DEF Right, W

\* The recursion of the walk has a solution, so that the walk is one.
LEMMA WalkGoesOn ==
    ASSUME Discovery!TypeOK, NEW table
    PROVE  Right(WalkIn(table), table, MaxDepth)
<1> DEFINE Solved(k) == \E W : Right(W, table, k)
<1>1. Solved(0)
    <2> DEFINE W == [n \in 0..MaxDepth |-> [r \in PidOrNone |-> NoPane]]
    <2>1. Right(W, table, 0)
        BY EnvironmentAssumption DEF Right, Onward
    <2> QED
        BY <2>1
<1>2. ASSUME NEW k \in Nat, Solved(k) PROVE Solved(k + 1)
    BY <1>2, WalkedOn
<1> HIDE DEF Solved
<1>3. \A k \in Nat : Solved(k)
    <2> DEFINE S == {k \in Nat : Solved(k)}
    <2>1. 0 \in S /\ \A k \in Nat : k \in S => k + 1 \in S
        BY <1>1, <1>2
    <2> QED
        BY <2>1, NatInductive
<1>4. PICK V : Right(V, table, MaxDepth)
    BY <1>3, EnvironmentAssumption DEF Solved
<1> DEFINE W == Walked(V, table)
<1>5. Right(W, table, MaxDepth + 1)
    BY <1>4, WalkedOn, EnvironmentAssumption
<1>6. \A n \in 0..MaxDepth : \A r \in PidOrNone : W[n][r] = Onward(W, table, n, r)
    BY <1>5, EnvironmentAssumption DEF Right
<1>7. W = [n \in 0..MaxDepth |-> [r \in PidOrNone |-> W[n][r]]]
    BY DEF Walked
<1> HIDE DEF W
<1>8. W = Walked(W, table)
    BY <1>6, <1>7 DEF Walked
<1>9. WalkIn(table) = Walked(WalkIn(table), table)
    BY <1>8 DEF WalkIn
<1>10. \A U : \A n \in 0..MaxDepth : \A r \in PidOrNone :
          Walked(U, table)[n][r] = Onward(U, table, n, r)
    BY DEF Walked
<1> QED
    BY <1>9, <1>10 DEF Right
-----------------------------------------------------------------------------
(* Discovery: invariants *)

Scan == [at : {"off", "scan", "locate", "register", "done"}, left : SUBSET Discovery!Pids,
         pid : PidOrNone, table : SUBSET [pane : Discovery!Panes, shell : Discovery!Pids],
         found : SUBSET [pid : Discovery!Pids, pane : Discovery!Panes \union {NoPane}],
         steady : SUBSET Discovery!Pids, settled : SUBSET Discovery!Pids,
         placed : SUBSET Discovery!Pids, refused : SUBSET Discovery!Pids,
         masked : SUBSET Discovery!Pids, blind : SUBSET Discovery!Pids]

DiscoveryTyped ==
    /\ Discovery!TypeOK
    /\ shells \in Seq(PidOrNone) /\ DOMAIN shells \subseteq Discovery!Panes
    /\ started \in 0..MaxStarts
    /\ known = [p \in DOMAIN known |-> known[p]]
    /\ scan \in Scan

\* The pane that is expected of a process.
PaneOf(p) == IF procs[p].depth < MaxDepth THEN procs[p].home ELSE NoPane

\* A process is where its parent is, one step farther down; a process of a pane
\* that has none is the shell of the pane.
Homes ==
    /\ \A p \in Discovery!Alive :
          /\ procs[p].parent # NoPid =>
                /\ procs[p].parent \in Discovery!Alive
                /\ procs[procs[p].parent].home = procs[p].home
                /\ procs[p].home # NoPane => procs[p].depth = procs[procs[p].parent].depth + 1
          /\ procs[p].home # NoPane =>
                procs[p].home \in DOMAIN shells /\ shells[procs[p].home] # NoPid
          /\ procs[p].parent = NoPid /\ procs[p].home # NoPane =>
                shells[procs[p].home] = p /\ procs[p].depth = 0
    /\ \A q \in DOMAIN shells : shells[q] # NoPid =>
          /\ shells[q] \in Discovery!Alive
          /\ procs[shells[q]].home = q /\ procs[shells[q]].parent = NoPid

Located == scan.settled \ scan.blind

\* The table in which a process is located that has run since the scan began, as
\* have those that it descends from: of these it has the shells only, its own
\* pane's among them.
TableTrue ==
    scan.at = "locate" /\ scan.pid \in Located =>
       /\ \A e \in scan.table : scan.pid \in Discovery!Below(e.shell) =>
             e.pane \in DOMAIN shells /\ shells[e.pane] = e.shell
       /\ procs[scan.pid].home # NoPane =>
             [pane |-> procs[scan.pid].home, shell |-> shells[procs[scan.pid].home]] \in scan.table

\* A steady agent is still to be looked at, has been found, or has been registered.
Accounted(p) ==
    \/ p \in scan.left \/ Discovery!HasOwnSession(p) \/ p \in scan.refused \union scan.masked
    \/ \E f \in scan.found : f.pid = p

ScanInv ==
    /\ scan.steady \subseteq Discovery!Alive /\ scan.settled \subseteq scan.steady
    /\ scan.at = "locate" => scan.pid \in scan.left
    /\ scan.at \in {"register", "done"} => scan.left = {}
    /\ scan.at = "done" => scan.found = {}
    /\ scan.at = "off" => scan.steady = {}
    /\ \A p \in scan.steady : Discovery!Recognised(procs[p].look) => Accounted(p)
    /\ \A f \in scan.found : f.pid \in Located => f.pane = PaneOf(f.pid)
    /\ \A p \in scan.placed \intersect Located :
          Discovery!HasOwnSession(p) /\ known[p].pane = PaneOf(p)
    /\ TableTrue

DiscoveryInv == DiscoveryTyped /\ Homes /\ ScanInv

-----------------------------------------------------------------------------
(* Discovery: processes *)

\* Below p are p and the processes whose parents are below p.
LEMMA BelowIs ==
    ASSUME Discovery!TypeOK, NEW p \in Discovery!Pids
    PROVE  /\ p \in Discovery!Below(p) /\ Discovery!Family(Discovery!Below(p))
           /\ Discovery!Below(p) \subseteq Discovery!Pids
           /\ \A q \in Discovery!Below(p) \ {p} :
                 q \in Discovery!Alive /\ procs[q].parent \in Discovery!Below(p)
<1> DEFINE B == Discovery!Below(p)
<1>1. p \in B /\ B \subseteq Discovery!Pids
    BY DEF Discovery!Below
<1>2. Discovery!Alive \subseteq Discovery!Pids
    BY DEF Discovery!Alive
<1>3. Discovery!Family(B)
    BY <1>2 DEF Discovery!Below, Discovery!Family
<1>4. ASSUME NEW q \in B \ {p}, ~(q \in Discovery!Alive /\ procs[q].parent \in B)
      PROVE  FALSE
    <2>1. B \ {q} \in SUBSET Discovery!Pids /\ p \in B \ {q}
        BY <1>1, <1>4
    <2>2. Discovery!Family(B \ {q})
        BY <1>3, <1>4 DEF Discovery!Family
    <2> QED
        BY <1>4, <2>1, <2>2 DEF Discovery!Below
<1> QED
    BY <1>1, <1>3, <1>4

\* What is below a process is below its parent.
LEMMA BelowParent ==
    ASSUME Discovery!TypeOK, NEW r \in Discovery!Alive, procs[r].parent \in Discovery!Pids
    PROVE  Discovery!Below(r) \subseteq Discovery!Below(procs[r].parent)
<1> DEFINE B == Discovery!Below(procs[r].parent)
<1>1. procs[r].parent \in B /\ Discovery!Family(B) /\ B \in SUBSET Discovery!Pids
    BY BelowIs
<1>2. r \in B
    BY <1>1 DEF Discovery!Family
<1> QED
    BY <1>1, <1>2 DEF Discovery!Below

\* All below a process are in its pane.
LEMMA BelowAtHome ==
    ASSUME DiscoveryTyped, Homes, NEW r \in Discovery!Pids, NEW p \in Discovery!Below(r)
    PROVE  procs[p].home = procs[r].home
<1> DEFINE S == {q \in Discovery!Pids : procs[q].home = procs[r].home}
<1>1. S \in SUBSET Discovery!Pids /\ r \in S
    OBVIOUS
<1>2. Discovery!Family(S)
    BY EnvironmentAssumption DEF Discovery!Family, Homes, Discovery!Alive
<1> QED
    BY <1>1, <1>2 DEF Discovery!Below

\* Up from a process that the located one descends from, the walk comes to the
\* shell of their pane, if that is near enough.
LEMMA WalkFinds ==
    ASSUME DiscoveryInv, scan.at = "locate", scan.pid \in Located
    PROVE  Discovery!FindPane(scan.pid, scan.table) = PaneOf(scan.pid)
<1> DEFINE W == WalkIn(scan.table)
           Target(n, r) == IF n + procs[r].depth < MaxDepth THEN procs[r].home ELSE NoPane
           True(k) == \A n \in 0..MaxDepth : n + k = MaxDepth =>
                         \A r \in Discovery!Alive : scan.pid \in Discovery!Below(r) =>
                            W[n][r] = Target(n, r)
<1>1. Right(W, scan.table, MaxDepth)
    BY WalkGoesOn DEF DiscoveryInv, DiscoveryTyped
<1>2. \A n \in 0..MaxDepth, r \in PidOrNone : W[n][r] = Onward(W, scan.table, n, r)
    BY <1>1, EnvironmentAssumption DEF Right
<1>3. /\ scan.pid \in Discovery!Alive /\ scan.pid \in Discovery!Pids
      /\ Discovery!Alive \subseteq Discovery!Pids
    BY DEF DiscoveryInv, ScanInv, Located, Discovery!Alive
<1>4. \A r \in Discovery!Alive : procs[r].depth \in Nat /\ procs[r].parent \in PidOrNone
    BY DEF DiscoveryInv, DiscoveryTyped, Discovery!TypeOK, Discovery!Alive, Discovery!Process, PidOrNone
<1> HIDE DEF W
<1>5. True(0)
    BY <1>2, <1>3, <1>4, EnvironmentAssumption DEF Onward, PidOrNone
<1>6. ASSUME NEW k \in Nat, True(k) PROVE True(k + 1)
    <2> SUFFICES ASSUME NEW n \in 0..MaxDepth, n + (k + 1) = MaxDepth,
                        NEW r \in Discovery!Alive, scan.pid \in Discovery!Below(r)
                 PROVE  W[n][r] = Target(n, r)
        OBVIOUS
    <2>1. n + 1 \in 0..MaxDepth /\ (n + 1) + k = MaxDepth /\ n # MaxDepth
        BY EnvironmentAssumption
    <2>2. r \in PidOrNone /\ r # NoPid /\ r \in Discovery!Pids
        BY <1>3, EnvironmentAssumption DEF PidOrNone
    <2>3. Discovery!ParentPid(r) = procs[r].parent
        BY DEF Discovery!ParentPid
    <2>4. procs[scan.pid].home = procs[r].home
        BY <2>2, BelowAtHome DEF DiscoveryInv
    <2>5. \A e \in scan.table : e.shell = r => e.pane \in DOMAIN shells /\ shells[e.pane] = r
        BY DEF DiscoveryInv, ScanInv, TableTrue
    <2>6. \A e \in scan.table : e.shell = r =>
             e.pane = procs[r].home /\ procs[r].parent = NoPid /\ procs[r].home # NoPane
        BY <2>2, <2>5, EnvironmentAssumption DEF DiscoveryInv, Homes, DiscoveryTyped
    <2>7. CASE \E e \in scan.table : e.shell = r
        <3>1. W[n][r] = procs[r].home
            BY <1>2, <2>1, <2>2, <2>6, <2>7 DEF Onward
        <3>2. procs[r].depth = 0
            BY <2>6, <2>7 DEF DiscoveryInv, Homes
        <3> QED
            BY <2>1, <3>1, <3>2, EnvironmentAssumption
    <2>8. CASE ~\E e \in scan.table : e.shell = r
        <3>1. W[n][r] = W[n + 1][procs[r].parent]
            BY <1>2, <2>1, <2>2, <2>3, <2>8 DEF Onward
        <3>2. CASE procs[r].parent = NoPid
            <4>1. W[n][r] = NoPane
                BY <1>2, <2>1, <3>1, <3>2 DEF Onward, PidOrNone
            <4>2. procs[r].home = NoPane
                <5> SUFFICES ASSUME procs[r].home # NoPane PROVE FALSE
                    OBVIOUS
                <5>1. shells[procs[r].home] = r
                    BY <3>2 DEF DiscoveryInv, Homes
                <5>2. [pane |-> procs[r].home, shell |-> r] \in scan.table
                    BY <2>4, <5>1 DEF DiscoveryInv, ScanInv, TableTrue
                <5> QED
                    BY <2>8, <5>2
            <4> QED
                BY <4>1, <4>2
        <3>3. CASE procs[r].parent # NoPid
            <4> DEFINE u == procs[r].parent
            <4>1. /\ u \in Discovery!Alive /\ procs[u].home = procs[r].home
                  /\ procs[r].home # NoPane => procs[r].depth = procs[u].depth + 1
                BY <3>3 DEF DiscoveryInv, Homes
            <4>2. scan.pid \in Discovery!Below(u)
                BY <1>3, <4>1, BelowParent DEF DiscoveryInv, DiscoveryTyped
            <4>3. W[n + 1][u] = Target(n + 1, u)
                BY <1>6, <2>1, <4>1, <4>2
            <4>4. procs[u].depth \in Nat /\ n \in Nat
                BY <1>4, <4>1
            <4> QED
                BY <3>1, <4>1, <4>3, <4>4, EnvironmentAssumption
        <3> QED
            BY <3>2, <3>3
    <2> QED
        BY <2>7, <2>8
<1> HIDE DEF True
<1>7. \A k \in Nat : True(k)
    <2> DEFINE S == {k \in Nat : True(k)}
    <2>1. 0 \in S /\ \A k \in Nat : k \in S => k + 1 \in S
        BY <1>5, <1>6
    <2> QED
        BY <2>1, NatInductive
<1>8. W[0][scan.pid] = Target(0, scan.pid)
    <2>1. scan.pid \in Discovery!Below(scan.pid)
        BY <1>3, BelowIs DEF DiscoveryInv, DiscoveryTyped
    <2>2. MaxDepth \in Nat /\ 0 \in 0..MaxDepth /\ 0 + MaxDepth = MaxDepth
        BY EnvironmentAssumption
    <2> QED
        BY <1>3, <1>7, <2>1, <2>2 DEF True
<1> QED
    BY <1>3, <1>4, <1>8, FindPaneWalks DEF PaneOf, W
\* The walk ends in a pane or in none.
LEMMA WalkTyped ==
    ASSUME DiscoveryTyped, NEW p \in Discovery!Pids
    PROVE  Discovery!FindPane(p, scan.table) \in Discovery!Panes \union {NoPane}
<1> DEFINE W == WalkIn(scan.table)
           Typed(k) == \A n \in 0..MaxDepth : n + k = MaxDepth =>
                          \A r \in PidOrNone : W[n][r] \in Discovery!Panes \union {NoPane}
<1>1. Right(W, scan.table, MaxDepth)
    BY WalkGoesOn DEF DiscoveryTyped
<1>2. \A n \in 0..MaxDepth, r \in PidOrNone : W[n][r] = Onward(W, scan.table, n, r)
    BY <1>1, EnvironmentAssumption DEF Right
<1> HIDE DEF W
<1>3. \A e \in scan.table : e.pane \in Discovery!Panes
    BY DEF DiscoveryTyped, Scan
<1>4. Typed(0)
    BY <1>2, EnvironmentAssumption DEF Onward
<1>5. ASSUME NEW k \in Nat, Typed(k) PROVE Typed(k + 1)
    <2> SUFFICES ASSUME NEW n \in 0..MaxDepth, n + (k + 1) = MaxDepth, NEW r \in PidOrNone
                 PROVE  W[n][r] \in Discovery!Panes \union {NoPane}
        OBVIOUS
    <2>1. n + 1 \in 0..MaxDepth /\ (n + 1) + k = MaxDepth
        BY EnvironmentAssumption
    <2>2. W[n + 1][Discovery!ParentPid(r)] \in Discovery!Panes \union {NoPane}
        BY <1>5, <2>1, ParentTyped DEF DiscoveryTyped
    <2> QED
        BY <1>2, <1>3, <2>2 DEF Onward
<1> HIDE DEF Typed
<1>6. \A k \in Nat : Typed(k)
    <2> DEFINE S == {k \in Nat : Typed(k)}
    <2>1. 0 \in S /\ \A k \in Nat : k \in S => k + 1 \in S
        BY <1>4, <1>5
    <2> QED
        BY <2>1, NatInductive
<1> QED
    BY <1>6, FindPaneWalks, EnvironmentAssumption DEF Typed, W, PidOrNone

\* All processes of a pane are below its shell.
LEMMA BelowShell ==
    ASSUME DiscoveryTyped, Homes, NEW p \in Discovery!Alive, procs[p].home # NoPane
    PROVE  p \in Discovery!Below(shells[procs[p].home])
<1> DEFINE Deep(k) == \A r \in Discovery!Alive :
               procs[r].depth = k /\ procs[r].home = procs[p].home =>
                  r \in Discovery!Below(shells[procs[p].home])
<1>1. /\ Discovery!Alive \subseteq Discovery!Pids
      /\ \A r \in Discovery!Alive : procs[r].depth \in Nat /\ procs[r].parent \in PidOrNone
    BY DEF DiscoveryTyped, Discovery!TypeOK, Discovery!Alive, Discovery!Process, PidOrNone
<1>2. shells[procs[p].home] \in Discovery!Pids
    BY <1>1 DEF Homes
<1>3. Discovery!Family(Discovery!Below(shells[procs[p].home]))
      /\ shells[procs[p].home] \in Discovery!Below(shells[procs[p].home])
    BY <1>2, BelowIs DEF DiscoveryTyped
<1>4. \A r \in Discovery!Alive : procs[r].parent = NoPid /\ procs[r].home = procs[p].home =>
         r \in Discovery!Below(shells[procs[p].home])
    BY <1>3 DEF Homes
<1>5. ASSUME NEW r \in Discovery!Alive, procs[r].home = procs[p].home, procs[r].parent # NoPid
      PROVE  /\ procs[r].parent \in Discovery!Alive
             /\ procs[procs[r].parent].home = procs[p].home
             /\ procs[r].depth = procs[procs[r].parent].depth + 1
    BY <1>5 DEF Homes
<1>6. Deep(0)
    <2> SUFFICES ASSUME NEW r \in Discovery!Alive, procs[r].depth = 0,
                        procs[r].home = procs[p].home
                 PROVE  procs[r].parent = NoPid
        BY <1>4
    <2> QED
        BY <1>1, <1>5
<1>7. ASSUME NEW k \in Nat, Deep(k) PROVE Deep(k + 1)
    <2> SUFFICES ASSUME NEW r \in Discovery!Alive, procs[r].depth = k + 1,
                        procs[r].home = procs[p].home, procs[r].parent # NoPid
                 PROVE  r \in Discovery!Below(shells[procs[p].home])
        BY <1>4
    <2>1. procs[r].parent \in Discovery!Below(shells[procs[p].home])
        BY <1>1, <1>5, <1>7
    <2> QED
        BY <1>3, <2>1 DEF Discovery!Family
<1> HIDE DEF Deep
<1>8. \A k \in Nat : Deep(k)
    <2> DEFINE S == {k \in Nat : Deep(k)}
    <2>1. 0 \in S /\ \A k \in Nat : k \in S => k + 1 \in S
        BY <1>6, <1>7
    <2> QED
        BY <2>1, NatInductive
<1> QED
    BY <1>1, <1>8 DEF Deep

-----------------------------------------------------------------------------
(* Discovery: steps *)

\* Discovery counts with its own copy of the library's operator.
LEMMA SameCount == \A S : Discovery!Cardinality(S) = Cardinality(S)
BY Zenon DEF Discovery!Cardinality, Cardinality

\* The processes go on and the scan may lose steady or settled ones.
LEMMA ScanGoesOn ==
    ASSUME DiscoveryInv, known' = known,
           scan' = [scan EXCEPT !.steady = scan'.steady, !.settled = scan'.settled],
           scan'.steady \subseteq scan.steady, scan'.steady \subseteq Discovery!Alive',
           scan'.settled \subseteq scan.settled, scan'.settled \subseteq scan'.steady,
           \A p \in scan'.steady : procs'[p].start = procs[p].start /\ procs'[p].look = procs[p].look,
           \A p \in scan'.settled : procs'[p] = procs[p],
           TableTrue'
    PROVE  ScanInv'
<1>1. /\ scan'.at = scan.at /\ scan'.left = scan.left /\ scan'.pid = scan.pid
      /\ scan'.found = scan.found /\ scan'.placed = scan.placed
      /\ scan'.refused = scan.refused /\ scan'.masked = scan.masked /\ scan'.blind = scan.blind
    BY DEF DiscoveryInv, DiscoveryTyped, Scan
<1>2. Located' \subseteq Located /\ \A p \in scan'.settled : PaneOf(p)' = PaneOf(p)
    BY <1>1 DEF Located, PaneOf
<1>3. \A p \in scan'.steady : Discovery!HasOwnSession(p) => Discovery!HasOwnSession(p)'
    BY DEF Discovery!HasOwnSession
<1>4. \A p \in scan'.steady : Accounted(p) => Accounted(p)'
    BY <1>1, <1>3 DEF Accounted
<1>5. Located' \subseteq scan'.settled /\ Located' \subseteq scan'.steady
    BY DEF Located
<1>6. \A p \in scan'.steady : Discovery!Recognised(procs'[p].look) => Accounted(p)'
    BY <1>4 DEF DiscoveryInv, ScanInv
<1>7. \A p \in scan'.placed \intersect Located' :
         Discovery!HasOwnSession(p)' /\ known'[p].pane = PaneOf(p)'
    BY <1>1, <1>2, <1>3, <1>5 DEF DiscoveryInv, ScanInv
<1>8. \A f \in scan'.found : f.pid \in Located' => f.pane = PaneOf(f.pid)'
    BY <1>1, <1>2, <1>5 DEF DiscoveryInv, ScanInv
<1> QED
    BY <1>1, <1>6, <1>7, <1>8 DEF DiscoveryInv, ScanInv

\* A new process starts at pid y.
LEMMA StartIsNew ==
    ASSUME DiscoveryInv, NEW y \in Discovery!Pids, NEW parent \in PidOrNone,
           NEW look \in Discovery!AllLooks, NEW home \in Discovery!Panes \union {NoPane},
           NEW depth \in Nat, Discovery!Start(y, parent, look, home, depth)
    PROVE  /\ procs' \in [Discovery!Pids -> Discovery!Process \union {NoProcess}]
           /\ started' \in 0..MaxStarts
           /\ y \notin Discovery!Alive /\ Discovery!Alive' = Discovery!Alive \union {y}
           /\ procs'[y].parent = parent /\ procs'[y].home = home /\ procs'[y].depth = depth
           /\ \A p \in Discovery!Pids \ {y} : procs'[p] = procs[p]
<1> DEFINE new == [start |-> started + 1, parent |-> parent, look |-> look,
                   home |-> home, depth |-> depth]
<1>1. /\ procs \in [Discovery!Pids -> Discovery!Process \union {NoProcess}]
      /\ started \in 0..MaxStarts
    BY DEF DiscoveryInv, DiscoveryTyped, Discovery!TypeOK
<1>2. /\ y \notin Discovery!Alive /\ started < MaxStarts /\ started' = started + 1
      /\ procs' = [procs EXCEPT ![y] = new]
    BY DEF Discovery!Start
<1>3. new \in Discovery!Process
    BY <1>1, <1>2, EnvironmentAssumption DEF Discovery!Process, PidOrNone
<1>4. new # NoProcess
    BY <1>3, EnvironmentAssumption
<1>5. procs'[y] = new /\ \A p \in Discovery!Pids \ {y} : procs'[p] = procs[p]
    BY <1>1, <1>2
<1>6. Discovery!Alive' = Discovery!Alive \union {y}
    BY <1>4, <1>5 DEF Discovery!Alive
<1>7. /\ new.parent = parent /\ new.home = home /\ new.depth = depth
    OBVIOUS
<1>8. started' \in 0..MaxStarts
    BY <1>1, <1>2, EnvironmentAssumption
<1> HIDE DEF new
<1>9. procs' \in [Discovery!Pids -> Discovery!Process \union {NoProcess}]
    BY <1>1, <1>2, <1>3
<1> QED
    BY <1>2, <1>5, <1>6, <1>7, <1>8, <1>9

\* It descends from others but none from it.
LEMMA StartBelow ==
    ASSUME DiscoveryInv, NEW y \in Discovery!Pids, y \notin Discovery!Alive,
           Discovery!Alive' = Discovery!Alive \union {y},
           \A p \in Discovery!Pids \ {y} : procs'[p] = procs[p],
           NEW r \in Discovery!Pids, NEW p \in Discovery!Alive, (p \in Discovery!Below(r))'
    PROVE  p \in Discovery!Below(r)
<1> DEFINE S == Discovery!Below(r) \union {y}
<1>1. /\ r \in S /\ S \in SUBSET Discovery!Pids /\ Discovery!Family(Discovery!Below(r))
    BY BelowIs DEF DiscoveryInv, DiscoveryTyped
<1>2. ASSUME NEW q \in Discovery!Alive', procs'[q].parent \in S
      PROVE  q \in S
    <2>1. CASE q = y
        BY <2>1
    <2>2. CASE q # y
        <3>1. q \in Discovery!Alive /\ q \in Discovery!Pids /\ procs'[q] = procs[q]
            BY <2>2 DEF Discovery!Alive
        <3>2. procs[q].parent # y
            BY <3>1, EnvironmentAssumption DEF DiscoveryInv, Homes
        <3> QED
            BY <1>1, <1>2, <3>1, <3>2 DEF Discovery!Family
    <2> QED
        BY <2>1, <2>2
<1>3. \A T \in SUBSET Discovery!Pids :
         r \in T /\ (\A q \in Discovery!Alive' : procs'[q].parent \in T => q \in T) => p \in T
    BY DEF Discovery!Below, Discovery!Family
<1>4. p \in S
    BY <1>1, <1>2, <1>3
<1> QED
    BY <1>4

LEMMA StartStep ==
    ASSUME DiscoveryInv, Discovery!OpenPane \/ Discovery!Fork
    PROVE  DiscoveryInv'
<1>0. /\ shells \in Seq(PidOrNone) /\ DOMAIN shells \subseteq Discovery!Panes
      /\ Len(shells) <= LastPane /\ DOMAIN shells = 1..Len(shells)
    BY DEF DiscoveryInv, DiscoveryTyped, Discovery!TypeOK
<1>1. /\ known' = known /\ scan' = scan
      /\ \E y \in Discovery!Pids, parent \in PidOrNone, look \in Discovery!AllLooks,
            home \in Discovery!Panes \union {NoPane}, depth \in Nat :
            /\ Discovery!Start(y, parent, look, home, depth)
            /\ \/ /\ parent \in Discovery!Alive /\ home = procs[parent].home
                  /\ depth = procs[parent].depth + 1 /\ shells' = shells
               \/ parent = NoPid /\ home = NoPane /\ shells' = shells
               \/ /\ parent = NoPid /\ home = Len(shells) + 1 /\ depth = 0
                  /\ shells' = Append(shells, y) /\ home \in Discovery!Panes
    <2>1. CASE Discovery!OpenPane
        <3>1. Discovery!Plain \in Discovery!AllLooks
            BY DEF Discovery!Plain, Discovery!AllLooks, Discovery!Harnesses
        <3>2. Len(shells) + 1 \in Discovery!Panes /\ NoPid \in PidOrNone /\ 0 \in Nat
            BY <1>0, <2>1, EnvironmentAssumption DEF Discovery!OpenPane, Discovery!Panes, PidOrNone
        <3>3. PICK y \in Discovery!Pids :
                 /\ Discovery!Start(y, NoPid, Discovery!Plain, Len(shells) + 1, 0)
                 /\ shells' = Append(shells, y)
            BY <2>1 DEF Discovery!OpenPane
        <3> QED
            BY <2>1, <3>1, <3>2, <3>3 DEF Discovery!OpenPane
    <2>2. CASE Discovery!Fork
        <3>1. /\ UNCHANGED <<shells, known, scan>>
              /\ \E y \in Discovery!Pids, parent \in Discovery!Alive \union {NoPid}, look \in Looks :
                    IF parent = NoPid THEN Discovery!Start(y, NoPid, look, NoPane, 0)
                    ELSE Discovery!Start(y, parent, look, procs[parent].home,
                                         procs[parent].depth + 1)
            BY <2>2 DEF Discovery!Fork
        <3>2. PICK y \in Discovery!Pids, parent \in Discovery!Alive \union {NoPid}, look \in Looks :
                 IF parent = NoPid THEN Discovery!Start(y, NoPid, look, NoPane, 0)
                 ELSE Discovery!Start(y, parent, look, procs[parent].home,
                                      procs[parent].depth + 1)
            BY <3>1
        <3>3. look \in Discovery!AllLooks /\ parent \in PidOrNone
            BY EnvironmentAssumption DEF PidOrNone, Discovery!Alive
        <3>4. CASE parent = NoPid
            BY <3>1, <3>2, <3>3, <3>4
        <3>5. CASE parent # NoPid
            <4>1. /\ parent \in Discovery!Alive /\ procs[parent].home \in Discovery!Panes \union {NoPane}
                  /\ procs[parent].depth + 1 \in Nat
                BY <3>5 DEF Discovery!Alive, DiscoveryInv, DiscoveryTyped, Discovery!TypeOK,
                            Discovery!Process
            <4> QED
                BY <3>1, <3>2, <3>3, <3>5, <4>1
        <3> QED
            BY <3>4, <3>5
    <2> QED
        BY <2>1, <2>2
<1>2. PICK y \in Discovery!Pids, parent \in PidOrNone, look \in Discovery!AllLooks,
           home \in Discovery!Panes \union {NoPane}, depth \in Nat :
        /\ Discovery!Start(y, parent, look, home, depth)
        /\ \/ /\ parent \in Discovery!Alive /\ home = procs[parent].home
              /\ depth = procs[parent].depth + 1 /\ shells' = shells
           \/ parent = NoPid /\ home = NoPane /\ shells' = shells
           \/ /\ parent = NoPid /\ home = Len(shells) + 1 /\ depth = 0
              /\ shells' = Append(shells, y) /\ home \in Discovery!Panes
    BY <1>1
<1>3. /\ procs' \in [Discovery!Pids -> Discovery!Process \union {NoProcess}]
      /\ started' \in 0..MaxStarts
      /\ y \notin Discovery!Alive /\ Discovery!Alive' = Discovery!Alive \union {y}
      /\ procs'[y].parent = parent /\ procs'[y].home = home /\ procs'[y].depth = depth
      /\ \A p \in Discovery!Pids \ {y} : procs'[p] = procs[p]
    BY <1>2, StartIsNew
<1>4. /\ Discovery!Alive \subseteq Discovery!Pids
      /\ \A p \in Discovery!Alive : p # y /\ procs'[p] = procs[p]
    BY <1>3 DEF Discovery!Alive
<1>5. /\ shells' \in Seq(PidOrNone) /\ Len(shells') <= LastPane
      /\ DOMAIN shells \subseteq DOMAIN shells' /\ DOMAIN shells' \subseteq Discovery!Panes
      /\ \A q \in DOMAIN shells : shells'[q] = shells[q]
      /\ \A q \in DOMAIN shells' \ DOMAIN shells : shells'[q] = y /\ home = q /\ parent = NoPid
    <2>1. CASE shells' = shells
        BY <1>0, <2>1
    <2>2. CASE shells' = Append(shells, y) /\ home = Len(shells) + 1 /\ parent = NoPid
               /\ home \in Discovery!Panes
        <3>1. y \in PidOrNone
            BY DEF PidOrNone
        <3>2. /\ shells' \in Seq(PidOrNone) /\ Len(shells') = Len(shells) + 1
              /\ \A q \in 1..Len(shells) : shells'[q] = shells[q]
              /\ shells'[Len(shells) + 1] = y
            BY <1>0, <2>2, <3>1
        <3>3. DOMAIN shells' = 1..(Len(shells) + 1)
            BY <3>2
        <3>4. Len(shells) + 1 <= LastPane
            BY <2>2, EnvironmentAssumption DEF Discovery!Panes
        <3> QED
            BY <1>0, <2>2, <3>2, <3>3, <3>4 DEF Discovery!Panes
    <2> QED
        BY <1>2, <2>1, <2>2
<1>6. DiscoveryTyped'
    <2>1. scan.steady \subseteq Discovery!Alive' /\ scan.settled \subseteq scan.steady
        BY <1>3 DEF DiscoveryInv, ScanInv
    <2>2. \A q \in DOMAIN shells' : shells'[q] \in Discovery!Pids \union {NoPid}
        BY <1>5 DEF PidOrNone
    <2>3. Discovery!TypeOK'
        BY <1>1, <1>3, <1>5, <2>1, <2>2 DEF DiscoveryInv, DiscoveryTyped, Discovery!TypeOK
    <2> QED
        BY <1>1, <1>3, <1>5, <2>3 DEF DiscoveryInv, DiscoveryTyped
<1>7. Homes'
    <2>1. ASSUME NEW p \in Discovery!Alive
          PROVE  /\ procs'[p].parent # NoPid =>
                       /\ procs'[p].parent \in Discovery!Alive'
                       /\ procs'[procs'[p].parent].home = procs'[p].home
                       /\ procs'[p].home # NoPane =>
                             procs'[p].depth = procs'[procs'[p].parent].depth + 1
                 /\ procs'[p].home # NoPane =>
                       procs'[p].home \in DOMAIN shells' /\ shells'[procs'[p].home] # NoPid
                 /\ procs'[p].parent = NoPid /\ procs'[p].home # NoPane =>
                       shells'[procs'[p].home] = p /\ procs'[p].depth = 0
        BY <1>3, <1>4, <1>5 DEF DiscoveryInv, Homes
    <2>2. /\ parent # NoPid =>
                /\ parent \in Discovery!Alive'
                /\ procs'[parent].home = home
                /\ home # NoPane => depth = procs'[parent].depth + 1
          /\ home # NoPane => home \in DOMAIN shells' /\ shells'[home] # NoPid
          /\ parent = NoPid /\ home # NoPane => shells'[home] = y /\ depth = 0
        <3>0. y # NoPid
            BY EnvironmentAssumption
        <3>1. CASE parent \in Discovery!Alive /\ home = procs[parent].home
                   /\ depth = procs[parent].depth + 1 /\ shells' = shells
            <4>1. parent # NoPid
                BY <1>4, <3>1, EnvironmentAssumption
            <4> QED
                BY <1>3, <1>4, <3>1, <4>1 DEF DiscoveryInv, Homes
        <3>2. CASE parent = NoPid /\ home = NoPane
            BY <3>2
        <3>3. CASE parent = NoPid /\ home = Len(shells) + 1 /\ depth = 0
                   /\ shells' = Append(shells, y) /\ home \in Discovery!Panes
            BY <1>0, <3>0, <3>3 DEF PidOrNone
        <3> QED
            BY <1>2, <3>1, <3>2, <3>3
    <2>3. ASSUME NEW q \in DOMAIN shells', shells'[q] # NoPid
          PROVE  /\ shells'[q] \in Discovery!Alive'
                 /\ procs'[shells'[q]].home = q /\ procs'[shells'[q]].parent = NoPid
        <3>1. CASE q \in DOMAIN shells
            BY <1>3, <1>4, <1>5, <2>3, <3>1 DEF DiscoveryInv, Homes
        <3>2. CASE q \notin DOMAIN shells
            BY <1>3, <1>5, <3>2
        <3> QED
            BY <3>1, <3>2
    <2> QED
        BY <1>3, <2>1, <2>2, <2>3 DEF Homes
<1>8. ScanInv'
    <2>1. /\ scan.steady \subseteq Discovery!Alive /\ scan.settled \subseteq scan.steady
          /\ scan \in Scan
        BY DEF DiscoveryInv, ScanInv, DiscoveryTyped
    <2>2. TableTrue'
        <3> SUFFICES ASSUME scan.at = "locate", scan.pid \in Located
                     PROVE  /\ \A e \in scan.table : (scan.pid \in Discovery!Below(e.shell))' =>
                                 e.pane \in DOMAIN shells' /\ shells'[e.pane] = e.shell
                            /\ procs'[scan.pid].home # NoPane =>
                                 [pane |-> procs'[scan.pid].home,
                                  shell |-> shells'[procs'[scan.pid].home]] \in scan.table
            BY <1>1 DEF TableTrue, Located
        <3>1. scan.pid \in Discovery!Alive
            BY <2>1 DEF Located
        <3>2. procs'[scan.pid] = procs[scan.pid]
            BY <1>4, <3>1
        <3>3. ASSUME NEW e \in scan.table, (scan.pid \in Discovery!Below(e.shell))'
              PROVE  e.pane \in DOMAIN shells' /\ shells'[e.pane] = e.shell
            <4>1. e.shell \in Discovery!Pids
                BY <2>1 DEF Scan
            <4>2. scan.pid \in Discovery!Below(e.shell)
                BY <1>1, <1>3, <3>1, <3>3, <4>1, StartBelow
            <4> QED
                BY <1>5, <4>2 DEF DiscoveryInv, ScanInv, TableTrue
        <3>4. procs[scan.pid].home # NoPane => procs[scan.pid].home \in DOMAIN shells
            BY <3>1 DEF DiscoveryInv, Homes
        <3> QED
            BY <1>5, <3>2, <3>3, <3>4 DEF DiscoveryInv, ScanInv, TableTrue
    <2>3. scan' = [scan EXCEPT !.steady = scan'.steady, !.settled = scan'.settled]
        BY <1>1, <2>1 DEF Scan
    <2> QED
        BY <1>1, <1>3, <1>4, <2>1, <2>2, <2>3, ScanGoesOn
<1> QED
    BY <1>6, <1>7, <1>8 DEF DiscoveryInv
LEMMA ExitStep ==
    ASSUME DiscoveryInv, Discovery!Exit
    PROVE  DiscoveryInv'
<1>1. PICK x \in Discovery!Alive :
        /\ procs' = [r \in Discovery!Pids |->
               IF r = x THEN NoProcess
               ELSE IF r \notin Discovery!Below(x) THEN procs[r]
               ELSE [procs[r] EXCEPT !.parent = IF @ = x THEN NoPid ELSE @, !.home = NoPane]]
        /\ shells' = [q \in DOMAIN shells |-> IF shells[q] = x THEN NoPid ELSE shells[q]]
        /\ scan' = [scan EXCEPT !.steady = @ \ {x}, !.settled = @ \ Discovery!Below(x)]
        /\ UNCHANGED <<started, known>>
    BY DEF Discovery!Exit
<1> DEFINE gone == Discovery!Below(x)
<1>2. /\ Discovery!Alive \subseteq Discovery!Pids
      /\ \A r \in Discovery!Alive : procs[r] \in Discovery!Process
      /\ \A r \in Discovery!Pids \ Discovery!Alive : procs[r] = NoProcess
      /\ scan \in Scan /\ scan.steady \subseteq Discovery!Alive
      /\ scan.settled \subseteq scan.steady
    BY DEF DiscoveryInv, DiscoveryTyped, ScanInv, Discovery!TypeOK, Discovery!Alive
<1>3. /\ x \in gone /\ Discovery!Family(gone) /\ gone \subseteq Discovery!Pids
      /\ \A q \in gone \ {x} : q \in Discovery!Alive /\ procs[q].parent \in gone
    BY <1>2, BelowIs DEF DiscoveryInv, DiscoveryTyped
<1>4. ASSUME NEW r \in gone \ {x}
      PROVE  /\ procs'[r] \in Discovery!Process
             /\ procs'[r].home = NoPane
             /\ procs'[r].start = procs[r].start /\ procs'[r].look = procs[r].look
             /\ procs'[r].parent = IF procs[r].parent = x THEN NoPid ELSE procs[r].parent
    <2>1. r \in Discovery!Alive /\ procs[r] \in Discovery!Process /\ r \in Discovery!Pids
        BY <1>2, <1>3
    <2>2. procs'[r] = [procs[r] EXCEPT !.parent = IF @ = x THEN NoPid ELSE @, !.home = NoPane]
        BY <1>1, <2>1
    <2> HIDE DEF gone
    <2> QED
        BY <2>1, <2>2 DEF Discovery!Process
<1>5. \A r \in Discovery!Pids \ gone : r # x /\ procs'[r] = procs[r]
    BY <1>1, <1>3
<1>6. Discovery!Alive' = Discovery!Alive \ {x}
    <2>1. procs'[x] = NoProcess
        BY <1>1, <1>2
    <2>2. \A r \in gone \ {x} : procs'[r] # NoProcess /\ r \in Discovery!Alive
        BY <1>3, <1>4, EnvironmentAssumption
    <2> QED
        BY <1>2, <1>3, <1>5, <2>1, <2>2 DEF Discovery!Alive
<1>7. procs' \in [Discovery!Pids -> Discovery!Process \union {NoProcess}]
    <2>1. \A r \in Discovery!Pids : procs'[r] \in Discovery!Process \union {NoProcess}
        BY <1>1, <1>2, <1>4, <1>5
    <2> QED
        BY <1>1, <2>1
<1>8. /\ shells' \in Seq(PidOrNone) /\ Len(shells') <= LastPane
      /\ DOMAIN shells' = DOMAIN shells
      /\ \A q \in DOMAIN shells : shells'[q] = IF shells[q] = x THEN NoPid ELSE shells[q]
    <2>1. shells \in Seq(PidOrNone) /\ Len(shells) <= LastPane
        BY DEF DiscoveryInv, DiscoveryTyped, Discovery!TypeOK
    <2>2. /\ DOMAIN shells = 1..Len(shells) /\ Len(shells) \in Nat
          /\ \A q \in 1..Len(shells) : shells'[q] \in PidOrNone
        <3>1. \A q \in 1..Len(shells) : shells[q] \in PidOrNone
            BY <2>1
        <3>2. DOMAIN shells = 1..Len(shells) /\ Len(shells) \in Nat
            BY <2>1
        <3> QED
            BY <1>1, <3>1, <3>2 DEF PidOrNone
    <2>3. shells' = [q \in 1..Len(shells) |-> shells'[q]]
        BY <1>1, <2>2
    <2>4. shells' \in Seq(PidOrNone) /\ Len(shells') = Len(shells)
        BY <2>2, <2>3
    <2> QED
        BY <1>1, <2>1, <2>4
<1>9. /\ scan' \in Scan
      /\ scan' = [scan EXCEPT !.steady = scan'.steady, !.settled = scan'.settled]
      /\ scan'.steady = scan.steady \ {x} /\ scan'.settled = scan.settled \ gone
      /\ scan'.at = scan.at /\ scan'.pid = scan.pid /\ scan'.table = scan.table
      /\ scan'.blind = scan.blind /\ scan'.left = scan.left
      /\ scan'.placed = scan.placed /\ scan'.refused = scan.refused
      /\ scan'.masked = scan.masked
    BY <1>1, <1>2 DEF Scan
<1>10. /\ scan'.steady \subseteq Discovery!Alive' /\ scan'.settled \subseteq scan'.steady
       /\ \A p \in scan'.settled : procs'[p] = procs[p]
       /\ \A p \in scan'.steady : /\ procs'[p].start = procs[p].start
                                  /\ procs'[p].look = procs[p].look
    BY <1>2, <1>3, <1>4, <1>5, <1>6, <1>9
<1> HIDE DEF gone
<1>11. DiscoveryTyped'
    <2>1. \A q \in DOMAIN shells' : shells'[q] \in Discovery!Pids \union {NoPid}
        BY <1>8 DEF PidOrNone
    <2>2. Discovery!TypeOK'
        BY <1>1, <1>7, <1>8, <1>9, <1>10, <2>1 DEF DiscoveryInv, DiscoveryTyped, Discovery!TypeOK
    <2> QED
        BY <1>1, <1>8, <1>9, <2>2 DEF DiscoveryInv, DiscoveryTyped
<1>12. Homes'
    <2>1. ASSUME NEW p \in Discovery!Alive \ {x}
          PROVE  /\ procs'[p].parent # NoPid =>
                       /\ procs'[p].parent \in Discovery!Alive'
                       /\ procs'[procs'[p].parent].home = procs'[p].home
                       /\ procs'[p].home # NoPane =>
                             procs'[p].depth = procs'[procs'[p].parent].depth + 1
                 /\ procs'[p].home # NoPane =>
                       procs'[p].home \in DOMAIN shells' /\ shells'[procs'[p].home] # NoPid
                 /\ procs'[p].parent = NoPid /\ procs'[p].home # NoPane =>
                       shells'[procs'[p].home] = p /\ procs'[p].depth = 0
        <3>1. CASE p \in gone
            <4>1. procs'[p].home = NoPane
                BY <1>4, <2>1, <3>1
            <4>2. CASE procs[p].parent = x
                BY <1>4, <2>1, <3>1, <4>1, <4>2
            <4>3. CASE procs[p].parent # x
                <5> DEFINE u == procs[p].parent
                <5>1. u \in gone \ {x} /\ procs'[p].parent = u
                    BY <1>3, <1>4, <2>1, <3>1, <4>3
                <5>2. u \in Discovery!Alive' /\ procs'[u].home = NoPane
                    BY <1>3, <1>4, <1>6, <5>1
                <5> QED
                    BY <4>1, <5>1, <5>2
            <4> QED
                BY <4>2, <4>3
        <3>2. CASE p \notin gone
            <4>1. procs'[p] = procs[p]
                BY <1>2, <1>5, <2>1, <3>2
            <4>2. procs[p].parent \notin gone
                BY <1>3, <2>1, <3>2 DEF Discovery!Family
            <4>3. procs[p].parent # NoPid => /\ procs[p].parent \in Discovery!Alive'
                                             /\ procs'[procs[p].parent] = procs[procs[p].parent]
                BY <1>2, <1>3, <1>5, <1>6, <4>2 DEF DiscoveryInv, Homes
            <4>4. procs[p].home # NoPane => shells[procs[p].home] # x
                <5> SUFFICES ASSUME procs[p].home # NoPane, shells[procs[p].home] = x
                             PROVE  p \in gone
                    BY <3>2
                <5> QED
                    BY BelowShell DEF DiscoveryInv, gone
            <4> QED
                BY <1>8, <4>1, <4>3, <4>4 DEF DiscoveryInv, Homes
        <3> QED
            BY <3>1, <3>2
    <2>2. ASSUME NEW q \in DOMAIN shells', shells'[q] # NoPid
          PROVE  /\ shells'[q] \in Discovery!Alive'
                 /\ procs'[shells'[q]].home = q /\ procs'[shells'[q]].parent = NoPid
        <3>1. shells'[q] = shells[q] /\ shells[q] # x /\ shells[q] # NoPid /\ q \in DOMAIN shells
            BY <1>8, <2>2
        <3>2. /\ shells[q] \in Discovery!Alive /\ procs[shells[q]].home = q
              /\ procs[shells[q]].parent = NoPid
            BY <3>1 DEF DiscoveryInv, Homes
        <3>3. shells[q] \notin gone
            BY <1>3, <3>1, <3>2, EnvironmentAssumption
        <3> QED
            BY <1>2, <1>5, <1>6, <3>1, <3>2, <3>3
    <2> QED
        BY <1>6, <2>1, <2>2 DEF Homes
<1>13. TableTrue'
    <2> SUFFICES ASSUME scan.at = "locate", scan.pid \in scan'.settled, scan.pid \in Located
                 PROVE  /\ \A e \in scan.table : (scan.pid \in Discovery!Below(e.shell))' =>
                             e.pane \in DOMAIN shells' /\ shells'[e.pane] = e.shell
                        /\ procs'[scan.pid].home # NoPane =>
                             [pane |-> procs'[scan.pid].home,
                              shell |-> shells'[procs'[scan.pid].home]] \in scan.table
        BY <1>9 DEF TableTrue, Located
    <2>1. scan.pid \in Discovery!Alive /\ scan.pid \notin gone /\ procs'[scan.pid] = procs[scan.pid]
        BY <1>2, <1>9, <1>10
    <2>2. ASSUME NEW e \in scan.table, (scan.pid \in Discovery!Below(e.shell))'
          PROVE  e.pane \in DOMAIN shells' /\ shells'[e.pane] = e.shell
        <3>1. e.shell \in Discovery!Pids
            BY <1>2 DEF Scan
        <3> DEFINE S == Discovery!Below(e.shell)
        <3>2. e.shell \in S /\ S \in SUBSET Discovery!Pids /\ Discovery!Family(S)
            BY <3>1, BelowIs DEF DiscoveryInv, DiscoveryTyped
        <3>3. \A q \in Discovery!Alive' : procs'[q].parent \in S => q \in S
            <4> SUFFICES ASSUME NEW q \in Discovery!Alive \ {x}, procs'[q].parent \in S
                         PROVE  q \in S
                BY <1>6
            <4>1. procs'[q].parent # NoPid
                BY <3>2, EnvironmentAssumption
            <4>2. procs'[q].parent = procs[q].parent
                BY <1>2, <1>4, <1>5, <4>1
            <4> QED
                BY <3>2, <4>2 DEF Discovery!Family
        <3>4. \A T \in SUBSET Discovery!Pids :
                 e.shell \in T /\ (\A q \in Discovery!Alive' : procs'[q].parent \in T => q \in T)
                 => scan.pid \in T
            BY <1>9, <2>2 DEF Discovery!Below, Discovery!Family
        <3>5. scan.pid \in S
            BY <3>2, <3>3, <3>4
        <3>6. e.pane \in DOMAIN shells /\ shells[e.pane] = e.shell
            BY <3>5 DEF DiscoveryInv, ScanInv, TableTrue
        <3>7. e.shell # x
            BY <2>1, <3>5 DEF gone
        <3> QED
            BY <1>8, <3>6, <3>7
    <2>3. procs[scan.pid].home # NoPane =>
             /\ procs[scan.pid].home \in DOMAIN shells
             /\ scan.pid \in Discovery!Below(shells[procs[scan.pid].home])
        BY <2>1, BelowShell DEF DiscoveryInv, Homes
    <2>4. procs[scan.pid].home # NoPane => shells[procs[scan.pid].home] # x
        BY <2>1, <2>3 DEF gone
    <2> QED
        BY <1>8, <2>1, <2>2, <2>3, <2>4 DEF DiscoveryInv, ScanInv, TableTrue
<1>14. ScanInv'
    <2>1. scan'.steady \subseteq scan.steady /\ scan'.settled \subseteq scan.settled
        BY <1>9
    <2> QED
        BY <1>1, <1>9, <1>10, <1>13, <2>1, ScanGoesOn
<1> QED
    BY <1>11, <1>12, <1>14 DEF DiscoveryInv

\* The processes stay and the scan goes on.
LEMMA ScanTyped ==
    ASSUME DiscoveryInv, UNCHANGED <<procs, shells, started, known>>,
           scan' \in Scan, ScanInv'
    PROVE  DiscoveryInv'
<1>1. Discovery!Alive' = Discovery!Alive
    BY DEF Discovery!Alive
<1>2. Discovery!TypeOK'
    BY <1>1 DEF DiscoveryInv, DiscoveryTyped, Discovery!TypeOK, Scan, ScanInv
<1>3. Homes'
    BY <1>1 DEF DiscoveryInv, Homes
<1> QED
    BY <1>2, <1>3 DEF DiscoveryInv, DiscoveryTyped

\* Without a change of processes or sessions, own sessions stay.
LEMMA OwnStays ==
    ASSUME UNCHANGED <<procs, known>>
    PROVE  \A p : Discovery!HasOwnSession(p)' <=> Discovery!HasOwnSession(p)
BY DEF Discovery!HasOwnSession, Discovery!Alive

LEMMA BeginScanStep ==
    ASSUME DiscoveryInv, Discovery!BeginScan
    PROVE  DiscoveryInv'
<1>1. /\ scan' = [Discovery!ScanStart EXCEPT !.at = "scan", !.left = Discovery!Pids,
                                 !.steady = Discovery!Alive, !.settled = Discovery!Alive]
      /\ UNCHANGED <<procs, shells, started, known>>
    BY DEF Discovery!BeginScan
<1>2. scan' = [at |-> "scan", left |-> Discovery!Pids, pid |-> NoPid, table |-> {}, found |-> {},
               steady |-> Discovery!Alive, settled |-> Discovery!Alive, placed |-> {},
               refused |-> {}, masked |-> {}, blind |-> {}]
    BY <1>1 DEF Discovery!ScanStart
<1>3. Discovery!Alive \subseteq Discovery!Pids /\ Discovery!Alive' = Discovery!Alive
    BY <1>1 DEF Discovery!Alive
<1>4. scan' \in Scan
    BY <1>2, <1>3 DEF Scan, PidOrNone
<1>5. ScanInv'
    BY <1>2, <1>3 DEF ScanInv, TableTrue, Accounted
<1> QED
    BY <1>1, <1>2, <1>4, <1>5, ScanTyped
LEMMA DetectStep ==
    ASSUME DiscoveryInv, Discovery!Detect
    PROVE  DiscoveryInv'
<1>1. /\ UNCHANGED <<procs, shells, started, known>> /\ scan.at = "scan"
      /\ scan \in Scan /\ scan.steady \subseteq Discovery!Alive
      /\ shells \in Seq(PidOrNone) /\ DOMAIN shells \subseteq Discovery!Panes
    BY DEF Discovery!Detect, DiscoveryInv, DiscoveryTyped, ScanInv
<1>2. PICK p \in scan.left :
        IF p \in Discovery!Alive /\ Discovery!Recognised(procs[p].look)
        THEN \E answers \in BOOLEAN :
                scan' = [scan EXCEPT !.at = "locate", !.pid = p,
                                     !.table = IF answers THEN Discovery!PaneTable ELSE {},
                                     !.blind = IF answers THEN @ ELSE @ \union {p}]
        ELSE Discovery!PassOver(p)
    BY DEF Discovery!Detect
<1>3. p \in Discovery!Pids
    BY <1>1 DEF Scan
<1>4. CASE p \in Discovery!Alive /\ Discovery!Recognised(procs[p].look)
    <2>1. PICK answers \in BOOLEAN :
            scan' = [scan EXCEPT !.at = "locate", !.pid = p,
                                 !.table = IF answers THEN Discovery!PaneTable ELSE {},
                                 !.blind = IF answers THEN @ ELSE @ \union {p}]
        BY <1>2, <1>4
    <2>2. Discovery!PaneTable \in SUBSET [pane : Discovery!Panes, shell : Discovery!Pids]
        BY <1>1 DEF Discovery!PaneTable, PidOrNone
    <2>3. /\ scan' \in Scan /\ scan'.at = "locate" /\ scan'.pid = p /\ scan'.left = scan.left
          /\ scan'.found = scan.found /\ scan'.steady = scan.steady /\ scan'.placed = scan.placed
          /\ scan'.refused = scan.refused /\ scan'.masked = scan.masked
          /\ scan'.settled = scan.settled
          /\ scan'.table = IF answers THEN Discovery!PaneTable ELSE {}
          /\ scan'.blind = IF answers THEN scan.blind ELSE scan.blind \union {p}
        BY <1>1, <1>3, <2>1, <2>2 DEF Scan, PidOrNone
    <2>4. TableTrue'
        <3> SUFFICES ASSUME p \notin scan'.blind, p \in Discovery!Alive
                     PROVE  /\ \A e \in scan'.table :
                                  e.pane \in DOMAIN shells /\ shells[e.pane] = e.shell
                            /\ procs[p].home # NoPane =>
                                  [pane |-> procs[p].home, shell |-> shells[procs[p].home]]
                                     \in scan'.table
            BY <1>1, <1>4, <2>3 DEF TableTrue, Located
        <3>1. scan'.table = Discovery!PaneTable
            BY <2>3
        <3>2. procs[p].home # NoPane =>
                 procs[p].home \in DOMAIN shells /\ shells[procs[p].home] # NoPid
            BY DEF DiscoveryInv, Homes
        <3> QED
            BY <3>1, <3>2 DEF Discovery!PaneTable
    <2>5. ScanInv'
        <3>1. Located' \subseteq Located
            BY <2>3 DEF Located
        <3>2. Discovery!Alive' = Discovery!Alive
            BY <1>1 DEF Discovery!Alive
        <3>5. \A q : Discovery!HasOwnSession(q)' <=> Discovery!HasOwnSession(q)
            BY <1>1, OwnStays
        <3>3. \A q : Accounted(q)' <=> Accounted(q)
            BY <1>1, <2>3, <3>5 DEF Accounted
        <3>4. \A q : PaneOf(q)' = PaneOf(q)
            BY <1>1 DEF PaneOf
        <3> QED
            BY <1>1, <2>3, <2>4, <3>1, <3>2, <3>3, <3>4, <3>5 DEF DiscoveryInv, ScanInv
    <2> QED
        BY <1>1, <2>3, <2>5, ScanTyped
<1>5. CASE ~(p \in Discovery!Alive /\ Discovery!Recognised(procs[p].look))
    <2>1. scan' = [scan EXCEPT !.left = @ \ {p}]
        BY <1>2, <1>5 DEF Discovery!PassOver
    <2>2. /\ scan' \in Scan /\ scan'.at = "scan" /\ scan'.left = scan.left \ {p}
          /\ scan'.found = scan.found /\ scan'.steady = scan.steady /\ scan'.placed = scan.placed
          /\ scan'.refused = scan.refused /\ scan'.blind = scan.blind
          /\ scan'.masked = scan.masked /\ scan'.settled = scan.settled
        BY <1>1, <2>1 DEF Scan
    <2>3. Located' = Located /\ Discovery!Alive' = Discovery!Alive
          /\ \A q : PaneOf(q)' = PaneOf(q)
        BY <1>1, <2>2 DEF Located, Discovery!Alive, PaneOf
    <2>6. \A q : Discovery!HasOwnSession(q)' <=> Discovery!HasOwnSession(q)
        BY <1>1, OwnStays
    <2>4. \A q : q # p /\ Accounted(q) => Accounted(q)'
        BY <1>1, <2>2, <2>6 DEF Accounted
    <2>5. ScanInv'
        BY <1>1, <1>5, <2>2, <2>3, <2>4, <2>6 DEF DiscoveryInv, ScanInv, TableTrue
    <2> QED
        BY <1>1, <2>2, <2>5, ScanTyped
<1> QED
    BY <1>4, <1>5

LEMMA LocateStep ==
    ASSUME DiscoveryInv, Discovery!Locate
    PROVE  DiscoveryInv'
<1> DEFINE new == [pid |-> scan.pid, pane |-> Discovery!FindPane(scan.pid, scan.table)]
<1>1. /\ UNCHANGED <<procs, shells, started, known>> /\ scan.at = "locate"
      /\ scan' = [scan EXCEPT !.at = "scan", !.left = @ \ {scan.pid}, !.pid = NoPid, !.table = {},
                              !.found = @ \union {new}]
      /\ scan \in Scan /\ scan.steady \subseteq Discovery!Alive
      /\ scan.pid \in scan.left
    BY DEF Discovery!Locate, DiscoveryInv, DiscoveryTyped, ScanInv
<1>2. new \in [pid : Discovery!Pids, pane : Discovery!Panes \union {NoPane}] /\ new.pid = scan.pid
    BY <1>1, WalkTyped DEF DiscoveryInv, Scan
<1>3. scan.pid \in Located => new.pane = PaneOf(scan.pid)
    BY <1>1, WalkFinds
<1> HIDE DEF new
<1>4. /\ scan' \in Scan /\ scan'.at = "scan" /\ scan'.left = scan.left \ {scan.pid}
      /\ scan'.found = scan.found \union {new} /\ scan'.steady = scan.steady
      /\ scan'.settled = scan.settled /\ scan'.placed = scan.placed
      /\ scan'.refused = scan.refused /\ scan'.masked = scan.masked /\ scan'.blind = scan.blind
    BY <1>1, <1>2 DEF Scan, PidOrNone
<1>5. Located' = Located /\ Discovery!Alive' = Discovery!Alive /\ \A q : PaneOf(q)' = PaneOf(q)
    BY <1>1, <1>4 DEF Located, Discovery!Alive, PaneOf
<1>9. \A q : Discovery!HasOwnSession(q)' <=> Discovery!HasOwnSession(q)
    BY <1>1, OwnStays
<1>6. \A q : Accounted(q) => Accounted(q)'
    BY <1>1, <1>2, <1>4, <1>9 DEF Accounted
<1>7. \A f \in scan'.found : f.pid \in Located => f.pane = PaneOf(f.pid)
    BY <1>2, <1>3, <1>4 DEF DiscoveryInv, ScanInv
<1>8. ScanInv'
    BY <1>1, <1>4, <1>5, <1>6, <1>7, <1>9 DEF DiscoveryInv, ScanInv, TableTrue
<1> QED
    BY <1>1, <1>4, <1>8, ScanTyped

LEMMA EndStep ==
    ASSUME DiscoveryInv, Discovery!EndOfList \/ Discovery!EndScan
    PROVE  DiscoveryInv'
<1>1. /\ UNCHANGED <<procs, shells, started, known>>
      /\ scan \in Scan /\ scan.steady \subseteq Discovery!Alive
      /\ \/ scan.left = {} /\ scan' = [scan EXCEPT !.at = "register"]
         \/ scan.at = "register" /\ scan.found = {} /\ scan' = [scan EXCEPT !.at = "done"]
    BY DEF Discovery!EndOfList, Discovery!EndScan, DiscoveryInv, DiscoveryTyped, ScanInv
<1>2. /\ scan' \in Scan /\ scan'.at \in {"register", "done"} /\ scan'.left = scan.left
      /\ scan'.found = scan.found /\ scan'.steady = scan.steady /\ scan'.placed = scan.placed
      /\ scan'.refused = scan.refused /\ scan'.blind = scan.blind
      /\ scan'.masked = scan.masked /\ scan'.settled = scan.settled
      /\ scan'.left = {} /\ (scan'.at = "done" => scan'.found = {})
    BY <1>1 DEF Scan, DiscoveryInv, ScanInv
<1>3. Located' = Located /\ Discovery!Alive' = Discovery!Alive
      /\ (\A q : PaneOf(q)' = PaneOf(q)) /\ (\A q : Accounted(q)' <=> Accounted(q))
      /\ \A q : Discovery!HasOwnSession(q)' <=> Discovery!HasOwnSession(q)
    BY <1>1, <1>2, OwnStays DEF Located, Discovery!Alive, PaneOf, Accounted
<1>4. ScanInv'
    BY <1>1, <1>2, <1>3 DEF DiscoveryInv, ScanInv, TableTrue
<1> QED
    BY <1>1, <1>2, <1>4, ScanTyped

\* The registry changes while the processes stay: own sessions stay, and so do
\* their panes but for those the scan places.
LEMMA RegistryChanges ==
    ASSUME DiscoveryInv, UNCHANGED <<procs, shells, started>>, scan' \in Scan,
           scan'.at = scan.at, scan'.left = scan.left, scan'.pid = scan.pid,
           scan'.table = scan.table, scan'.steady = scan.steady, scan'.settled = scan.settled,
           scan'.blind = scan.blind, scan'.found \subseteq scan.found,
           scan.at = "done" => scan'.found = scan.found,
           scan.refused \subseteq scan'.refused, scan.masked \subseteq scan'.masked,
           \A p \in Discovery!Pids : Discovery!HasOwnSession(p) => Discovery!HasOwnSession(p)',
           \A f \in scan.found \ scan'.found : f.pid \in Discovery!Alive =>
              Discovery!HasOwnSession(f.pid)' \/ f.pid \in scan'.refused \union scan'.masked,
           \A p \in scan.placed \intersect Located : known'[p].pane = PaneOf(p),
           \A p \in (scan'.placed \ scan.placed) \intersect Located :
              Discovery!HasOwnSession(p)' /\ known'[p].pane = PaneOf(p),
           known' = [p \in DOMAIN known' |-> known'[p]], DOMAIN known' \subseteq Discovery!Pids,
           \A p \in DOMAIN known' :
              known'[p] \in [id : {"pending", "real"}, pane : Discovery!Panes \union {NoPane},
                             start : 0..MaxStarts],
           Discovery!Cardinality(DOMAIN known') <= MaxSessions
    PROVE  DiscoveryInv'
<1>1. /\ Discovery!Alive' = Discovery!Alive /\ Located' = Located
      /\ (\A q : PaneOf(q)' = PaneOf(q)) /\ \A r : Discovery!Below(r)' = Discovery!Below(r)
    BY DEF Discovery!Alive, PaneOf, Located, Discovery!Below, Discovery!Family
<1>2. scan.steady \subseteq Discovery!Alive /\ scan.settled \subseteq scan.steady
      /\ Discovery!Alive \subseteq Discovery!Pids
    BY DEF DiscoveryInv, ScanInv, Discovery!Alive
<1>3. ASSUME NEW p \in scan.steady, Accounted(p)
      PROVE  Accounted(p)'
    BY <1>2, <1>3 DEF Accounted
<1>4. \A p \in scan'.placed \intersect Located' :
         Discovery!HasOwnSession(p)' /\ known'[p].pane = PaneOf(p)'
    BY <1>1, <1>2 DEF DiscoveryInv, ScanInv, Located
<1>5. TableTrue'
    BY <1>1 DEF DiscoveryInv, ScanInv, TableTrue
<1>6. \A f \in scan'.found : f.pid \in Located' => f.pane = PaneOf(f.pid)'
    BY <1>1 DEF DiscoveryInv, ScanInv
<1>7. ScanInv'
    BY <1>1, <1>2, <1>3, <1>4, <1>5, <1>6 DEF DiscoveryInv, ScanInv
<1>8. Discovery!TypeOK'
    BY <1>1, <1>2 DEF DiscoveryInv, DiscoveryTyped, Discovery!TypeOK, Scan
<1>9. Homes'
    BY <1>1 DEF DiscoveryInv, Homes
<1> QED
    BY <1>7, <1>8, <1>9 DEF DiscoveryInv, DiscoveryTyped

\* A session changes but for its start time.
LEMMA SessionChanges ==
    ASSUME DiscoveryInv, NEW p \in DOMAIN known, NEW id \in {"pending", "real"},
           NEW pane \in Discovery!Panes \union {NoPane}, procs' = procs,
           known' = [known EXCEPT ![p].id = id, ![p].pane = pane]
    PROVE  /\ known' = [q \in DOMAIN known' |-> known'[q]] /\ DOMAIN known' = DOMAIN known
           /\ \A q \in DOMAIN known' :
                 known'[q] \in [id : {"pending", "real"}, pane : Discovery!Panes \union {NoPane},
                                start : 0..MaxStarts]
           /\ known'[p].pane = pane /\ \A q \in DOMAIN known \ {p} : known'[q] = known[q]
           /\ \A q : Discovery!HasOwnSession(q)' <=> Discovery!HasOwnSession(q)
           /\ Discovery!Cardinality(DOMAIN known') <= MaxSessions
<1> DEFINE new == [known[p] EXCEPT !.id = id, !.pane = pane]
<1>1. /\ known[p] \in [id : {"pending", "real"}, pane : Discovery!Panes \union {NoPane},
                       start : 0..MaxStarts]
      /\ known = [q \in DOMAIN known |-> known[q]]
    BY DEF DiscoveryInv, DiscoveryTyped, Discovery!TypeOK
<1>2. /\ new.pane = pane /\ new.start = known[p].start
      /\ new \in [id : {"pending", "real"}, pane : Discovery!Panes \union {NoPane},
                  start : 0..MaxStarts]
    BY <1>1
<1>3. known' = [known EXCEPT ![p] = new]
    BY <1>1
<1> HIDE DEF new
<1>4. /\ known' = [q \in DOMAIN known |-> IF q = p THEN new ELSE known[q]]
      /\ DOMAIN known' = DOMAIN known
    BY <1>1, <1>3
<1>5. /\ known'[p] = new /\ \A q \in DOMAIN known \ {p} : known'[q] = known[q]
      /\ known' = [q \in DOMAIN known' |-> known'[q]]
    BY <1>4
<1>6. \A q : Discovery!HasOwnSession(q)' <=> Discovery!HasOwnSession(q)
    BY <1>2, <1>4, <1>5 DEF Discovery!HasOwnSession, Discovery!Alive
<1> QED
    BY <1>2, <1>4, <1>5, <1>6 DEF DiscoveryInv, DiscoveryTyped, Discovery!TypeOK

LEMMA RegisterStep ==
    ASSUME DiscoveryInv, Discovery!Register
    PROVE  DiscoveryInv'
<1>1. /\ UNCHANGED <<procs, shells, started>> /\ scan.at = "register"
      /\ scan \in Scan /\ scan.steady \subseteq Discovery!Alive
      /\ scan.settled \subseteq scan.steady
    BY DEF Discovery!Register, DiscoveryInv, DiscoveryTyped, ScanInv
<1> DEFINE Rest(f) == [scan EXCEPT !.found = @ \ {f}]
           Session == [id : {"pending", "real"}, pane : Discovery!Panes \union {NoPane},
                       start : 0..MaxStarts]
<1>2. PICK f \in scan.found :
        IF f.pid \in DOMAIN known
        THEN /\ known' = Discovery!Rediscovered(f)
             /\ scan' = IF ~Discovery!HasOwnSession(f.pid)
                        THEN [Rest(f) EXCEPT !.masked = @ \union {f.pid}]
                        ELSE IF known[f.pid].id = "real" /\ f.pane # NoPane
                        THEN [Rest(f) EXCEPT !.placed = @ \union {f.pid}]
                        ELSE Rest(f)
        ELSE IF Discovery!Cardinality(DOMAIN known) >= MaxSessions
        THEN scan' = [Rest(f) EXCEPT !.refused = @ \union {f.pid}] /\ UNCHANGED known
        ELSE /\ scan' = [Rest(f) EXCEPT !.placed = @ \union {f.pid}]
             /\ known' = Discovery!Added(f)
    BY DEF Discovery!Register
<1>3. f.pid \in Discovery!Pids /\ f.pane \in Discovery!Panes \union {NoPane}
      /\ (f.pid \in Located => f.pane = PaneOf(f.pid))
    BY <1>1 DEF Scan, DiscoveryInv, ScanInv
<1>4. /\ known = [p \in DOMAIN known |-> known[p]] /\ DOMAIN known \subseteq Discovery!Pids
      /\ (\A p \in DOMAIN known : known[p] \in Session)
      /\ Discovery!Cardinality(DOMAIN known) <= MaxSessions
      /\ \A p \in scan.placed \intersect Located :
            Discovery!HasOwnSession(p) /\ known[p].pane = PaneOf(p)
    BY DEF DiscoveryInv, DiscoveryTyped, Discovery!TypeOK, ScanInv
<1>5. CASE f.pid \in DOMAIN known /\ known[f.pid].id = "pending"
    <2>1. known' = known
        BY <1>2, <1>5 DEF Discovery!Rediscovered
    <2>2. /\ scan' \in Scan /\ scan'.at = "register" /\ scan'.left = scan.left
          /\ scan'.pid = scan.pid /\ scan'.table = scan.table
          /\ scan'.found = scan.found \ {f} /\ scan'.steady = scan.steady
          /\ scan'.settled = scan.settled /\ scan'.placed = scan.placed
          /\ scan'.blind = scan.blind /\ scan'.refused = scan.refused
          /\ scan.masked \subseteq scan'.masked
          /\ Discovery!HasOwnSession(f.pid) \/ f.pid \in scan'.masked
        <3>1. CASE ~Discovery!HasOwnSession(f.pid)
            <4>1. scan' = [Rest(f) EXCEPT !.masked = @ \union {f.pid}]
                <5> HIDE DEF Rest
                <5> QED
                    BY <1>2, <1>5, <3>1
            <4> QED
                BY <1>1, <1>2, <1>3, <4>1 DEF Scan
        <3>2. CASE Discovery!HasOwnSession(f.pid)
            BY <1>1, <1>2, <1>3, <1>5, <3>2 DEF Scan
        <3> QED
            BY <3>1, <3>2
    <2>3. \A p : Discovery!HasOwnSession(p)' <=> Discovery!HasOwnSession(p)
        BY <1>1, <2>1, OwnStays
    <2> QED
        BY <1>1, <1>4, <2>1, <2>2, <2>3, RegistryChanges
<1>6. CASE f.pid \in DOMAIN known /\ known[f.pid].id # "pending"
    <2> DEFINE pane == IF f.pane = NoPane THEN known[f.pid].pane ELSE f.pane
    <2>1. known[f.pid].id = "real" /\ pane \in Discovery!Panes \union {NoPane}
        BY <1>3, <1>4, <1>6
    <2>2. known' = [known EXCEPT ![f.pid].id = "pending", ![f.pid].pane = pane]
        BY <1>2, <1>6 DEF Discovery!Rediscovered
    <2> HIDE DEF pane
    <2>3. /\ known' = [q \in DOMAIN known' |-> known'[q]] /\ DOMAIN known' = DOMAIN known
          /\ (\A q \in DOMAIN known' : known'[q] \in Session)
          /\ known'[f.pid].pane = pane /\ \A q \in DOMAIN known \ {f.pid} : known'[q] = known[q]
          /\ \A q : Discovery!HasOwnSession(q)' <=> Discovery!HasOwnSession(q)
          /\ Discovery!Cardinality(DOMAIN known') <= MaxSessions
        BY <1>1, <1>6, <2>1, <2>2, SessionChanges
    <2>4. /\ scan' \in Scan /\ scan'.at = "register" /\ scan'.left = scan.left
          /\ scan'.pid = scan.pid /\ scan'.table = scan.table
          /\ scan'.found = scan.found \ {f} /\ scan'.steady = scan.steady
          /\ scan'.settled = scan.settled
          /\ scan'.blind = scan.blind /\ scan'.refused = scan.refused
          /\ scan.masked \subseteq scan'.masked
          /\ Discovery!HasOwnSession(f.pid) \/ f.pid \in scan'.masked
          /\ \/ scan'.placed = scan.placed
             \/ /\ scan'.placed = scan.placed \union {f.pid} /\ f.pane # NoPane
                /\ Discovery!HasOwnSession(f.pid)
        <3>1. CASE ~Discovery!HasOwnSession(f.pid)
            <4>1. scan' = [Rest(f) EXCEPT !.masked = @ \union {f.pid}]
                <5> HIDE DEF Rest
                <5> QED
                    BY <1>2, <1>6, <3>1
            <4> QED
                BY <1>1, <1>2, <1>3, <4>1 DEF Scan
        <3>2. CASE Discovery!HasOwnSession(f.pid) /\ f.pane # NoPane
            <4>1. scan' = [Rest(f) EXCEPT !.placed = @ \union {f.pid}]
                <5> HIDE DEF Rest
                <5> QED
                    BY <1>2, <1>6, <2>1, <3>2
            <4> QED
                BY <1>1, <1>2, <1>3, <3>2, <4>1 DEF Scan
        <3>3. CASE Discovery!HasOwnSession(f.pid) /\ f.pane = NoPane
            BY <1>1, <1>2, <1>3, <1>6, <3>3 DEF Scan
        <3> QED
            BY <3>1, <3>2, <3>3
    <2>5. ASSUME NEW p \in scan.placed \intersect Located
          PROVE  known'[p].pane = PaneOf(p)
        <3>1. p \in DOMAIN known /\ known[p].pane = PaneOf(p)
            BY <1>4 DEF Discovery!HasOwnSession
        <3>2. CASE p = f.pid
            BY <1>3, <2>3, <3>1, <3>2 DEF pane
        <3>3. CASE p # f.pid
            BY <2>3, <3>1, <3>3
        <3> QED
            BY <3>2, <3>3
    <2>6. \A p \in (scan'.placed \ scan.placed) \intersect Located :
             Discovery!HasOwnSession(p)' /\ known'[p].pane = PaneOf(p)
        BY <1>3, <2>3, <2>4 DEF pane
    <2> QED
        BY <1>1, <1>4, <2>3, <2>4, <2>5, <2>6, RegistryChanges
<1>7. CASE f.pid \notin DOMAIN known /\ Discovery!Cardinality(DOMAIN known) >= MaxSessions
    <2>1. known' = known /\ scan' = [Rest(f) EXCEPT !.refused = @ \union {f.pid}]
        BY <1>2, <1>7
    <2>2. /\ scan' \in Scan /\ scan'.at = "register" /\ scan'.left = scan.left
          /\ scan'.pid = scan.pid /\ scan'.table = scan.table
          /\ scan'.found = scan.found \ {f} /\ scan'.steady = scan.steady
          /\ scan'.settled = scan.settled /\ scan'.placed = scan.placed
          /\ scan'.blind = scan.blind /\ scan'.masked = scan.masked
          /\ scan'.refused = scan.refused \union {f.pid}
        BY <1>1, <1>3, <2>1 DEF Scan
    <2>3. \A p : Discovery!HasOwnSession(p)' <=> Discovery!HasOwnSession(p)
        BY <1>1, <2>1, OwnStays
    <2> QED
        BY <1>1, <1>4, <2>1, <2>2, <2>3, RegistryChanges
<1>8. CASE f.pid \notin DOMAIN known /\ ~(Discovery!Cardinality(DOMAIN known) >= MaxSessions)
    <2>1. /\ scan' = [Rest(f) EXCEPT !.placed = @ \union {f.pid}]
          /\ known' = Discovery!Added(f)
        BY <1>2, <1>8
    <2>2. /\ scan' \in Scan /\ scan'.at = "register" /\ scan'.left = scan.left
          /\ scan'.pid = scan.pid /\ scan'.table = scan.table
          /\ scan'.found = scan.found \ {f} /\ scan'.steady = scan.steady
          /\ scan'.settled = scan.settled /\ scan'.placed = scan.placed \union {f.pid}
          /\ scan'.blind = scan.blind /\ scan'.masked = scan.masked
          /\ scan'.refused = scan.refused
        BY <1>1, <1>3, <2>1 DEF Scan
    <2> DEFINE new == [id |-> "pending", pane |-> f.pane,
                       start |-> IF f.pid \in Discovery!Alive THEN procs[f.pid].start ELSE 0]
    <2>3. /\ DOMAIN known' = DOMAIN known \union {f.pid}
          /\ \A p \in DOMAIN known : known'[p] = known[p]
          /\ known'[f.pid] = new
          /\ known' = [p \in DOMAIN known' |-> known'[p]]
        BY <1>8, <2>1 DEF Discovery!Added
    <2>4. new \in Session
        <3>1. f.pid \in Discovery!Alive => procs[f.pid].start \in 1..MaxStarts
            BY DEF DiscoveryInv, DiscoveryTyped, Discovery!TypeOK, Discovery!Alive,
                   Discovery!Process
        <3>2. (IF f.pid \in Discovery!Alive THEN procs[f.pid].start ELSE 0) \in 0..MaxStarts
            BY <3>1, EnvironmentAssumption
        <3> QED
            BY <1>3, <3>2
    <2>5. Discovery!Cardinality(DOMAIN known') <= MaxSessions
        <3>1. IsFiniteSet(Discovery!Pids)
            BY EnvironmentAssumption, FS_Interval DEF Discovery!Pids
        <3>2. IsFiniteSet(DOMAIN known)
            BY <1>4, <3>1, FS_Subset
        <3>3. /\ Cardinality(DOMAIN known) \in Nat
              /\ Cardinality(DOMAIN known \union {f.pid}) = Cardinality(DOMAIN known) + 1
            BY <1>8, <3>2, FS_AddElement, FS_CardinalityType
        <3>4. ~(Cardinality(DOMAIN known) >= MaxSessions)
            BY <1>8, SameCount
        <3> QED
            BY <2>3, <3>3, <3>4, SameCount, EnvironmentAssumption
    <2>6. f.pid \in Discovery!Alive => Discovery!HasOwnSession(f.pid)'
        BY <1>1, <2>3 DEF Discovery!HasOwnSession, Discovery!Alive
    <2>7. \A p : Discovery!HasOwnSession(p) => Discovery!HasOwnSession(p)'
        BY <1>1, <2>3 DEF Discovery!HasOwnSession, Discovery!Alive
    <2>8. \A p \in scan.placed \intersect Located : known'[p].pane = PaneOf(p)
        BY <1>4, <2>3 DEF Discovery!HasOwnSession
    <2>9. \A p \in (scan'.placed \ scan.placed) \intersect Located :
             Discovery!HasOwnSession(p)' /\ known'[p].pane = PaneOf(p)
        <3>1. f.pid \in Located => f.pid \in Discovery!Alive
            BY <1>1 DEF Located
        <3>2. new.pane = f.pane
            OBVIOUS
        <3> HIDE DEF new
        <3> QED
            BY <1>3, <2>2, <2>3, <2>6, <3>1, <3>2
    <2>10. DOMAIN known' \subseteq Discovery!Pids /\ \A p \in DOMAIN known' : known'[p] \in Session
        BY <1>3, <1>4, <2>3, <2>4
    <2> QED
        BY <1>1, <2>2, <2>3, <2>5, <2>6, <2>7, <2>8, <2>9, <2>10, RegistryChanges
<1> QED
    BY <1>5, <1>6, <1>7, <1>8

LEMMA ReconcileStep ==
    ASSUME DiscoveryInv, Discovery!Reconcile
    PROVE  DiscoveryInv'
<1>1. PICK p \in DOMAIN known : known' = [known EXCEPT ![p].id = "real"]
    BY DEF Discovery!Reconcile
<1>2. UNCHANGED <<procs, shells, started, scan>> /\ scan \in Scan
    BY DEF Discovery!Reconcile, DiscoveryInv, DiscoveryTyped
<1>3. /\ known = [q \in DOMAIN known |-> known[q]] /\ DOMAIN known \subseteq Discovery!Pids
      /\ known[p] \in [id : {"pending", "real"}, pane : Discovery!Panes \union {NoPane},
                       start : 0..MaxStarts]
    BY DEF DiscoveryInv, DiscoveryTyped, Discovery!TypeOK
<1> DEFINE pane == known[p].pane
<1>4. known' = [known EXCEPT ![p].id = "real", ![p].pane = pane]
    BY <1>1, <1>3
<1>5. pane \in Discovery!Panes \union {NoPane}
    BY <1>3
<1> HIDE DEF pane
<1>6. /\ known' = [q \in DOMAIN known' |-> known'[q]] /\ DOMAIN known' = DOMAIN known
      /\ \A q \in DOMAIN known' :
            known'[q] \in [id : {"pending", "real"}, pane : Discovery!Panes \union {NoPane},
                           start : 0..MaxStarts]
      /\ known'[p].pane = pane /\ \A q \in DOMAIN known \ {p} : known'[q] = known[q]
      /\ \A q : Discovery!HasOwnSession(q)' <=> Discovery!HasOwnSession(q)
      /\ Discovery!Cardinality(DOMAIN known') <= MaxSessions
    BY <1>2, <1>4, <1>5, SessionChanges
<1>7. \A q \in DOMAIN known : known'[q].pane = known[q].pane
    BY <1>6 DEF pane
<1>8. \A q \in scan.placed \intersect Located : known'[q].pane = PaneOf(q)
    BY <1>7 DEF DiscoveryInv, ScanInv, Discovery!HasOwnSession
<1> QED
    BY <1>2, <1>3, <1>6, <1>8, RegistryChanges

LEMMA CleanupStep ==
    ASSUME DiscoveryInv, Discovery!Cleanup
    PROVE  DiscoveryInv'
<1>1. PICK dead \in SUBSET (DOMAIN known) :
        /\ known' = [p \in DOMAIN known \ dead |-> known[p]]
        /\ \A p \in dead : p \in Discovery!Alive => procs[p].start # known[p].start
        /\ UNCHANGED <<procs, shells, started, scan>>
    BY DEF Discovery!Cleanup
<1>2. scan \in Scan /\ DOMAIN known \subseteq Discovery!Pids
    BY DEF DiscoveryInv, DiscoveryTyped, Discovery!TypeOK
<1>3. /\ DOMAIN known' = DOMAIN known \ dead
      /\ \A p \in DOMAIN known' : known'[p] = known[p]
      /\ known' = [p \in DOMAIN known' |-> known'[p]]
    BY <1>1
<1>4. \A p : Discovery!HasOwnSession(p) => p \in DOMAIN known' /\ Discovery!HasOwnSession(p)'
    BY <1>1, <1>3 DEF Discovery!HasOwnSession, Discovery!Alive
<1>5. \A p \in scan.placed \intersect Located : known'[p].pane = PaneOf(p)
    BY <1>3, <1>4 DEF DiscoveryInv, ScanInv
<1>6. Discovery!Cardinality(DOMAIN known') <= MaxSessions
    <2>1. IsFiniteSet(Discovery!Pids)
        BY EnvironmentAssumption, FS_Interval DEF Discovery!Pids
    <2>2. IsFiniteSet(DOMAIN known)
        BY <1>2, <2>1, FS_Subset
    <2>3. /\ Cardinality(DOMAIN known') <= Cardinality(DOMAIN known)
          /\ Cardinality(DOMAIN known) \in Nat /\ Cardinality(DOMAIN known') \in Nat
        BY <1>3, <2>2, FS_Subset, FS_CardinalityType
    <2>4. Cardinality(DOMAIN known) <= MaxSessions
        BY SameCount DEF DiscoveryInv, DiscoveryTyped, Discovery!TypeOK
    <2> QED
        BY <2>3, <2>4, SameCount, EnvironmentAssumption
<1>7. \A p \in DOMAIN known' :
         known'[p] \in [id : {"pending", "real"}, pane : Discovery!Panes \union {NoPane},
                        start : 0..MaxStarts]
    BY <1>3 DEF DiscoveryInv, DiscoveryTyped, Discovery!TypeOK
<1> QED
    BY <1>1, <1>2, <1>3, <1>4, <1>5, <1>6, <1>7, RegistryChanges

LEMMA DiscoveryStep ==
    ASSUME DiscoveryInv, [Discovery!Next]_processes
    PROVE  DiscoveryInv'
<1>1. CASE UNCHANGED processes
    <2>1. UNCHANGED <<procs, shells, started, known, scan>>
        BY <1>1 DEF processes
    <2>2. /\ scan' = [scan EXCEPT !.steady = scan'.steady, !.settled = scan'.settled]
          /\ scan' \in Scan /\ scan.steady \subseteq Discovery!Alive
          /\ scan.settled \subseteq scan.steady
          /\ Discovery!Alive' = Discovery!Alive
        BY <2>1 DEF DiscoveryInv, DiscoveryTyped, Scan, ScanInv, Discovery!Alive
    <2>3. \A r : Discovery!Below(r)' = Discovery!Below(r)
        BY <2>1 DEF Discovery!Below, Discovery!Family, Discovery!Alive
    <2>4. TableTrue'
        BY <2>1, <2>3 DEF DiscoveryInv, ScanInv, TableTrue, Located
    <2> QED
        BY <2>1, <2>2, <2>4, ScanGoesOn, ScanTyped
<1>2. CASE Discovery!Next
    BY <1>2, StartStep, ExitStep, BeginScanStep, DetectStep, LocateStep, EndStep, RegisterStep,
       ReconcileStep, CleanupStep DEF Discovery!Next
<1> QED
    BY <1>1, <1>2

LEMMA DiscoveryStarts == Discovery!Init => DiscoveryInv
<1> SUFFICES ASSUME Discovery!Init PROVE DiscoveryInv
    OBVIOUS
<1>1. /\ procs = [p \in Discovery!Pids |-> NoProcess] /\ shells = <<>> /\ started = 0
      /\ DOMAIN known = {} /\ known = [p \in DOMAIN known |-> known[p]]
      /\ scan = Discovery!ScanStart
    BY DEF Discovery!Init
<1>2. Discovery!Alive = {}
    BY <1>1 DEF Discovery!Alive
<1>3. shells \in Seq(PidOrNone) /\ Len(shells) = 0 /\ DOMAIN shells = {}
    BY <1>1
<1>4. scan = [at |-> "off", left |-> {}, pid |-> NoPid, table |-> {}, found |-> {},
              steady |-> {}, settled |-> {}, placed |-> {},
              refused |-> {}, masked |-> {}, blind |-> {}]
    BY <1>1 DEF Discovery!ScanStart
<1>5. scan \in Scan
    BY <1>4 DEF Scan, PidOrNone
<1>6. Discovery!Cardinality(DOMAIN known) <= MaxSessions
    BY <1>1, SameCount, FS_EmptySet, EnvironmentAssumption
<1>7. Discovery!TypeOK
    BY <1>1, <1>2, <1>3, <1>4, <1>6, EnvironmentAssumption DEF Discovery!TypeOK
<1>8. 0 \in 0..MaxStarts
    BY EnvironmentAssumption
<1>9. Homes /\ ScanInv
    BY <1>2, <1>3, <1>4 DEF Homes, ScanInv, TableTrue
<1> QED
    BY <1>1, <1>3, <1>5, <1>7, <1>8, <1>9 DEF DiscoveryInv, DiscoveryTyped

LEMMA DiscoveryShows ==
    ASSUME DiscoveryInv
    PROVE  Discovery!SteadyAgentsFound
<1> SUFFICES ASSUME scan.at = "done", NEW p \in scan.steady, Discovery!Recognised(procs[p].look)
             PROVE  /\ Discovery!HasOwnSession(p) \/ p \in scan.refused \union scan.masked
                    /\ p \in (scan.settled \intersect scan.placed) \ scan.blind =>
                          known[p].pane = PaneOf(p)
    BY DEF Discovery!SteadyAgentsFound, PaneOf
<1>1. Discovery!HasOwnSession(p) \/ p \in scan.refused \union scan.masked
    BY DEF DiscoveryInv, ScanInv, Accounted
<1>2. p \in (scan.settled \intersect scan.placed) \ scan.blind => known[p].pane = PaneOf(p)
    BY DEF DiscoveryInv, ScanInv, Located
<1> QED
    BY <1>1, <1>2

LEMMA DiscoveryHolds == Spec => [](area = "discovery" => DiscoveryInv)
<1> DEFINE Inv == area = "discovery" => DiscoveryInv
<1>1. Init => Inv
    BY DiscoveryStarts DEF Init
<1>2. Inv /\ [Next]_vars => Inv'
    <2> SUFFICES ASSUME Inv, [Next]_vars, area' = "discovery" PROVE DiscoveryInv'
        OBVIOUS
    <2>1. area = "discovery" /\ [Discovery!Next]_processes
        BY DEF Next, vars
    <2> QED
        BY <2>1, DiscoveryStep
<1> QED
    BY <1>1, <1>2, PTL DEF Spec

\* discover: an agent that runs from the beginning of a scan to its end has a
\* session of its own then, unless the registry was full or still had an earlier
\* process with its pid; and what the scan places is in the pane whose shell it
\* descends from, if those between them still run.
THEOREM SteadyAgentsAreFound == Spec => []SteadyAgentsFound
<1>1. (area = "discovery" => DiscoveryInv) => SteadyAgentsFound
    BY DiscoveryShows DEF SteadyAgentsFound
<1> QED
    BY <1>1, DiscoveryHolds, PTL

-----------------------------------------------------------------------------
(* Reply and peek: lines and numbers *)

Prompts == PromptReply!Prompts

MaxOf(S) == PromptReply!Max(S)
MinOf(S) == PromptReply!Min(S)

LEMMA MaxIs ==
    ASSUME NEW n \in Nat, NEW S, S \subseteq 0..n, S # {}
    PROVE  MaxOf(S) \in S /\ \A y \in S : MaxOf(S) >= y
<1> DEFINE Low == {k \in Nat : \A T \in SUBSET (0..k) : T # {} => \E x \in T : \A y \in T : x >= y}
<1>1. 0 \in Low
    <2> SUFFICES ASSUME NEW T \in SUBSET (0..0), T # {}
                 PROVE  \E x \in T : \A y \in T : x >= y
        OBVIOUS
    <2>1. PICK x \in T : TRUE
        OBVIOUS
    <2>2. x = 0 /\ \A y \in T : y = 0
        OBVIOUS
    <2>3. \A y \in T : x >= y
        BY <2>2
    <2> QED
        BY <2>1, <2>3
<1>2. ASSUME NEW k \in Nat, k \in Low PROVE k + 1 \in Low
    <2> SUFFICES ASSUME NEW T \in SUBSET (0..(k + 1)), T # {}
                 PROVE  \E x \in T : \A y \in T : x >= y
        OBVIOUS
    <2>1. CASE k + 1 \in T
        BY <2>1
    <2>2. CASE k + 1 \notin T
        <3>1. T \in SUBSET (0..k)
            BY <2>2
        <3> QED
            BY <1>2, <3>1
    <2> QED
        BY <2>1, <2>2
<1>3. n \in Low
    BY <1>1, <1>2, NatInductive
<1>4. \E x \in S : \A y \in S : x >= y
    BY <1>3
<1> QED
    BY <1>4, Zenon DEF MaxOf, PromptReply!Max

LEMMA MinIs ==
    ASSUME NEW n \in Nat, NEW S, S \subseteq 0..n, S # {}
    PROVE  MinOf(S) \in S /\ \A y \in S : MinOf(S) <= y
<1> DEFINE T == {n - x : x \in S}
<1>1. T \subseteq 0..n /\ T # {}
    <2>1. \A x \in S : n - x \in 0..n
        OBVIOUS
    <2> QED
        BY <2>1
<1>2. MaxOf(T) \in T /\ \A y \in T : MaxOf(T) >= y
    BY <1>1, MaxIs
<1>3. PICK x \in S : MaxOf(T) = n - x
    BY <1>2
<1>4. \A y \in S : n - y \in T
    OBVIOUS
<1> HIDE DEF T
<1>5. \A y \in S : x <= y
    BY <1>2, <1>3, <1>4
<1>6. \E z \in S : \A y \in S : z =< y
    BY <1>5
<1> QED
    BY <1>6, Zenon DEF MinOf, PromptReply!Min

LEMMA Joined ==
    ASSUME NEW S, NEW s \in Seq(S), NEW u \in Seq(S)
    PROVE  /\ s \o u \in Seq(S) /\ Len(s \o u) = Len(s) + Len(u)
           /\ \A i \in 1..Len(s) : (s \o u)[i] = s[i]
           /\ \A i \in 1..Len(u) : (s \o u)[Len(s) + i] = u[i]
<1>1. Len(s) \in Nat /\ Len(u) \in Nat
    OBVIOUS
<1>2. ASSUME NEW i \in 1..Len(u) PROVE (s \o u)[Len(s) + i] = u[i]
    <2>1. Len(s) + i \in 1..(Len(s) + Len(u)) /\ ~(Len(s) + i <= Len(s)) /\ Len(s) + i - Len(s) = i
        BY <1>1
    <2> QED
        BY <2>1, ConcatProperties
<1>3. ASSUME NEW i \in 1..Len(s) PROVE (s \o u)[i] = s[i]
    <2>1. i \in 1..(Len(s) + Len(u)) /\ i <= Len(s)
        BY <1>1
    <2> QED
        BY <2>1, ConcatProperties
<1> QED
    BY <1>2, <1>3, ConcatProperties

LEMMA MostIs ==
    /\ PromptReply!MostOptions \in Nat
    /\ OptionCounts \subseteq 0..PromptReply!MostOptions
<1>1. PromptReply!MostOptions \in OptionCounts
      /\ \A m \in OptionCounts : m <= PromptReply!MostOptions
    BY EnvironmentAssumption DEF PromptReply!MostOptions
<1> QED
    BY <1>1, EnvironmentAssumption

\* A prompt with options: where its lines are.
Numbered(p) == p.options # 0
Titled(p) == IF p.titled THEN 1 ELSE 0

Kinds == {"title", "question", "blank", "option", "cursor", "indented", "footer"}

AnyLine == LineKinds \union [kind : Kinds, number : Nat]

LEMMA PromptTyped ==
    ASSUME NEW p \in Prompts
    PROVE  /\ p.titled \in BOOLEAN /\ p.options \in 0..PromptReply!MostOptions
           /\ p.cursor \in 1..PromptReply!MostOptions /\ p.options \in Nat /\ p.cursor \in Nat
           /\ p.options # 0 => p.cursor \in 1..p.options
           /\ p.options = 0 => ~p.titled
           /\ p # NoPrompt
           /\ p = [titled |-> p.titled, options |-> p.options, cursor |-> p.cursor]
<1> DEFINE All == [titled : BOOLEAN, options : OptionCounts, cursor : 1..PromptReply!MostOptions]
<1>1. p \in All /\ IF p.options = 0 THEN ~p.titled /\ p.cursor = 1 ELSE p.cursor <= p.options
    BY DEF PromptReply!Prompts, Prompts
<1>2. /\ p.titled \in BOOLEAN /\ p.options \in OptionCounts
      /\ p.cursor \in 1..PromptReply!MostOptions
      /\ p = [titled |-> p.titled, options |-> p.options, cursor |-> p.cursor]
    BY <1>1
<1>3. p.options \in 0..PromptReply!MostOptions
    BY <1>2, MostIs
<1>4. p # NoPrompt
    BY EnvironmentAssumption DEF Prompts
<1> HIDE DEF All
<1>5. PromptReply!MostOptions \in Nat
    BY MostIs
<1> QED
    BY <1>1, <1>2, <1>3, <1>4, <1>5

\* Line j of a numbered prompt.
LineAt(p, j) ==
    LET t == Titled(p)
        n == 2 * p.options
        i == j - t - 2
    IN  IF j <= t THEN PromptReply!Line("title")
        ELSE IF j = t + 1 THEN PromptReply!Line("question")
        ELSE IF j = t + 2 THEN PromptReply!Line("blank")
        ELSE IF j <= t + 2 + n
        THEN IF i % 2 = 0 THEN PromptReply!Line("indented")
             ELSE IF i = 2 * p.cursor - 1 THEN PromptReply!Cursor(p.cursor)
             ELSE PromptReply!Option((i + 1) \div 2)
        ELSE IF j = t + 2 + n + 1 THEN PromptReply!Line("blank")
        ELSE PromptReply!Line("footer")

LEMMA LinesAre ==
    ASSUME NEW p \in Prompts, Numbered(p)
    PROVE  LET L == PromptReply!PromptLines(p)
           IN  /\ L \in Seq(AnyLine) /\ Len(L) = Titled(p) + 2 * p.options + 4
               /\ \A j \in 1..Len(L) : L[j] = LineAt(p, j)
<1> DEFINE L == PromptReply!PromptLines(p)
           t == Titled(p)
           n == 2 * p.options
           Opt(i) == IF i % 2 = 0 THEN PromptReply!Line("indented")
                     ELSE IF i = 2 * p.cursor - 1 THEN PromptReply!Cursor(p.cursor)
                     ELSE PromptReply!Option((i + 1) \div 2)
           Head4 == IF p.titled THEN <<PromptReply!Line("title")>> ELSE <<>>
           Ask == <<PromptReply!Line("question"), PromptReply!Line("blank")>>
           Opts == [i \in 1..n |-> Opt(i)]
           Foot == <<PromptReply!Line("blank"), PromptReply!Line("footer")>>
<1>1. L = Head4 \o Ask \o Opts \o Foot
    BY PromptTyped DEF PromptReply!PromptLines, Numbered
<1>2. n \in Nat /\ t \in {0, 1}
    BY PromptTyped DEF Titled
<1>3. \A k \in Kinds : PromptReply!Line(k) \in AnyLine
    BY DEF PromptReply!Line, AnyLine
<1>4. /\ Head4 \in Seq(AnyLine) /\ Len(Head4) = t
      /\ \A j \in 1..t : Head4[j] = PromptReply!Line("title")
    BY <1>3 DEF Titled, Kinds
<1>5. Ask \in Seq(AnyLine) /\ Len(Ask) = 2 /\ Foot \in Seq(AnyLine) /\ Len(Foot) = 2
      /\ Ask[1] = PromptReply!Line("question") /\ Ask[2] = PromptReply!Line("blank")
      /\ Foot[1] = PromptReply!Line("blank") /\ Foot[2] = PromptReply!Line("footer")
    BY <1>3 DEF Kinds
<1>6. ASSUME NEW i \in 1..n PROVE Opt(i) \in AnyLine
    <2>1. PromptReply!Cursor(p.cursor) \in AnyLine
        BY PromptTyped DEF PromptReply!Cursor, AnyLine, Kinds
    <2>2. (i + 1) \div 2 \in Nat
        BY <1>2
    <2>3. PromptReply!Option((i + 1) \div 2) \in AnyLine
        BY <2>2 DEF PromptReply!Option, AnyLine, Kinds
    <2> QED
        BY <1>3, <2>1, <2>3 DEF Kinds
<1> HIDE DEF L, n, t, Head4, Ask, Foot, Opt
<1>7. Opts \in Seq(AnyLine) /\ Len(Opts) = n /\ \A i \in 1..n : Opts[i] = Opt(i)
    BY <1>2, <1>6
<1> HIDE DEF Opts
<1> DEFINE Top == Head4 \o Ask
           Most == Top \o Opts
<1>8. /\ Top \in Seq(AnyLine) /\ Len(Top) = t + 2
      /\ \A j \in 1..(t + 2) : Top[j] = IF j <= t THEN Head4[j] ELSE Ask[j - t]
    <2>1. Head4 \in Seq(AnyLine) /\ Ask \in Seq(AnyLine) /\ Len(Head4) = t /\ Len(Ask) = 2
        BY <1>4, <1>5
    <2>2. /\ Top \in Seq(AnyLine) /\ Len(Top) = Len(Head4) + Len(Ask)
          /\ \A j \in 1..(Len(Head4) + Len(Ask)) :
                Top[j] = IF j <= Len(Head4) THEN Head4[j] ELSE Ask[j - Len(Head4)]
        BY <2>1, ConcatProperties, Zenon
    <2> QED
        BY <2>1, <2>2
<1> HIDE DEF Top
<1>9. /\ Most \in Seq(AnyLine) /\ Len(Most) = t + 2 + n
      /\ \A j \in 1..(t + 2 + n) : Most[j] = IF j <= t + 2 THEN Top[j] ELSE Opts[j - (t + 2)]
    BY <1>2, <1>7, <1>8, ConcatProperties
<1> HIDE DEF Most
<1>10. /\ Most \o Foot \in Seq(AnyLine) /\ Len(Most \o Foot) = t + 2 + n + 2
       /\ \A j \in 1..(t + 2 + n + 2) :
             (Most \o Foot)[j] = IF j <= t + 2 + n THEN Most[j] ELSE Foot[j - (t + 2 + n)]
    <2>1. Foot \in Seq(AnyLine) /\ Most \in Seq(AnyLine)
          /\ Len(Most) = t + 2 + n /\ Len(Foot) = 2
        BY <1>5, <1>9
    <2>2. /\ Most \o Foot \in Seq(AnyLine) /\ Len(Most \o Foot) = Len(Most) + Len(Foot)
          /\ \A j \in 1..(Len(Most) + Len(Foot)) :
                (Most \o Foot)[j] = IF j <= Len(Most) THEN Most[j] ELSE Foot[j - Len(Most)]
        BY <2>1, ConcatProperties, Zenon
    <2> QED
        BY <2>1, <2>2
<1>11. L = Most \o Foot
    BY <1>1 DEF Most, Top
<1>12. ASSUME NEW j \in 1..(t + 2 + n + 2)
       PROVE  L[j] = LineAt(p, j)
    <2>1. LineAt(p, j) =
            IF j <= t THEN PromptReply!Line("title")
            ELSE IF j = t + 1 THEN PromptReply!Line("question")
            ELSE IF j = t + 2 THEN PromptReply!Line("blank")
            ELSE IF j <= t + 2 + n THEN Opt(j - t - 2)
            ELSE IF j = t + 2 + n + 1 THEN PromptReply!Line("blank")
            ELSE PromptReply!Line("footer")
        BY DEF LineAt, t, n, Opt
    <2>2. CASE j <= t
        BY <1>2, <1>4, <1>8, <1>9, <1>10, <1>11, <2>1, <2>2
    <2>3. CASE j \in {t + 1, t + 2}
        <3>1. j - t \in {1, 2} /\ j \in 1..(t + 2) /\ ~(j <= t) /\ j <= t + 2
            BY <1>2, <2>3
        <3>2. L[j] = Ask[j - t]
            BY <1>2, <1>8, <1>9, <1>10, <1>11, <3>1
        <3> QED
            BY <1>2, <1>5, <2>1, <2>3, <3>1, <3>2
    <2>4. CASE j > t + 2 /\ j <= t + 2 + n
        <3>1. j - (t + 2) \in 1..n /\ j - (t + 2) = j - t - 2
            BY <1>2, <2>4
        <3>2. L[j] = Opts[j - (t + 2)]
            BY <1>2, <1>9, <1>10, <1>11, <2>4
        <3> QED
            BY <1>2, <1>7, <2>1, <2>4, <3>1, <3>2
    <2>5. CASE j > t + 2 + n
        <3>1. j - (t + 2 + n) \in {1, 2}
            BY <1>2, <2>5
        <3>2. L[j] = Foot[j - (t + 2 + n)]
            BY <1>2, <1>10, <1>11, <2>5
        <3> QED
            BY <1>2, <1>5, <2>1, <2>5, <3>1, <3>2
    <2> QED
        BY <1>2, <2>2, <2>3, <2>4, <2>5
<1>13. L \in Seq(AnyLine) /\ Len(L) = t + n + 4
    BY <1>2, <1>10, <1>11
<1> QED
    BY <1>2, <1>12, <1>13 DEF L, t, n
\* What reply and peek rest on of the lines of a prompt: its last line is a footer;
\* one line has the cursor; what is between the title and the footer is part of it.
LEMMA PromptShape ==
    ASSUME NEW p \in Prompts
    PROVE  LET L == PromptReply!PromptLines(p)
           IN  /\ L \in Seq(AnyLine) /\ Len(L) \in Nat \ {0}
               /\ L[Len(L)].kind = "footer" /\ L[1].kind \notin {"blank", "separator"}
               /\ p.options = 0 => Len(L) = 1
               /\ p.options # 0 => \E c \in 1..Len(L) :
                     /\ L[c].kind = "cursor" /\ L[c].number = p.cursor
                     /\ \A j \in 1..Len(L) : L[j].kind = "cursor" => j = c
               /\ p.options <= 9 /\ p.cursor <= 5 => \A j \in 1..(Len(L) - 1) :
                     /\ PromptReply!PartOfPrompt(L[j]) \/ L[j].kind = "title"
                     /\ j > 1 => PromptReply!PartOfPrompt(L[j]) /\ L[j].kind # "title"
<1> DEFINE L == PromptReply!PromptLines(p)
<1>1. CASE p.options = 0
    <2>1. L = <<PromptReply!Line("footer")>>
        BY <1>1, PromptTyped DEF PromptReply!PromptLines
    <2>2. PromptReply!Line("footer") \in AnyLine /\ PromptReply!Line("footer").kind = "footer"
        BY DEF PromptReply!Line, AnyLine, Kinds
    <2> HIDE DEF L
    <2>3. L \in Seq(AnyLine) /\ Len(L) = 1 /\ L[1].kind = "footer"
        BY <2>1, <2>2
    <2> QED
        BY <1>1, <2>3 DEF L
<1>2. CASE p.options # 0
    <2> DEFINE t == Titled(p)
               n == 2 * p.options
    <2>1. /\ L \in Seq(AnyLine) /\ Len(L) = t + n + 4
          /\ \A j \in 1..Len(L) : L[j] = LineAt(p, j)
        BY <1>2, LinesAre DEF Numbered
    <2>2. /\ p.options \in Nat \ {0} /\ t \in {0, 1} /\ p.cursor \in 1..p.options
        BY <1>2, PromptTyped DEF Titled
    <2> HIDE DEF L
    <2> DEFINE c == t + 2 + (2 * p.cursor - 1)
    <2>3. /\ c \in 1..Len(L) /\ LineAt(p, c) = PromptReply!Cursor(p.cursor)
        <3>1. c \in 1..Len(L) /\ ~(c <= t) /\ c # t + 1 /\ c # t + 2 /\ c <= t + 2 + n
              /\ c - t - 2 = 2 * p.cursor - 1
            <4>1. PICK k \in Nat : k = p.cursor
                BY <2>2
            <4>2. PICK o \in Nat : o = p.options
                BY <2>2
            <4>3. PICK u \in {0, 1} : u = t
                BY <2>2
            <4>4. k \in 1..o /\ Len(L) = u + 2 * o + 4 /\ c = u + 2 + (2 * k - 1) /\ n = 2 * o
                BY <2>1, <2>2, <4>1, <4>2, <4>3
            <4> HIDE DEF c, t, n
            <4>5. c \in Nat /\ 1 <= c /\ c <= Len(L) /\ Len(L) \in Nat
                BY <4>4
            <4>6. c \in 1..Len(L)
                BY <4>5
            <4>7. c > u + 2 /\ c <= u + 2 + n /\ u \in Int /\ c \in Int
                BY <4>4
            <4>8. ~(c <= u) /\ c # u + 1 /\ c # u + 2
                BY <4>7
            <4>9. c - u - 2 = 2 * k - 1
                BY <4>4
            <4> QED
                BY <4>1, <4>3, <4>6, <4>7, <4>8, <4>9, Zenon
        <3>2. ~((c - t - 2) % 2 = 0)
            BY <2>2, <3>1
        <3> HIDE DEF c
        <3> QED
            BY <3>1, <3>2 DEF LineAt
    <2> HIDE DEF c
    <2>4. L[c].kind = "cursor" /\ L[c].number = p.cursor
        BY <2>1, <2>3 DEF PromptReply!Cursor
    <2>5. ASSUME NEW j \in 1..Len(L)
          PROVE  /\ j # c => LineAt(p, j).kind # "cursor"
                 /\ j <= t => LineAt(p, j).kind = "title"
                 /\ j = t + 1 => LineAt(p, j).kind = "question"
                 /\ j > t => LineAt(p, j).kind # "title"
                 /\ j > t /\ j < Len(L) =>
                       \/ LineAt(p, j).kind \in {"question", "blank", "indented"}
                       \/ LineAt(p, j).kind = "option" /\ LineAt(p, j).number <= p.options
                       \/ LineAt(p, j) = PromptReply!Cursor(p.cursor)
                 /\ j = Len(L) => LineAt(p, j).kind = "footer"
        <3>1. j \in Int /\ n \in Nat /\ t \in {0, 1} /\ p.cursor \in Nat
            BY <2>1, <2>2
        <3>2. CASE j <= t
            <4>1. LineAt(p, j) = PromptReply!Line("title") /\ ~(j > t) /\ j # t + 1 /\ j # Len(L)
                BY <2>1, <3>1, <3>2 DEF LineAt
            <4> QED
                BY <4>1 DEF PromptReply!Line
        <3>3. CASE j = t + 1
            <4>1. LineAt(p, j) = PromptReply!Line("question") /\ ~(j <= t) /\ j # Len(L)
                BY <2>1, <3>1, <3>3 DEF LineAt
            <4> QED
                BY <4>1 DEF PromptReply!Line
        <3>4. CASE j = t + 2
            <4>1. LineAt(p, j) = PromptReply!Line("blank") /\ ~(j <= t) /\ j # t + 1 /\ j # Len(L)
                BY <2>1, <3>1, <3>4 DEF LineAt
            <4> QED
                BY <4>1 DEF PromptReply!Line
        <3>5. CASE j > t + 2 /\ j <= t + 2 + n
            <4> DEFINE i == j - t - 2
            <4>1. ~(j <= t) /\ j # t + 1 /\ j # t + 2 /\ j # Len(L) /\ i \in Int
                BY <2>1, <3>1, <3>5
            <4>2. LineAt(p, j) = IF i % 2 = 0 THEN PromptReply!Line("indented")
                                 ELSE IF i = 2 * p.cursor - 1 THEN PromptReply!Cursor(p.cursor)
                                 ELSE PromptReply!Option((i + 1) \div 2)
                BY <3>5, <4>1 DEF LineAt
            <4>3. i = 2 * p.cursor - 1 => j = c
                BY <3>1 DEF c
            <4> HIDE DEF i
            <4>4. \/ LineAt(p, j) = PromptReply!Line("indented")
                  \/ LineAt(p, j) = PromptReply!Cursor(p.cursor) /\ j = c
                  \/ LineAt(p, j) = PromptReply!Option((i + 1) \div 2)
                BY <4>2, <4>3, Zenon
            <4>5. (i + 1) \div 2 <= p.options
                <5>1. i <= 2 * p.options /\ i \in Int /\ p.options \in Nat
                    BY <2>2, <3>1, <3>5 DEF i
                <5> QED
                    BY <5>1
            <4> QED
                BY <4>1, <4>4, <4>5 DEF PromptReply!Line, PromptReply!Option, PromptReply!Cursor
        <3>6. CASE j = t + 2 + n + 1
            <4>1. LineAt(p, j) = PromptReply!Line("blank") /\ ~(j <= t) /\ j # t + 1 /\ j # Len(L)
                BY <2>1, <3>1, <3>6 DEF LineAt
            <4> QED
                BY <4>1 DEF PromptReply!Line
        <3>7. CASE j > t + 2 + n + 1
            <4>1. LineAt(p, j) = PromptReply!Line("footer") /\ ~(j <= t) /\ j # t + 1 /\ ~(j < Len(L))
                <5>1. j = t + n + 4
                    BY <2>1, <3>1, <3>7
                <5> QED
                    BY <2>1, <3>1, <3>7, <5>1 DEF LineAt
            <4> QED
                BY <4>1 DEF PromptReply!Line
        <3> QED
            BY <3>1, <3>2, <3>3, <3>4, <3>5, <3>6, <3>7
    <2>6. L[1].kind \in {"title", "question"}
        <3>1. 1 \in 1..Len(L) /\ (1 <= t \/ 1 = t + 1)
            BY <2>1, <2>2
        <3>2. L[1] = LineAt(p, 1)
            BY <2>1, <3>1
        <3> QED
            BY <2>5, <3>1, <3>2
    <2>7. ASSUME p.options <= 9, p.cursor <= 5, NEW j \in 1..(Len(L) - 1)
          PROVE  /\ PromptReply!PartOfPrompt(L[j]) \/ L[j].kind = "title"
                 /\ j > 1 => PromptReply!PartOfPrompt(L[j]) /\ L[j].kind # "title"
        <3>1. j \in 1..Len(L) /\ j < Len(L)
            BY <2>1, <2>2
        <3>2. j > t => PromptReply!PartOfPrompt(L[j]) /\ L[j].kind # "title"
            <4> SUFFICES ASSUME j > t
                         PROVE  PromptReply!PartOfPrompt(L[j]) /\ L[j].kind # "title"
                OBVIOUS
            <4>1. \/ L[j].kind \in {"question", "blank", "indented"}
                  \/ L[j].kind = "option" /\ L[j].number <= p.options
                  \/ L[j] = PromptReply!Cursor(p.cursor)
                BY <2>1, <2>5, <3>1
            <4>2. CASE L[j].kind \in {"question", "blank", "indented"}
                BY <4>2 DEF PromptReply!PartOfPrompt
            <4>3. CASE L[j].kind = "option" /\ L[j].number <= p.options
                <5>1. L[j].number \in Nat
                    BY <2>1, <3>1, EnvironmentAssumption DEF AnyLine
                <5>2. L[j].number <= 9
                    BY <2>2, <2>7, <4>3, <5>1
                <5> QED
                    BY <4>3, <5>2 DEF PromptReply!PartOfPrompt
            <4>4. CASE L[j] = PromptReply!Cursor(p.cursor)
                BY <2>7, <4>4 DEF PromptReply!PartOfPrompt, PromptReply!Cursor
            <4> QED
                BY <4>1, <4>2, <4>3, <4>4
        <3>3. ~(j > t) => L[j].kind = "title" /\ j = 1
            <4>1. ~(j > t) => j <= t /\ j = 1
                BY <2>2, <3>1
            <4> QED
                BY <2>1, <2>5, <3>1, <4>1
        <3> QED
            BY <2>2, <3>2, <3>3
    <2>8. Len(L) \in Nat \ {0} /\ L[Len(L)].kind = "footer"
        BY <2>1, <2>2, <2>5
    <2>9. \A j \in 1..Len(L) : L[j].kind = "cursor" => j = c
        BY <2>1, <2>5
    <2> QED
        BY <1>2, <2>1, <2>3, <2>4, <2>6, <2>7, <2>8, <2>9 DEF L
<1> QED
    BY <1>1, <1>2

-----------------------------------------------------------------------------
(* Reply and peek: invariants *)

KeyNames == {"C-c", "text", "Enter", "Escape", "Down", "Up"}

Stages == {"off", "fetch", "act", "keys", "done", "failed"}

Asked(does, stage, pane, keys, saw, moved, shown) ==
    [does |-> does, at |-> stage, pane |-> pane, keys |-> keys, saw |-> saw, moved |-> moved,
     shown |-> shown]

RequestTyped ==
    /\ request.does \in PromptReply!Does
    /\ request.at \in Stages
    /\ request.pane \in {AgentPane, OtherPane, NoPane}
    /\ request.keys \in Seq(KeyNames)
    /\ request.at = "keys" => request.does.what # "peek"
    /\ request.saw \in Prompts \union {NoPrompt}
    /\ request.moved \in Nat
    /\ request = Asked(request.does, request.at, request.pane,
                       request.keys, request.saw, request.moved, request.shown)

PromptInv ==
    /\ above \in Seq(LineKinds) /\ Len(above) <= LinesAbove
    /\ prompt \in Prompts \union {NoPrompt}
    /\ answer \in PromptReply!Options \union {NoAnswer}
    /\ RequestTyped

\* reply selects an option of the prompt that it has read.
Replying == request.does.what = "option" /\ request.saw # NoPrompt
            /\ request.does.option \in 1..request.saw.options

\* Two lines of the list are no farther from each other than the user has moved
\* the cursor.
Near(c, v, moved) == c - v <= moved /\ v - c <= moved

\* The answer is one of the prompt's options and as near to the one asked for.
Answered(a, does, saw, moved) == a \in 1..saw.options /\ Near(a, does.option, moved)

\* The keys that are left lead to the option from where the cursor would be if the
\* user had not moved it, and each key brings the two no farther apart.
OnCourse(keys, p, does, saw, moved) ==
    /\ p \in Prompts /\ p.options = saw.options
    /\ \E v \in 1..saw.options :
          keys = PromptReply!KeysTo(does.option, v) /\ Near(p.cursor, v, moved)

ReplyInv ==
    Replying =>
       /\ request.at = "keys" =>
             \/ /\ request.keys = <<>>
                /\ Answered(answer, request.does, request.saw, request.moved)
             \/ /\ PromptReply!Here
                /\ OnCourse(request.keys, prompt, request.does, request.saw, request.moved)
       /\ request.at = "done" => Answered(answer, request.does, request.saw, request.moved)

LEMMA CapturedIs ==
    ASSUME PromptInv, prompt # NoPrompt
    PROVE  /\ PromptReply!Captured = above \o PromptReply!PromptLines(prompt)
           /\ above \in Seq(AnyLine)
<1> DEFINE L == PromptReply!PromptLines(prompt)
           lined == above \o L
           inked == {i \in DOMAIN lined : lined[i].kind # "blank"}
<1>1. prompt \in Prompts
    BY DEF PromptInv
<1>2. L \in Seq(AnyLine) /\ Len(L) \in Nat \ {0} /\ L[Len(L)].kind = "footer"
    BY <1>1, PromptShape
<1>3. above \in Seq(AnyLine)
    BY DEF PromptInv, AnyLine
<1> HIDE DEF L
<1>4. /\ lined \in Seq(AnyLine) /\ Len(lined) = Len(above) + Len(L)
      /\ lined[Len(above) + Len(L)] = L[Len(L)] /\ Len(above) \in Nat
    BY <1>2, <1>3, Joined
<1>5. PromptReply!Captured = SubSeq(lined, 1, PromptReply!Max(inked \union {0}))
    BY DEF PromptReply!Captured, L
<1> HIDE DEF lined
<1>6. DOMAIN lined = 1..Len(lined) /\ Len(lined) \in Nat \ {0}
    BY <1>2, <1>4
<1>7. Len(lined) \in inked
    BY <1>2, <1>4, <1>6
<1>8. inked \union {0} \subseteq 0..Len(lined)
    BY <1>6
<1> HIDE DEF inked
<1>9. MaxOf(inked \union {0}) = Len(lined)
    <2> DEFINE m == MaxOf(inked \union {0})
    <2>1. m \in inked \union {0} /\ \A y \in inked \union {0} : m >= y
        BY <1>6, <1>8, MaxIs
    <2> HIDE DEF m
    <2>2. m >= Len(lined) /\ m \in 0..Len(lined)
        BY <1>7, <1>8, <2>1
    <2>3. ASSUME NEW l \in Nat, NEW k \in 0..l, k >= l PROVE k = l
        BY <2>3
    <2>4. m = Len(lined)
        BY <1>6, <2>2, <2>3
    <2> QED
        BY <2>4 DEF m
<1>10. SubSeq(lined, 1, Len(lined)) = lined
    BY <1>4, SubSeqFull
<1> QED
    BY <1>3, <1>5, <1>9, <1>10 DEF MaxOf, lined, L

\* What reply reads is a number.
LEMMA SelectedTyped ==
    ASSUME PromptInv
    PROVE  PromptReply!find_selected_option(PromptReply!Captured) \in Nat
<1> DEFINE L == PromptReply!PromptLines(prompt)
           lined == above \o L
           inked == {i \in DOMAIN lined : lined[i].kind # "blank"}
           last == MaxOf(inked \union {0})
           lines == PromptReply!Captured
           cursors == {i \in DOMAIN lines : lines[i].kind = "cursor"}
<1>1. L \in Seq(AnyLine)
    <2>1. CASE prompt \in Prompts
        BY <2>1, PromptShape
    <2>2. CASE prompt = NoPrompt
        BY <2>2 DEF PromptReply!PromptLines
    <2> QED
        BY <2>1, <2>2 DEF PromptInv
<1>2. above \in Seq(AnyLine)
    BY DEF PromptInv, AnyLine
<1>3. lines = SubSeq(lined, 1, last)
    BY DEF PromptReply!Captured, MaxOf
<1> HIDE DEF L
<1>4. lined \in Seq(AnyLine)
    BY <1>1, <1>2
<1> HIDE DEF lined
<1>5. DOMAIN lined = 1..Len(lined) /\ Len(lined) \in Nat
    BY <1>4
<1>6. last \in 0..Len(lined)
    <2>1. inked \union {0} \subseteq 0..Len(lined) /\ inked \union {0} # {}
        BY <1>5
    <2> HIDE DEF inked
    <2>2. last \in inked \union {0}
        BY <1>5, <2>1, MaxIs
    <2> QED
        BY <2>1, <2>2
<1> HIDE DEF inked, last, lines
<1>7. lines \in Seq(AnyLine)
    <2>1. last \in Int /\ 1 \in Int /\ \A i \in 1..last : lined[i] \in AnyLine
        BY <1>4, <1>5, <1>6
    <2> QED
        BY <1>3, <2>1, SubSeqProperties
<1>8. DOMAIN lines = 1..Len(lines) /\ Len(lines) \in Nat
    BY <1>7
<1>9. PromptReply!find_selected_option(lines)
        = IF cursors = {} THEN 1 ELSE lines[MinOf(cursors)].number
    BY DEF PromptReply!find_selected_option, MinOf
<1>10. CASE cursors = {}
    BY <1>9, <1>10 DEF lines
<1>11. CASE cursors # {}
    <2>1. cursors \subseteq 0..Len(lines)
        BY <1>8
    <2>2. MinOf(cursors) \in cursors
        BY <1>8, <1>11, <2>1, MinIs
    <2>3. lines[MinOf(cursors)] \in AnyLine
        BY <1>7, <1>8, <2>2
    <2>4. \A line \in AnyLine : line.number \in Nat
        BY EnvironmentAssumption DEF AnyLine
    <2> QED
        BY <1>9, <1>11, <2>3, <2>4 DEF lines
<1> QED
    BY <1>10, <1>11

\* reply finds the cursor of the prompt, if no other is above it.
LEMMA CursorFound ==
    ASSUME PromptInv, prompt # NoPrompt, prompt.options # 0, PromptReply!OnlyCursor
    PROVE  PromptReply!find_selected_option(PromptReply!Captured) = prompt.cursor
<1> DEFINE L == PromptReply!PromptLines(prompt)
           lined == above \o L
           cursors == {i \in DOMAIN lined : lined[i].kind = "cursor"}
<1>1. prompt \in Prompts
    BY DEF PromptInv
<1>2. PICK c \in 1..Len(L) : /\ L[c].kind = "cursor" /\ L[c].number = prompt.cursor
                             /\ \A j \in 1..Len(L) : L[j].kind = "cursor" => j = c
    BY <1>1, PromptShape
<1>3. L \in Seq(AnyLine)
    BY <1>1, PromptShape
<1>4. PromptReply!Captured = lined /\ above \in Seq(AnyLine)
    BY CapturedIs
<1> HIDE DEF L
<1>5. /\ lined \in Seq(AnyLine) /\ Len(lined) = Len(above) + Len(L)
      /\ \A i \in 1..Len(above) : lined[i] = above[i]
      /\ \A i \in 1..Len(L) : lined[Len(above) + i] = L[i]
    BY <1>3, <1>4, Joined
<1> HIDE DEF lined
<1>6. DOMAIN lined = 1..Len(lined) /\ Len(above) \in Nat /\ Len(L) \in Nat
    BY <1>3, <1>4, <1>5
<1>7. \A i \in 1..Len(above) : above[i].kind # "cursor"
    BY <1>4 DEF PromptReply!OnlyCursor
<1>8. ASSUME NEW i \in DOMAIN lined, lined[i].kind = "cursor"
      PROVE  i = Len(above) + c
    <2>1. ~(i <= Len(above))
        BY <1>5, <1>6, <1>7, <1>8
    <2>2. i - Len(above) \in 1..Len(L) /\ i = Len(above) + (i - Len(above))
        BY <1>5, <1>6, <2>1
    <2>3. lined[i] = L[i - Len(above)]
        BY <1>5, <2>2
    <2>4. i - Len(above) = c
        BY <1>2, <1>8, <2>2, <2>3
    <2> QED
        BY <1>6, <2>2, <2>4
<1>9. Len(above) + c \in DOMAIN lined /\ lined[Len(above) + c] = L[c]
    BY <1>5, <1>6
<1>10. cursors = {Len(above) + c}
    BY <1>2, <1>8, <1>9
<1>11. MinOf(cursors) = Len(above) + c
    <2>1. Len(above) + c \in Nat
        BY <1>6
    <2>2. cursors \subseteq 0..(Len(above) + c) /\ cursors # {}
        BY <1>10, <2>1
    <2>3. MinOf(cursors) \in cursors
        BY <2>1, <2>2, MinIs
    <2> QED
        BY <1>10, <2>3
<1>12. PromptReply!find_selected_option(lined)
         = IF cursors = {} THEN 1 ELSE lined[MinOf(cursors)].number
    BY DEF PromptReply!find_selected_option, MinOf
<1> QED
    BY <1>2, <1>4, <1>9, <1>10, <1>11, <1>12

\* A screen from somewhere above the prompt on ends with the prompt.
LEMMA SuffixFrom ==
    ASSUME NEW S, NEW u \in Seq(S), NEW v \in Seq(S), NEW k \in 1..(Len(u) + 1)
    PROVE  PromptReply!IsSuffix(v, SubSeq(u \o v, k, Len(u \o v)))
<1> DEFINE w == u \o v
           N == Len(w)
           x == SubSeq(w, k, N)
           m == Len(v)
<1>1. w \in Seq(S) /\ N = Len(u) + m /\ \A i \in 1..m : w[Len(u) + i] = v[i]
    BY Joined
<1>2. Len(u) \in Nat /\ m \in Nat /\ N \in Nat /\ k \in Nat /\ k >= 1 /\ k <= Len(u) + 1
    BY <1>1
<1> HIDE DEF w, N
<1>3. \A i \in k..N : w[i] \in S
    <2>1. \A i \in 1..N : w[i] \in S
        BY <1>1 DEF N
    <2> QED
        BY <1>2, <2>1
<1>4. /\ x \in Seq(S) /\ Len(x) = IF k <= N THEN N - k + 1 ELSE 0
      /\ \A i \in 1..(N - k + 1) : x[i] = w[k + i - 1]
    BY <1>2, <1>3, SubSeqProperties
<1>5. Len(x) = N - k + 1
    BY <1>1, <1>2, <1>4
<1> HIDE DEF x
<1>6. ASSUME NEW i \in 1..m PROVE x[Len(x) - i + 1] = v[m - i + 1]
    <2>1. /\ Len(x) - i + 1 \in 1..(N - k + 1) /\ m - i + 1 \in 1..m
          /\ k + (Len(x) - i + 1) - 1 = Len(u) + (m - i + 1)
        BY <1>1, <1>2, <1>5
    <2>2. x[Len(x) - i + 1] = w[k + (Len(x) - i + 1) - 1]
        BY <1>4, <2>1
    <2>3. w[Len(u) + (m - i + 1)] = v[m - i + 1]
        BY <1>1, <2>1
    <2> QED
        BY <2>1, <2>2, <2>3
<1> DEFINE rv == PromptReply!Reverse(v)
           rx == PromptReply!Reverse(x)
<1>7. /\ rv = [i \in 1..m |-> v[m - i + 1]] /\ rx = [i \in 1..Len(x) |-> x[Len(x) - i + 1]]
    BY DEF PromptReply!Reverse
<1>8. m <= Len(x) /\ Len(x) \in Nat
    BY <1>1, <1>2, <1>5
<1>9. rv \in Seq(S) /\ Len(rv) = m
    BY <1>2, <1>7
<1>10. rx \in Seq(S) /\ Len(rx) = Len(x)
    <2>1. \A i \in 1..Len(x) : x[Len(x) - i + 1] \in S
        BY <1>4, <1>8
    <2> QED
        BY <1>7, <1>8, <2>1
<1>11. \A i \in 1..m : rv[i] = rx[i]
    BY <1>6, <1>7, <1>8
<1> HIDE DEF rv, rx
<1>12. SubSeq(rv, 1, m) = SubSeq(rx, 1, m)
    <2>1. /\ \A i \in 1..m : rv[i] \in S /\ rx[i] \in S
          /\ m \in Int /\ 1 \in Int
        BY <1>2, <1>8, <1>9, <1>10
    <2>2. /\ SubSeq(rv, 1, m) \in Seq(S) /\ Len(SubSeq(rv, 1, m)) = IF 1 <= m THEN m - 1 + 1 ELSE 0
          /\ \A i \in 1..(m - 1 + 1) : SubSeq(rv, 1, m)[i] = rv[1 + i - 1]
        BY <2>1, SubSeqProperties
    <2>3. /\ SubSeq(rx, 1, m) \in Seq(S) /\ Len(SubSeq(rx, 1, m)) = IF 1 <= m THEN m - 1 + 1 ELSE 0
          /\ \A i \in 1..(m - 1 + 1) : SubSeq(rx, 1, m)[i] = rx[1 + i - 1]
        BY <2>1, SubSeqProperties
    <2>4. ASSUME NEW i \in 1..m PROVE SubSeq(rv, 1, m)[i] = SubSeq(rx, 1, m)[i]
        <3>1. i \in 1..(m - 1 + 1) /\ 1 + i - 1 = i
            BY <1>2
        <3> QED
            BY <1>11, <2>2, <2>3, <3>1
    <2>5. Len(SubSeq(rv, 1, m)) = m /\ Len(SubSeq(rx, 1, m)) = m
        BY <1>2, <2>2, <2>3
    <2> QED
        BY <2>2, <2>3, <2>4, <2>5, SeqEqual
<1> QED
    BY <1>8, <1>9, <1>10, <1>12
    DEF PromptReply!IsSuffix, PromptReply!IsPrefix, rv, rx, x, w, N

\* peek shows the screen from the prompt's first line, or from one above it, on.
LEMMA PeekSees ==
    ASSUME PromptInv, prompt # NoPrompt, prompt.options <= 9, prompt.cursor <= 5
    PROVE  PromptReply!IsSuffix(PromptReply!PromptLines(prompt),
                                PromptReply!extract_prompt(PromptReply!Captured))
<1> DEFINE L == PromptReply!PromptLines(prompt)
           lines == above \o L
           a == Len(above)
           N == Len(lines)
           footers == {i \in DOMAIN lines : lines[i].kind = "footer"}
           end == IF footers = {} THEN Len(lines) ELSE MaxOf(footers)
           inner == 1..(end - 1)
           Stops == {i \in inner :
                       \/ lines[i].kind = "title"
                       \/ /\ ~PromptReply!PartOfPrompt(lines[i])
                          /\ \E j \in (i + 1)..(end - 1) : PromptReply!PartOfPrompt(lines[j])}
           top == MaxOf(Stops \union {0})
           parts == {i \in inner : i >= top /\ (\/ PromptReply!PartOfPrompt(lines[i])
                                               \/ lines[i].kind = "title")}
           start == MinOf(parts \union {end})
           inked == {i \in start..end : i > 0 /\ lines[i].kind \notin {"blank", "separator"}}
           first == MinOf(inked \union {end + 1})
<1>1. prompt \in Prompts
    BY DEF PromptInv
<1>2. /\ L \in Seq(AnyLine) /\ Len(L) \in Nat \ {0}
      /\ L[Len(L)].kind = "footer" /\ L[1].kind \notin {"blank", "separator"}
      /\ \A j \in 1..(Len(L) - 1) :
            /\ PromptReply!PartOfPrompt(L[j]) \/ L[j].kind = "title"
            /\ j > 1 => PromptReply!PartOfPrompt(L[j]) /\ L[j].kind # "title"
    BY <1>1, PromptShape
<1>3. PromptReply!Captured = lines /\ above \in Seq(AnyLine)
    BY CapturedIs
<1>4. PromptReply!extract_prompt(lines)
        = IF lines = <<>> THEN <<>>
          ELSE IF footers = {} /\ start = end
          THEN SubSeq(lines, MaxOf({Len(lines) - FallbackLines + 1, 1}), Len(lines))
          ELSE SubSeq(lines, first, end)
    BY Zenon DEF PromptReply!extract_prompt, MaxOf, MinOf
<1> HIDE DEF L
<1>5. /\ lines \in Seq(AnyLine) /\ N = a + Len(L) /\ a \in Nat
      /\ \A i \in 1..Len(L) : lines[a + i] = L[i]
    BY <1>2, <1>3, Joined
<1> HIDE DEF lines
<1>6. DOMAIN lines = 1..N /\ N \in Nat \ {0} /\ lines # <<>>
    BY <1>2, <1>5
<1> HIDE DEF a, N
<1>7. N \in footers /\ footers \subseteq 0..N
    <2>1. Len(L) \in 1..Len(L) /\ lines[N] = L[Len(L)] /\ N \in 1..N
        BY <1>2, <1>5, <1>6
    <2> QED
        BY <1>2, <1>6, <2>1
<1> HIDE DEF footers
<1>8. end = N
    <2>1. MaxOf(footers) \in footers /\ \A y \in footers : MaxOf(footers) >= y
        BY <1>6, <1>7, MaxIs
    <2>2. MaxOf(footers) >= N /\ MaxOf(footers) \in 0..N
        BY <1>7, <2>1
    <2>3. ASSUME NEW l \in Nat, NEW k \in 0..l, k >= l PROVE k = l
        BY <2>3
    <2>4. MaxOf(footers) = N
        BY <1>6, <2>2, <2>3
    <2> QED
        BY <1>7, <2>4
<1> HIDE DEF end
<1>9. ASSUME NEW i \in inner, i > a + 1
      PROVE  PromptReply!PartOfPrompt(lines[i]) /\ lines[i].kind # "title"
    <2>1. i - a \in 1..(Len(L) - 1) /\ i - a > 1 /\ i - a \in 1..Len(L) /\ a + (i - a) = i
        BY <1>2, <1>5, <1>8, <1>9
    <2>2. lines[i] = L[i - a]
        BY <1>5, <2>1
    <2> QED
        BY <1>2, <2>1, <2>2
<1>10. Stops \subseteq 0..N /\ \A i \in Stops : i <= a + 1
    <2>1. ASSUME NEW i \in Stops PROVE i <= a + 1
        <3>1. i \in inner /\ ~(PromptReply!PartOfPrompt(lines[i]) /\ lines[i].kind # "title")
            BY <2>1
        <3>2. ~(i > a + 1)
            BY <1>9, <3>1
        <3> QED
            BY <1>5, <3>1, <3>2
    <2>2. Stops \subseteq 0..N
        BY <1>6, <1>8
    <2> QED
        BY <2>1, <2>2
<1> HIDE DEF Stops
<1>11. top \in Nat /\ top <= a + 1
    <2>1. Stops \union {0} \subseteq 0..N /\ Stops \union {0} # {} /\ N \in Nat
        BY <1>6, <1>10
    <2>2. top \in Stops \union {0}
        BY <2>1, MaxIs
    <2> HIDE DEF top
    <2> QED
        BY <1>5, <1>10, <2>1, <2>2
<1> HIDE DEF top
<1>12. a + 1 \in 1..N /\ lines[a + 1] = L[1]
    BY <1>2, <1>5, <1>6
<1>13. a + 1 \in parts \union {end} /\ parts \union {end} \subseteq 0..N
    <2>1. parts \union {end} \subseteq 0..N
        BY <1>6, <1>8
    <2>2. CASE Len(L) = 1
        BY <1>5, <1>8, <2>2, <2>1
    <2>3. CASE Len(L) # 1
        <3>1. Len(L) - 1 \in Nat \ {0} /\ end - 1 = a + (Len(L) - 1)
            BY <1>2, <1>5, <1>8, <2>3
        <3>2. a + 1 \in inner /\ 1 \in 1..(Len(L) - 1)
            <4>1. PICK k \in Nat \ {0} : k = Len(L) - 1
                BY <3>1
            <4>2. a + 1 \in 1..(a + k) /\ 1 \in 1..k
                BY <1>5
            <4> QED
                BY <3>1, <4>1, <4>2
        <3>3. PromptReply!PartOfPrompt(L[1]) \/ L[1].kind = "title"
            BY <1>2, <3>2
        <3>4. a + 1 >= top
            BY <1>5, <1>11
        <3>5. a + 1 \in parts
            BY <1>12, <3>2, <3>3, <3>4
        <3> QED
            BY <2>1, <3>5
    <2> QED
        BY <2>2, <2>3, <2>1
<1> HIDE DEF parts
<1>14. start \in Nat /\ start <= a + 1
    <2>1. start \in parts \union {end} /\ \A y \in parts \union {end} : start <= y
        BY <1>6, <1>13, MinIs
    <2> HIDE DEF start
    <2> QED
        BY <1>6, <1>13, <2>1
<1> HIDE DEF start
<1>15. a + 1 \in inked /\ inked \union {end + 1} \subseteq 0..(N + 1) /\ \A i \in inked : i >= 1
    <2>1. a + 1 \in start..end
        BY <1>5, <1>8, <1>12, <1>14
    <2>2. a + 1 \in inked
        BY <1>2, <1>5, <1>12, <2>1
    <2>3. inked \union {end + 1} \subseteq 0..(N + 1) /\ \A i \in inked : i >= 1
        BY <1>6, <1>8, <1>14
    <2> QED
        BY <2>2, <2>3
<1> HIDE DEF inked
<1>16. first \in 1..(a + 1)
    <2>1. N + 1 \in Nat /\ inked \union {end + 1} # {}
        BY <1>6
    <2>2. first \in inked \union {end + 1} /\ \A y \in inked \union {end + 1} : first <= y
        BY <1>15, <2>1, MinIs
    <2> HIDE DEF first
    <2>3. first <= a + 1 /\ first >= 1 /\ first \in Nat
        BY <1>6, <1>8, <1>15, <2>2
    <2> QED
        BY <1>5, <2>3
<1> HIDE DEF first
<1>17. PromptReply!extract_prompt(lines) = SubSeq(lines, first, N)
    BY <1>4, <1>6, <1>7, <1>8
<1>18. PromptReply!IsSuffix(L, SubSeq(lines, first, N))
    BY <1>2, <1>3, <1>16, SuffixFrom DEF lines, a, N
<1> QED
    BY <1>3, <1>17, <1>18 DEF L


-----------------------------------------------------------------------------
(* Reply and peek: steps *)

\* The keys to the option, one by one.
LEMMA KeysAre ==
    ASSUME NEW w \in Nat, NEW c \in Nat
    PROVE  /\ PromptReply!KeysTo(w, c) \in Seq(KeyNames) /\ PromptReply!KeysTo(w, c) # <<>>
           /\ w > c => /\ Head(PromptReply!KeysTo(w, c)) = "Down"
                       /\ Tail(PromptReply!KeysTo(w, c)) = PromptReply!KeysTo(w, c + 1)
           /\ w < c => /\ Head(PromptReply!KeysTo(w, c)) = "Up"
                       /\ Tail(PromptReply!KeysTo(w, c)) = PromptReply!KeysTo(w, c - 1)
           /\ w = c => PromptReply!KeysTo(w, c) = <<"Enter">>
<1> DEFINE Run(key, n) == [i \in 1..n |-> key] \o <<"Enter">>
<1>1. ASSUME NEW key \in KeyNames, NEW n \in Nat
      PROVE  /\ Run(key, n) \in Seq(KeyNames) /\ Len(Run(key, n)) = n + 1
             /\ \A i \in 1..(n + 1) : Run(key, n)[i] = IF i <= n THEN key ELSE "Enter"
    <2> DEFINE s == [i \in 1..n |-> key]
               e == <<"Enter">>
    <2>1. s \in Seq(KeyNames) /\ Len(s) = n /\ \A i \in 1..n : s[i] = key
        OBVIOUS
    <2>2. e \in Seq(KeyNames) /\ Len(e) = 1 /\ e[1] = "Enter"
        BY DEF KeyNames
    <2> HIDE DEF s, e
    <2>3. /\ s \o e \in Seq(KeyNames) /\ Len(s \o e) = n + 1
          /\ \A i \in 1..Len(s) : (s \o e)[i] = s[i]
          /\ \A i \in 1..Len(e) : (s \o e)[Len(s) + i] = e[i]
        BY <2>1, <2>2, Joined
    <2>4. ASSUME NEW i \in 1..(n + 1) PROVE (s \o e)[i] = IF i <= n THEN key ELSE "Enter"
        <3>1. i <= n \/ i = n + 1
            OBVIOUS
        <3> QED
            BY <2>1, <2>2, <2>3, <3>1
    <2> QED
        BY <2>3, <2>4 DEF s, e
<1> HIDE DEF Run
<1>2. ASSUME NEW key \in KeyNames, NEW n \in Nat \ {0}
      PROVE  Head(Run(key, n)) = key /\ Tail(Run(key, n)) = Run(key, n - 1)
    <2>1. n \in Nat /\ n - 1 \in Nat /\ (n - 1) + 1 = n
        OBVIOUS
    <2>2. /\ Run(key, n) \in Seq(KeyNames) /\ Len(Run(key, n)) = n + 1
          /\ \A i \in 1..(n + 1) : Run(key, n)[i] = IF i <= n THEN key ELSE "Enter"
        BY <1>1, <2>1
    <2>3. /\ Run(key, n - 1) \in Seq(KeyNames) /\ Len(Run(key, n - 1)) = n
          /\ \A i \in 1..n : Run(key, n - 1)[i] = IF i <= n - 1 THEN key ELSE "Enter"
        BY <1>1, <2>1
    <2>4. Run(key, n) # <<>>
        BY <2>1, <2>2
    <2>5. Head(Run(key, n)) = Run(key, n)[1]
        BY <2>2, <2>4
    <2>6. /\ Tail(Run(key, n)) \in Seq(KeyNames) /\ Len(Tail(Run(key, n))) = n
          /\ \A i \in 1..n : Tail(Run(key, n))[i] = Run(key, n)[i + 1]
        <3>1. /\ Tail(Run(key, n)) \in Seq(KeyNames)
              /\ Len(Tail(Run(key, n))) = Len(Run(key, n)) - 1
              /\ \A i \in 1..Len(Tail(Run(key, n))) : Tail(Run(key, n))[i] = Run(key, n)[i + 1]
            BY <2>2, <2>4, HeadTailProperties
        <3>2. Len(Tail(Run(key, n))) = n
            BY <2>1, <2>2, <3>1
        <3> QED
            BY <3>1, <3>2
    <2>7. ASSUME NEW i \in 1..n PROVE Tail(Run(key, n))[i] = Run(key, n - 1)[i]
        <3>1. i + 1 \in 1..(n + 1) /\ (i + 1 <= n <=> i <= n - 1)
            BY <2>1
        <3> QED
            BY <2>2, <2>3, <2>6, <3>1
    <2>8. Tail(Run(key, n)) = Run(key, n - 1)
        BY <2>3, <2>6, <2>7, SeqEqual
    <2>9. 1 \in 1..(n + 1) /\ 1 <= n
        BY <2>1
    <2> QED
        BY <2>2, <2>5, <2>8, <2>9
<1>3. ASSUME NEW key \in KeyNames, NEW n \in Nat, n = 0
      PROVE  Run(key, n) = <<"Enter">>
    <2>1. /\ Run(key, n) \in Seq(KeyNames) /\ Len(Run(key, n)) = n + 1
          /\ \A i \in 1..(n + 1) : Run(key, n)[i] = IF i <= n THEN key ELSE "Enter"
        BY <1>1
    <2>2. n + 1 = 1 /\ \A i \in 1..1 : ~(i <= n)
        BY <1>3
    <2>3. Len(Run(key, n)) = 1 /\ \A i \in 1..1 : Run(key, n)[i] = "Enter"
        BY <2>1, <2>2
    <2>4. <<"Enter">> \in Seq(KeyNames) /\ Len(<<"Enter">>) = 1 /\ \A i \in 1..1 : <<"Enter">>[i] = "Enter"
        BY DEF KeyNames
    <2> QED
        BY <2>1, <2>3, <2>4, SeqEqual
<1>4. PromptReply!KeysTo(w, c) = IF w > c THEN Run("Down", w - c) ELSE Run("Up", c - w)
    BY DEF PromptReply!KeysTo, Run
<1>5. CASE w > c
    <2>1. /\ w - c \in Nat \ {0} /\ w - c \in Nat /\ ~(w < c) /\ w # c /\ w - (c + 1) = w - c - 1
          /\ w - c - 1 \in Nat
        BY <1>5
    <2>2. PromptReply!KeysTo(w, c) = Run("Down", w - c)
        BY <1>4, <1>5
    <2>3. PromptReply!KeysTo(w, c + 1) = Run("Down", w - c - 1)
        <3>1. PromptReply!KeysTo(w, c + 1)
                = IF w > c + 1 THEN Run("Down", w - (c + 1)) ELSE Run("Up", (c + 1) - w)
            BY DEF PromptReply!KeysTo, Run
        <3>2. CASE w > c + 1
            BY <2>1, <3>1, <3>2
        <3>3. CASE ~(w > c + 1)
            <4>1. w - c - 1 = 0 /\ (c + 1) - w = 0
                BY <1>5, <3>3
            <4>2. Run("Up", 0) = Run("Down", 0)
                BY <1>3 DEF KeyNames
            <4> QED
                BY <3>1, <3>3, <4>1, <4>2
        <3> QED
            BY <3>2, <3>3
    <2>4. "Down" \in KeyNames
        BY DEF KeyNames
    <2>5. /\ Head(Run("Down", w - c)) = "Down" /\ Tail(Run("Down", w - c)) = Run("Down", w - c - 1)
          /\ Run("Down", w - c) \in Seq(KeyNames) /\ Len(Run("Down", w - c)) = w - c + 1
        BY <1>1, <1>2, <2>1, <2>4
    <2>6. Run("Down", w - c) # <<>>
        BY <2>1, <2>5
    <2> QED
        BY <2>1, <2>2, <2>3, <2>5, <2>6
<1>6. CASE w < c
    <2>1. /\ c - w \in Nat \ {0} /\ c - w \in Nat /\ ~(w > c) /\ w # c /\ (c - 1) - w = c - w - 1
          /\ ~(w > c - 1) /\ c - w - 1 \in Nat
        BY <1>6
    <2>2. PromptReply!KeysTo(w, c) = Run("Up", c - w)
        BY <1>4, <2>1
    <2>3. PromptReply!KeysTo(w, c - 1) = Run("Up", c - w - 1)
        BY <2>1 DEF PromptReply!KeysTo, Run
    <2>4. "Up" \in KeyNames
        BY DEF KeyNames
    <2>5. /\ Head(Run("Up", c - w)) = "Up" /\ Tail(Run("Up", c - w)) = Run("Up", c - w - 1)
          /\ Run("Up", c - w) \in Seq(KeyNames) /\ Len(Run("Up", c - w)) = c - w + 1
        BY <1>1, <1>2, <2>1, <2>4
    <2>6. Run("Up", c - w) # <<>>
        BY <2>1, <2>5
    <2> QED
        BY <2>1, <2>2, <2>3, <2>5, <2>6
<1>7. CASE w = c
    <2>1. ~(w > c) /\ ~(w < c) /\ c - w = 0
        BY <1>7
    <2>2. PromptReply!KeysTo(w, c) = Run("Up", 0)
        BY <1>4, <2>1
    <2>3. "Up" \in KeyNames /\ "Enter" \in KeyNames
        BY DEF KeyNames
    <2>4. Run("Up", 0) = <<"Enter">>
        BY <1>3, <2>3
    <2>5. /\ <<"Enter">> \in Seq(KeyNames) /\ <<"Enter">> # <<>>
        BY <2>3
    <2> QED
        BY <2>1, <2>2, <2>4, <2>5
<1> QED
    BY <1>5, <1>6, <1>7


\* What a command is after a step.
LEMMA RequestIs ==
    ASSUME NEW does \in PromptReply!Does, NEW stage \in Stages,
           NEW pane \in {AgentPane, OtherPane, NoPane}, NEW keys \in Seq(KeyNames),
           NEW saw \in Prompts \union {NoPrompt}, NEW moved \in Nat, NEW shown,
           stage = "keys" => does.what # "peek",
           request' = Asked(does, stage, pane, keys, saw, moved, shown)
    PROVE  /\ RequestTyped'
           /\ request'.does = does /\ request'.at = stage /\ request'.pane = pane
           /\ request'.keys = keys /\ request'.saw = saw /\ request'.moved = moved
           /\ request'.shown = shown
<1>1. /\ request'.does = does /\ request'.at = stage /\ request'.pane = pane
      /\ request'.keys = keys /\ request'.saw = saw /\ request'.moved = moved
      /\ request'.shown = shown
    BY DEF Asked
<1>2. request' = Asked(request'.does, request'.at, request'.pane,
                       request'.keys, request'.saw, request'.moved, request'.shown)
    BY <1>1
<1> QED
    BY <1>1, <1>2 DEF RequestTyped, Prompts, PromptReply!Prompts, PromptReply!Does,
       PromptReply!Options, PromptReply!MostOptions

LEMMA DisturbIs ==
    ASSUME PromptInv, PromptReply!Disturb
    PROVE  RequestTyped' /\ request'.saw = NoPrompt
<1>1. request' = Asked(request.does, request.at, request.pane, request.keys, NoPrompt, 0,
                      request.shown)
    BY DEF PromptReply!Disturb, PromptInv, RequestTyped, Asked
<1>2. /\ request.does \in PromptReply!Does /\ request.at \in Stages
      /\ request.pane \in {AgentPane, OtherPane, NoPane} /\ request.keys \in Seq(KeyNames)
      /\ request.at = "keys" => request.does.what # "peek"
    BY DEF PromptInv, RequestTyped
<1> DEFINE does == request.does
           stage == request.at
           pane == request.pane
           keys == request.keys
           shown == request.shown
<1>3. /\ does \in PromptReply!Does /\ stage \in Stages /\ keys \in Seq(KeyNames)
      /\ pane \in {AgentPane, OtherPane, NoPane} /\ (stage = "keys" => does.what # "peek")
      /\ request' = Asked(does, stage, pane, keys, NoPrompt, 0, shown)
    BY <1>1, <1>2
<1> HIDE DEF does, stage, pane, keys, shown
<1> QED
    BY <1>3, RequestIs

LEMMA FailsIs ==
    ASSUME PromptReply!Fails
    PROVE  RequestTyped' /\ request'.saw = NoPrompt
<1> DEFINE none == [what |-> "peek", option |-> 0]
<1>1. request' = Asked(none, "failed", NoPane, <<>>, NoPrompt, 0, <<>>)
    BY DEF PromptReply!Fails, PromptReply!NoRequest, Asked
<1>2. none \in PromptReply!Does /\ "failed" \in Stages /\ <<>> \in Seq(KeyNames)
    BY DEF PromptReply!Does, Stages
<1> HIDE DEF none
<1> QED
    BY <1>1, <1>2, RequestIs

\* Where an arrow key brings a cursor.
Below(c, options) == IF c < options THEN c + 1 ELSE c
Above(c) == IF c > 1 THEN c - 1 ELSE c

\* An arrow key for both cursors brings them no farther apart, and one for one of
\* them by one line at most.
LEMMA KeysKeepNear ==
    ASSUME NEW n \in Nat, NEW c \in 1..n, NEW v \in 1..n, NEW w \in 1..n, NEW m \in Nat,
           Near(c, v, m)
    PROVE  /\ w > v => v + 1 \in 1..n /\ Near(Below(c, n), v + 1, m)
           /\ w < v => v - 1 \in 1..n /\ Near(Above(c), v - 1, m)
<1>1. ASSUME w > v PROVE v + 1 \in 1..n /\ Near(Below(c, n), v + 1, m)
    BY <1>1 DEF Near, Below
<1>2. ASSUME w < v PROVE v - 1 \in 1..n /\ Near(Above(c), v - 1, m)
    BY <1>2 DEF Near, Above
<1> QED
    BY <1>1, <1>2

LEMMA OneKeyFarther ==
    ASSUME NEW n \in Nat, NEW c \in 1..n, NEW v \in 1..n, NEW m \in Nat, Near(c, v, m)
    PROVE  Near(Below(c, n), v, m + 1) /\ Near(Above(c), v, m + 1)
BY DEF Near, Below, Above

\* Each key as the prompt takes it.
LEMMA AfterIs ==
    ASSUME PromptInv, NEW key \in KeyNames, NEW next \in PromptReply!After(prompt, key)
    PROVE  /\ next.prompt \in Prompts \union {NoPrompt}
           /\ next.answer \in PromptReply!Options \union {NoAnswer}
           /\ prompt # NoPrompt /\ key = "Enter" =>
                 next.prompt = NoPrompt /\ next.answer = prompt.cursor
           /\ prompt # NoPrompt /\ key \in {"Down", "Up"} =>
                 /\ next.prompt \in Prompts /\ next.prompt.options = prompt.options
                 /\ next.answer = answer
                 /\ next.prompt.cursor = IF key = "Down" THEN Below(prompt.cursor, prompt.options)
                                         ELSE Above(prompt.cursor)
<1>1. answer \in PromptReply!Options \union {NoAnswer} /\ prompt \in Prompts \union {NoPrompt}
    BY DEF PromptInv
<1>2. CASE prompt = NoPrompt
    BY <1>1, <1>2 DEF PromptReply!After
<1>3. CASE prompt # NoPrompt
    <2> DEFINE Most == PromptReply!MostOptions
    <2>1. prompt \in Prompts
        BY <1>1, <1>3
    <2>2. /\ prompt.cursor \in 1..Most /\ prompt.options \in 0..Most /\ Most \in Nat
          /\ prompt.titled \in BOOLEAN
          /\ prompt = [titled |-> prompt.titled, options |-> prompt.options, cursor |-> prompt.cursor]
        BY <2>1, PromptTyped, MostIs
    <2>3. PromptReply!Options = 0..(Most + 1)
        BY DEF PromptReply!Options
    <2>4. /\ prompt \in [titled : BOOLEAN, options : OptionCounts, cursor : 1..Most]
          /\ prompt.options # 0 => prompt.cursor <= prompt.options
          /\ prompt.options = 0 => prompt.cursor = 1
        BY <2>1 DEF Prompts, PromptReply!Prompts
    <2> HIDE DEF Most
    <2>5. ASSUME NEW c \in 1..prompt.options
          PROVE  /\ [prompt EXCEPT !.cursor = c] \in Prompts
                 /\ [prompt EXCEPT !.cursor = c] # NoPrompt
                 /\ [prompt EXCEPT !.cursor = c].cursor = c
                 /\ [prompt EXCEPT !.cursor = c].options = prompt.options
        <3>1. c \in 1..Most /\ c <= prompt.options /\ prompt.options # 0
            BY <2>2
        <3>2. /\ [prompt EXCEPT !.cursor = c] \in [titled : BOOLEAN, options : OptionCounts, cursor : 1..Most]
              /\ [prompt EXCEPT !.cursor = c].cursor = c
              /\ [prompt EXCEPT !.cursor = c].options = prompt.options
            BY <2>4, <3>1
        <3>3. [prompt EXCEPT !.cursor = c] \in Prompts
            BY <3>1, <3>2 DEF Prompts, PromptReply!Prompts, Most
        <3> QED
            BY <3>2, <3>3, PromptTyped
    <2>6. CASE key = "Enter"
        <3>1. next = [prompt |-> NoPrompt, answer |-> prompt.cursor]
            BY <1>3, <2>6 DEF PromptReply!After
        <3> QED
            BY <2>2, <2>3, <2>6, <3>1
    <2>7. CASE key \in {"Escape", "C-c"}
        <3>1. next = [prompt |-> NoPrompt, answer |-> 0]
            BY <1>3, <2>7 DEF PromptReply!After
        <3> QED
            BY <2>2, <2>3, <2>7, <3>1
    <2>8. CASE key = "Down" /\ prompt.cursor < prompt.options
        <3>1. next = [prompt |-> [prompt EXCEPT !.cursor = prompt.cursor + 1], answer |-> answer]
            BY <1>3, <2>8 DEF PromptReply!After
        <3>2. prompt.cursor + 1 \in 1..prompt.options
            BY <2>2, <2>8
        <3> QED
            BY <1>1, <2>5, <2>8, <3>1, <3>2 DEF Below
    <2>9. CASE key = "Up" /\ prompt.cursor > 1
        <3>1. next = [prompt |-> [prompt EXCEPT !.cursor = prompt.cursor - 1], answer |-> answer]
            BY <1>3, <2>9 DEF PromptReply!After
        <3>2. prompt.cursor - 1 \in 1..prompt.options
            BY <2>2, <2>4, <2>9
        <3> QED
            BY <1>1, <2>5, <2>9, <3>1, <3>2 DEF Above
    <2>10. CASE key = "text"
        <3>1. next = [prompt |-> prompt, answer |-> answer]
              \/ \E n \in 1..prompt.options : next = [prompt |-> NoPrompt, answer |-> n]
            BY <1>3, <2>10 DEF PromptReply!After
        <3>2. \A n \in 1..prompt.options : n \in 0..(Most + 1)
            BY <2>2
        <3> QED
            BY <1>1, <2>3, <2>10, <3>1, <3>2
    <2>11. CASE \/ key = "Down" /\ ~(prompt.cursor < prompt.options)
                \/ key = "Up" /\ ~(prompt.cursor > 1)
        <3>1. next = [prompt |-> prompt, answer |-> answer]
            BY <1>3, <2>11 DEF PromptReply!After
        <3> QED
            BY <1>1, <2>1, <2>11, <3>1 DEF Below, Above
    <2> QED
        BY <2>6, <2>7, <2>8, <2>9, <2>10, <2>11 DEF KeyNames
<1> QED
    BY <1>2, <1>3


\* The invariant: the keys lead to the option, and what is shown has the prompt.
PromptHolds == PromptInv /\ ReplyInv /\ PromptReply!PeekShowsPrompt

\* Nothing is claimed of a command that has read no prompt.
LEMMA NothingSeen ==
    ASSUME request'.saw = NoPrompt
    PROVE  ReplyInv' /\ PromptReply!PeekShowsPrompt'
BY DEF ReplyInv, Replying, PromptReply!PeekShowsPrompt

LEMMA OutputStep == PromptHolds /\ PromptReply!Output => PromptHolds'
<1> SUFFICES ASSUME PromptHolds, PromptReply!Output PROVE PromptHolds'
    OBVIOUS
<1>1. /\ prompt' = prompt /\ answer' = answer /\ request' = request
      /\ above \in Seq(LineKinds) /\ Len(above) <= LinesAbove
    BY DEF PromptReply!Output, PromptHolds, PromptInv
<1>2. PICK line \in LineKinds :
         above' = IF Len(above) < LinesAbove THEN Append(above, line) ELSE Append(Tail(above), line)
    BY DEF PromptReply!Output
<1>3. above' \in Seq(LineKinds) /\ Len(above') <= LinesAbove
    <2>1. CASE Len(above) < LinesAbove
        BY <1>1, <1>2, <2>1, EnvironmentAssumption
    <2>2. CASE ~(Len(above) < LinesAbove)
        <3>1. Len(above) \in Nat /\ Len(above) = LinesAbove /\ above # <<>>
            BY <1>1, <2>2, EnvironmentAssumption
        <3>2. Tail(above) \in Seq(LineKinds) /\ Len(Tail(above)) = Len(above) - 1
            BY <1>1, <3>1
        <3> QED
            BY <1>2, <2>2, <3>1, <3>2
    <2> QED
        BY <2>1, <2>2
<1>4. PromptInv'
    BY <1>1, <1>3 DEF PromptHolds, PromptInv, RequestTyped, PromptReply!Options, PromptReply!MostOptions,
       PromptReply!Does, Prompts, PromptReply!Prompts
<1>5. ReplyInv'
    BY <1>1 DEF PromptHolds, ReplyInv, Replying, PromptReply!Here, Prompts, PromptReply!Prompts,
       PromptReply!MostOptions, OnCourse, Answered, Near, PromptReply!KeysTo
<1>6. PromptReply!PeekShowsPrompt'
    BY <1>1 DEF PromptHolds, PromptReply!PeekShowsPrompt
<1> QED
    BY <1>4, <1>5, <1>6 DEF PromptHolds

LEMMA DisturbStep ==
    ASSUME PromptHolds, PromptReply!Disturb, answer' = answer, above' \in Seq(LineKinds),
           Len(above') <= LinesAbove, prompt' \in Prompts \union {NoPrompt}
    PROVE  PromptHolds'
<1>1. PromptInv
    BY DEF PromptHolds
<1>2. RequestTyped' /\ request'.saw = NoPrompt
    BY <1>1, DisturbIs
<1>3. PromptInv'
    BY <1>1, <1>2
    DEF PromptInv, PromptReply!Options, PromptReply!MostOptions, Prompts, PromptReply!Prompts
<1> QED
    BY <1>2, <1>3, NothingSeen DEF PromptHolds

\* What the agent does to the prompt.
LEMMA ElseStep ==
    PromptHolds /\ (PromptReply!Ask \/ PromptReply!Withdraw \/ PromptReply!ClosePane)
    => PromptHolds'
<1> SUFFICES ASSUME PromptHolds,
                    PromptReply!Ask \/ PromptReply!Withdraw \/ PromptReply!ClosePane
             PROVE  PromptHolds'
    OBVIOUS
<1>1. PromptInv
    BY DEF PromptHolds
<1>2. PromptReply!Disturb /\ answer' = answer
    BY DEF PromptReply!Ask, PromptReply!Withdraw, PromptReply!ClosePane
<1>4. above' \in Seq(LineKinds) /\ Len(above') <= LinesAbove
    <2>1. above' = above \/ above' = <<>>
        BY DEF PromptReply!Ask, PromptReply!Withdraw, PromptReply!ClosePane
    <2>2. above \in Seq(LineKinds) /\ Len(above) <= LinesAbove
        BY <1>1 DEF PromptInv
    <2>3. <<>> \in Seq(LineKinds) /\ Len(<<>>) <= LinesAbove
        BY EnvironmentAssumption
    <2> QED
        BY <2>1, <2>2, <2>3
<1>5. prompt' \in Prompts \union {NoPrompt}
    <2>1. CASE PromptReply!Ask
        BY <2>1 DEF PromptReply!Ask, Prompts
    <2>2. CASE PromptReply!Withdraw \/ PromptReply!ClosePane
        BY <2>2 DEF PromptReply!Withdraw, PromptReply!ClosePane
    <2> QED
        BY <2>1, <2>2
<1> QED
    BY <1>2, <1>4, <1>5, DisturbStep

\* What the user does: an arrow key while reply sends its own counts.
LEMMA TypeStep == PromptHolds /\ PromptReply!Type => PromptHolds'
<1> SUFFICES ASSUME PromptHolds, PromptReply!Type PROVE PromptHolds'
    OBVIOUS
<1>1. /\ PromptInv /\ ReplyInv /\ above' = above /\ answer' = answer /\ prompt # NoPrompt
      /\ above \in Seq(LineKinds) /\ Len(above) <= LinesAbove
    BY DEF PromptHolds, PromptInv, PromptReply!Type
<1>2. PICK key \in {"Up", "Down", "Enter", "Escape"} :
         /\ \E next \in PromptReply!After(prompt, key) : prompt' = next.prompt
         /\ IF key \in {"Up", "Down"} THEN PromptReply!Interfere ELSE PromptReply!Disturb
    BY DEF PromptReply!Type
<1>3. PICK next \in PromptReply!After(prompt, key) : prompt' = next.prompt
    BY <1>2
<1>4. key \in KeyNames
    BY DEF KeyNames
<1>5. prompt' \in Prompts \union {NoPrompt}
    BY <1>1, <1>3, <1>4, AfterIs
<1>6. CASE PromptReply!Disturb
    BY <1>1, <1>5, <1>6, DisturbStep
<1>7. CASE ~PromptReply!Disturb
    <2> DEFINE does == request.does
               pane == request.pane
               keys == request.keys
               saw == request.saw
               more == request.moved + 1
               shown == request.shown
    <2>1. key \in {"Up", "Down"} /\ request.at = "keys"
          /\ request' = [request EXCEPT !.moved = @ + 1]
        BY <1>2, <1>7 DEF PromptReply!Interfere
    <2>2. request' = Asked(does, "keys", pane, keys, saw, more, shown)
        BY <1>1, <2>1 DEF PromptInv, RequestTyped, Asked
    <2>3. /\ does \in PromptReply!Does /\ "keys" \in Stages /\ keys \in Seq(KeyNames)
          /\ pane \in {AgentPane, OtherPane, NoPane} /\ saw \in Prompts \union {NoPrompt}
          /\ does.what # "peek" /\ request.moved \in Nat /\ more \in Nat
        BY <1>1, <2>1 DEF PromptInv, RequestTyped, Stages
    <2>4. does.option \in Nat
        BY <2>3, MostIs DEF PromptReply!Does, PromptReply!Options
    <2>5. ASSUME Answered(answer, does, saw, request.moved)
          PROVE  Answered(answer', does, saw, more)
        <3>1. saw \in Prompts => saw.options \in Nat
            BY PromptTyped
        <3>2. answer \in Int
            BY <2>5 DEF Answered
        <3> HIDE DEF does, saw
        <3> QED
            BY <1>1, <2>3, <2>4, <2>5, <3>2 DEF Answered, Near
    <2>6. ASSUME OnCourse(keys, prompt, does, saw, request.moved), saw # NoPrompt
          PROVE  OnCourse(keys, prompt', does, saw, more)
        <3>1. PICK v \in 1..saw.options :
                 keys = PromptReply!KeysTo(does.option, v) /\ Near(prompt.cursor, v, request.moved)
            BY <2>6 DEF OnCourse
        <3>2. /\ prompt \in Prompts /\ prompt.options = saw.options /\ saw.options \in Nat
              /\ prompt.cursor \in 1..saw.options
            BY <2>6, <3>1, PromptTyped DEF OnCourse
        <3>3. /\ prompt' \in Prompts /\ prompt'.options = saw.options
              /\ prompt'.cursor \in {Below(prompt.cursor, saw.options), Above(prompt.cursor)}
            <4>1. key \in {"Down", "Up"}
                BY <2>1
            <4>2. /\ next.prompt \in Prompts /\ next.prompt.options = prompt.options
                  /\ next.prompt.cursor = IF key = "Down" THEN Below(prompt.cursor, prompt.options)
                                          ELSE Above(prompt.cursor)
                BY <1>1, <1>4, <4>1, AfterIs
            <4>3. next.prompt.cursor \in {Below(prompt.cursor, prompt.options), Above(prompt.cursor)}
                <5> HIDE DEF Below, Above
                <5> QED
                    BY <4>2
            <4>4. prompt' = next.prompt /\ prompt.options = saw.options
                BY <1>3, <3>2
            <4> HIDE DEF saw
            <4> QED
                BY <4>2, <4>3, <4>4, Zenon
        <3>4. Near(prompt'.cursor, v, more)
            BY <2>3, <3>1, <3>2, <3>3, OneKeyFarther
        <3> QED
            BY <3>1, <3>3, <3>4 DEF OnCourse
    <2> HIDE DEF does, pane, keys, saw, more, shown
    <2>7. /\ RequestTyped' /\ request'.does = does /\ request'.at = "keys" /\ request'.pane = pane
          /\ request'.keys = keys /\ request'.saw = saw /\ request'.moved = more
        <3>1. /\ does \in PromptReply!Does /\ "keys" \in Stages /\ keys \in Seq(KeyNames)
              /\ pane \in {AgentPane, OtherPane, NoPane} /\ saw \in Prompts \union {NoPrompt}
              /\ ("keys" = "keys" => does.what # "peek") /\ more \in Nat
            BY <2>3
        <3> QED
            BY <2>2, <3>1, RequestIs, SMTT(30)
    <2>8. PromptInv'
        BY <1>1, <1>5, <2>7 DEF PromptInv, Prompts, PromptReply!Prompts, PromptReply!MostOptions,
           PromptReply!Options
    <2>9. ReplyInv'
        <3> SUFFICES ASSUME Replying'
                     PROVE  \/ keys = <<>> /\ Answered(answer', does, saw, more)
                            \/ PromptReply!Here /\ OnCourse(keys, prompt', does, saw, more)
            BY <2>7 DEF ReplyInv, pane, PromptReply!Here, OnCourse, Prompts, PromptReply!Prompts,
               PromptReply!MostOptions, PromptReply!KeysTo, Answered, Near
        <3>1. Replying /\ saw # NoPrompt
            BY <2>7 DEF Replying, does, saw
        <3>2. \/ keys = <<>> /\ Answered(answer, does, saw, request.moved)
              \/ PromptReply!Here /\ OnCourse(keys, prompt, does, saw, request.moved)
            BY <1>1, <2>1, <3>1 DEF ReplyInv, keys, does, saw
        <3> QED
            BY <2>5, <2>6, <3>1, <3>2
    <2>10. PromptReply!PeekShowsPrompt'
        BY <2>7 DEF PromptReply!PeekShowsPrompt
    <2> QED
        BY <2>8, <2>9, <2>10 DEF PromptHolds
<1> QED
    BY <1>6, <1>7

LEMMA BeginStep == PromptHolds /\ PromptReply!Begin => PromptHolds'
<1> SUFFICES ASSUME PromptHolds, PromptReply!Begin PROVE PromptHolds'
    OBVIOUS
<1>1. PICK does \in PromptReply!Does : request' = Asked(does, "fetch", NoPane, <<>>, NoPrompt, 0, <<>>)
    BY DEF PromptReply!Begin, PromptReply!NoRequest, Asked
<1>2. "fetch" \in Stages /\ <<>> \in Seq(KeyNames)
    BY DEF Stages
<1>3. RequestTyped' /\ request'.saw = NoPrompt
    BY <1>1, <1>2, RequestIs
<1>4. answer' = NoAnswer /\ above' = above /\ prompt' = prompt
    BY DEF PromptReply!Begin
<1>5. PromptInv'
    BY <1>3, <1>4 DEF PromptHolds, PromptInv, Prompts, PromptReply!Prompts, PromptReply!MostOptions
<1> QED
    BY <1>3, <1>5, NothingSeen DEF PromptHolds

\* A command that is not at its end and has sent no key.
LEMMA OnTheWay ==
    ASSUME PromptHolds, above' = above, prompt' = prompt, answer' = answer,
           NEW stage \in Stages, NEW pane \in {AgentPane, OtherPane, NoPane},
           NEW keys \in Seq(KeyNames),
           request' = Asked(request.does, stage, pane, keys, request.saw, request.moved, request.shown),
           \/ stage \in {"fetch", "act"}
           \/ stage = "keys" /\ request.does.what \notin {"peek", "option"}
    PROVE  PromptHolds'
<1>1. /\ request.does \in PromptReply!Does /\ request.saw \in Prompts \union {NoPrompt}
      /\ request.moved \in Nat
    BY DEF PromptHolds, PromptInv, RequestTyped
<1> DEFINE does == request.does
           saw == request.saw
           moved == request.moved
           shown == request.shown
<1>2. /\ does \in PromptReply!Does /\ saw \in Prompts \union {NoPrompt} /\ moved \in Nat
      /\ stage = "keys" => does.what # "peek"
      /\ request' = Asked(does, stage, pane, keys, saw, moved, shown)
    BY <1>1
<1> HIDE DEF does, saw, moved, shown
<1>3. RequestTyped' /\ request'.does = does /\ request'.at = stage
    BY <1>2, RequestIs
<1> USE DEF does
<1>4. PromptInv'
    BY <1>3 DEF PromptHolds, PromptInv, Prompts, PromptReply!Prompts, PromptReply!MostOptions,
       PromptReply!Options
<1>5. ReplyInv'
    BY <1>3 DEF ReplyInv, Replying
<1>6. PromptReply!PeekShowsPrompt'
    BY <1>3 DEF PromptReply!PeekShowsPrompt
<1> QED
    BY <1>4, <1>5, <1>6 DEF PromptHolds


\* A command that fails changes nothing else.
LEMMA FailStep ==
    ASSUME PromptHolds, PromptReply!Fails, above' \in Seq(LineKinds), Len(above') <= LinesAbove,
           prompt' \in Prompts \union {NoPrompt}, answer' = answer
    PROVE  PromptHolds'
<1>1. RequestTyped' /\ request'.saw = NoPrompt
    BY FailsIs
<1>2. PromptInv'
    BY <1>1 DEF PromptHolds, PromptInv, Prompts, PromptReply!Prompts, PromptReply!MostOptions,
       PromptReply!Options
<1> QED
    BY <1>1, <1>2, NothingSeen DEF PromptHolds

LEMMA FetchStep == PromptHolds /\ PromptReply!FetchSessions => PromptHolds'
<1> SUFFICES ASSUME PromptHolds, PromptReply!FetchSessions PROVE PromptHolds'
    OBVIOUS
<1> DEFINE anyPane == {AgentPane, OtherPane, NoPane}
<1>1. /\ PromptInv /\ above' = above /\ prompt' = prompt /\ answer' = answer
      /\ above \in Seq(LineKinds) /\ Len(above) <= LinesAbove /\ prompt \in Prompts \union {NoPrompt}
    BY DEF PromptHolds, PromptReply!FetchSessions, PromptInv
<1>2. CASE PromptReply!Fails
    BY <1>1, <1>2, FailStep
<1>3. CASE ~PromptReply!Fails
    <2>1. PICK pane \in PromptReply!Named :
             IF pane = NoPane THEN PromptReply!Fails
             ELSE request' = [request EXCEPT !.at = "act", !.pane = pane]
        BY <1>3, Zenon DEF PromptReply!FetchSessions
    <2>2. ASSUME NEW list \in PromptReply!Lists, NEW target \in SUBSET Ids
          PROVE  PromptReply!Resolved(list, target) \in anyPane
        <3>1. PICK listed \in SUBSET Ids : list \in [listed -> anyPane]
            BY DEF PromptReply!Lists
        <3> DEFINE matches == target \intersect DOMAIN list
        <3>2. CASE \E i \in matches : matches = {i}
            <4>1. (CHOOSE i \in matches : TRUE) \in matches
                BY <3>2
            <4>2. list[CHOOSE i \in matches : TRUE] \in anyPane
                BY <3>1, <4>1
            <4> QED
                BY <3>2, <4>2 DEF PromptReply!Resolved
        <3>3. CASE ~\E i \in matches : matches = {i}
            BY <3>3 DEF PromptReply!Resolved
        <3> QED
            BY <3>2, <3>3
    <2>3. pane \in anyPane
        BY <2>1, <2>2 DEF PromptReply!Named
    <2>4. request' = Asked(request.does, "act", pane, request.keys, request.saw, request.moved,
                              request.shown)
        <3>1. request' = [request EXCEPT !.at = "act", !.pane = pane]
            BY <1>3, <2>1
        <3>2. PICK does, stage, old, keys, saw, moved, shown :
                 request = Asked(does, stage, old, keys, saw, moved, shown)
            BY <1>1, Zenon DEF PromptInv, RequestTyped
        <3>3. /\ request.does = does /\ request.keys = keys
              /\ request.saw = saw /\ request.moved = moved /\ request.shown = shown
            BY <3>2 DEF Asked
        <3>4. request' = Asked(does, "act", pane, keys, saw, moved, shown)
            BY <3>1, <3>2 DEF Asked
        <3> QED
            BY <3>3, <3>4
    <2>5. request.keys \in Seq(KeyNames) /\ "act" \in Stages /\ "act" \in {"fetch", "act"}
        BY <1>1 DEF PromptInv, RequestTyped, Stages
    <2> QED
        BY <1>1, <2>3, <2>4, <2>5, OnTheWay
<1> QED
    BY <1>2, <1>3

LEMMA KillStep == PromptHolds /\ PromptReply!Kill => PromptHolds'
<1> SUFFICES ASSUME PromptHolds, PromptReply!Kill PROVE PromptHolds'
    OBVIOUS
<1>1. /\ PromptInv /\ answer' = answer /\ request.does.what = "kill"
      /\ prompt' \in {prompt, NoPrompt} /\ above' \in {above, <<>>}
    BY DEF PromptHolds, PromptReply!Kill
<1>2. /\ above' \in Seq(LineKinds) /\ Len(above') <= LinesAbove
      /\ prompt' \in Prompts \union {NoPrompt}
    <2>1. above \in Seq(LineKinds) /\ Len(above) <= LinesAbove /\ prompt \in Prompts \union {NoPrompt}
        BY <1>1 DEF PromptInv
    <2>2. <<>> \in Seq(LineKinds) /\ Len(<<>>) <= LinesAbove
        BY EnvironmentAssumption
    <2> QED
        BY <1>1, <2>1, <2>2
<1>3. CASE PromptReply!Fails
    BY <1>1, <1>2, <1>3, FailStep
<1>4. CASE ~PromptReply!Fails
    <2> DEFINE does == request.does
               pane == request.pane
               keys == request.keys
               saw == request.saw
               moved == request.moved
               shown == request.shown
    <2>1. request' = Asked(does, "done", pane, keys, saw, moved, shown)
        BY <1>1, <1>4 DEF PromptReply!Kill, PromptInv, RequestTyped, Asked
    <2>2. /\ does \in PromptReply!Does /\ "done" \in Stages /\ keys \in Seq(KeyNames)
          /\ pane \in {AgentPane, OtherPane, NoPane} /\ saw \in Prompts \union {NoPrompt}
          /\ does.what = "kill" /\ moved \in Nat
        BY <1>1 DEF PromptInv, RequestTyped, Stages
    <2> HIDE DEF does, pane, keys, saw, moved, shown
    <2>3. RequestTyped' /\ request'.does = does
        BY <2>1, <2>2, RequestIs
    <2>4. PromptInv'
        BY <1>1, <1>2, <2>3 DEF PromptInv, Prompts, PromptReply!Prompts, PromptReply!MostOptions,
           PromptReply!Options
    <2>5. ReplyInv' /\ PromptReply!PeekShowsPrompt'
        BY <2>2, <2>3 DEF ReplyInv, Replying, PromptReply!PeekShowsPrompt
    <2> QED
        BY <2>4, <2>5 DEF PromptHolds
<1> QED
    BY <1>3, <1>4

LEMMA PressWithoutReadingStep == PromptHolds /\ PromptReply!PressWithoutReading => PromptHolds'
<1> SUFFICES ASSUME PromptHolds, PromptReply!PressWithoutReading PROVE PromptHolds'
    OBVIOUS
<1> DEFINE keys == PromptReply!KeysOf(request.does.what)
<1>1. /\ PromptInv /\ above' = above /\ prompt' = prompt /\ answer' = answer
      /\ request.does.what \in {"interrupt", "send", "no", "yes"}
    BY DEF PromptHolds, PromptReply!PressWithoutReading
<1>2. request' = Asked(request.does, "keys", request.pane, keys, request.saw, request.moved,
                      request.shown)
    BY <1>1 DEF PromptReply!PressWithoutReading, PromptInv, RequestTyped, Asked
<1>3. keys \in Seq(KeyNames)
    <2>1. keys \in {<<"C-c">>, <<"text", "Enter">>, <<"Escape">>, <<"Enter">>}
        BY <1>1 DEF PromptReply!KeysOf
    <2>2. /\ <<"C-c">> \in Seq(KeyNames) /\ <<"text", "Enter">> \in Seq(KeyNames)
          /\ <<"Escape">> \in Seq(KeyNames) /\ <<"Enter">> \in Seq(KeyNames)
        BY DEF KeyNames
    <2> QED
        BY <2>1, <2>2
<1>4. /\ "keys" \in Stages /\ request.pane \in {AgentPane, OtherPane, NoPane}
      /\ request.does.what \notin {"peek", "option"}
    BY <1>1 DEF Stages, PromptInv, RequestTyped
<1> HIDE DEF keys
<1> QED
    BY <1>1, <1>2, <1>3, <1>4, OnTheWay

LEMMA ReadCursorStep == PromptHolds /\ PromptReply!ReadCursor => PromptHolds'
<1> SUFFICES ASSUME PromptHolds, PromptReply!ReadCursor PROVE PromptHolds'
    OBVIOUS
<1>1. /\ PromptInv /\ above' = above /\ prompt' = prompt /\ answer' = answer
      /\ request.does.what = "option"
      /\ above \in Seq(LineKinds) /\ Len(above) <= LinesAbove /\ prompt \in Prompts \union {NoPrompt}
    BY DEF PromptHolds, PromptReply!ReadCursor, PromptInv
<1>2. CASE PromptReply!Fails
    BY <1>1, <1>2, FailStep
<1>3. CASE ~PromptReply!Fails
    <2> DEFINE does == request.does
               pane == request.pane
               moved == request.moved
               shown == request.shown
               saw == IF PromptReply!OnlyCursor /\ PromptReply!Here THEN prompt ELSE NoPrompt
               wanted == request.does.option
    <2>1. PICK current \in IF PromptReply!Here
                           THEN {PromptReply!find_selected_option(PromptReply!Captured)} ELSE {1} :
             request' = [PromptReply!Reading EXCEPT
                            !.at = "keys", !.keys = PromptReply!KeysTo(wanted, current),
                            !.saw = IF PromptReply!OnlyCursor THEN @ ELSE NoPrompt]
        BY <1>3 DEF PromptReply!ReadCursor
    <2> DEFINE keys == PromptReply!KeysTo(wanted, current)
    <2>2. request' = Asked(does, "keys", pane, keys, saw, moved, shown)
        BY <1>1, <2>1 DEF PromptReply!Reading, PromptInv, RequestTyped, Asked
    <2>3. /\ does \in PromptReply!Does /\ pane \in {AgentPane, OtherPane, NoPane} /\ "keys" \in Stages
          /\ saw \in Prompts \union {NoPrompt} /\ does.what = "option" /\ wanted \in Nat
          /\ moved \in Nat
        <3>1. request.does \in PromptReply!Does
            BY <1>1 DEF PromptInv, RequestTyped
        <3>2. request.does.option \in Nat
            BY <3>1, MostIs DEF PromptReply!Does, PromptReply!Options
        <3> QED
            BY <1>1, <3>1, <3>2 DEF PromptInv, RequestTyped, Stages
    <2>4. keys \in Seq(KeyNames)
        <3>1. current \in Nat
            BY <1>1, <2>1, SelectedTyped
        <3> QED
            BY <2>3, <3>1, KeysAre
    <2>5. saw # NoPrompt /\ wanted \in 1..saw.options =>
             /\ prompt \in Prompts /\ saw = prompt /\ PromptReply!Here
             /\ keys = PromptReply!KeysTo(wanted, prompt.cursor)
        <3> SUFFICES ASSUME saw # NoPrompt, wanted \in 1..saw.options
                     PROVE  /\ prompt \in Prompts /\ saw = prompt /\ PromptReply!Here
                            /\ keys = PromptReply!KeysTo(wanted, prompt.cursor)
            OBVIOUS
        <3>1. saw = prompt /\ prompt # NoPrompt /\ PromptReply!OnlyCursor /\ PromptReply!Here
            OBVIOUS
        <3>2. prompt \in Prompts
            BY <1>1, <3>1
        <3>3. prompt.options # 0
            BY <3>1, <3>2, PromptTyped
        <3>4. current = prompt.cursor
            BY <1>1, <2>1, <3>1, <3>3, CursorFound
        <3> QED
            BY <3>1, <3>2, <3>4
    <2> HIDE DEF does, pane, shown, saw, keys, moved
    <2>6. /\ RequestTyped' /\ request'.does = does /\ request'.at = "keys" /\ request'.pane = pane
          /\ request'.keys = keys /\ request'.saw = saw /\ request'.moved = moved
        BY <2>2, <2>3, <2>4, RequestIs
    <2>7. PromptInv'
        BY <1>1, <2>6 DEF PromptInv, Prompts, PromptReply!Prompts, PromptReply!MostOptions,
           PromptReply!Options
    <2>8. ReplyInv'
        <3> SUFFICES ASSUME Replying'
                     PROVE  PromptReply!Here /\ OnCourse(keys, prompt', does, saw, moved)
            BY <2>6 DEF ReplyInv, OnCourse, Prompts, PromptReply!Prompts, PromptReply!MostOptions,
               pane, PromptReply!Here, PromptReply!KeysTo, Near
        <3>1. saw # NoPrompt /\ wanted \in 1..saw.options
            BY <2>6 DEF Replying, does
        <3>2. /\ prompt \in Prompts /\ saw = prompt /\ PromptReply!Here
              /\ keys = PromptReply!KeysTo(wanted, prompt.cursor)
            BY <2>5, <3>1
        <3>3. prompt.cursor \in 1..saw.options /\ prompt.cursor \in Nat
            BY <3>1, <3>2, PromptTyped
        <3>4. Near(prompt.cursor, prompt.cursor, moved)
            BY <2>3, <3>3 DEF Near
        <3>5. keys = PromptReply!KeysTo(does.option, prompt.cursor)
            BY <3>2 DEF does
        <3> QED
            BY <1>1, <3>2, <3>3, <3>4, <3>5 DEF OnCourse
    <2>9. PromptReply!PeekShowsPrompt'
        BY <2>6 DEF PromptReply!PeekShowsPrompt
    <2> QED
        BY <2>7, <2>8, <2>9 DEF PromptHolds
<1> QED
    BY <1>2, <1>3


LEMMA PeekStep == PromptHolds /\ PromptReply!cmd_peek => PromptHolds'
<1> SUFFICES ASSUME PromptHolds, PromptReply!cmd_peek PROVE PromptHolds'
    OBVIOUS
<1>1. /\ PromptInv /\ above' = above /\ prompt' = prompt /\ answer' = answer
      /\ request.does.what = "peek"
      /\ above \in Seq(LineKinds) /\ Len(above) <= LinesAbove /\ prompt \in Prompts \union {NoPrompt}
    BY DEF PromptHolds, PromptReply!cmd_peek, PromptInv
<1>2. CASE PromptReply!Fails
    BY <1>1, <1>2, FailStep
<1>3. CASE ~PromptReply!Fails
    <2> DEFINE does == request.does
               pane == request.pane
               keys == request.keys
               saw == IF PromptReply!Here THEN prompt ELSE NoPrompt
               moved == request.moved
               shown == IF PromptReply!Here
                        THEN PromptReply!extract_prompt(PromptReply!Captured) ELSE <<>>
    <2>1. request' = Asked(does, "done", pane, keys, saw, moved, shown)
        BY <1>1, <1>3 DEF PromptReply!cmd_peek, PromptReply!Reading, PromptInv, RequestTyped, Asked
    <2>2. /\ does \in PromptReply!Does /\ "done" \in Stages /\ keys \in Seq(KeyNames)
          /\ pane \in {AgentPane, OtherPane, NoPane} /\ saw \in Prompts \union {NoPrompt}
          /\ does.what = "peek" /\ moved \in Nat
        BY <1>1 DEF PromptInv, RequestTyped, Stages
    <2>3. saw # NoPrompt /\ saw.options <= 9 /\ saw.cursor <= 5 =>
             PromptReply!IsSuffix(PromptReply!PromptLines(saw), shown)
        BY <1>1, PeekSees
    <2> HIDE DEF does, pane, keys, saw, moved, shown
    <2>4. /\ RequestTyped' /\ request'.does = does /\ request'.saw = saw /\ request'.shown = shown
        BY <2>1, <2>2, RequestIs
    <2>5. PromptInv'
        BY <1>1, <2>4 DEF PromptInv, Prompts, PromptReply!Prompts, PromptReply!MostOptions,
           PromptReply!Options
    <2>6. ReplyInv'
        BY <2>2, <2>4 DEF ReplyInv, Replying
    <2>7. PromptReply!PeekShowsPrompt'
        BY <2>3, <2>4 DEF PromptReply!PeekShowsPrompt, PromptReply!IsSuffix, PromptReply!PromptLines
    <2> QED
        BY <2>5, <2>6, <2>7 DEF PromptHolds
<1> QED
    BY <1>2, <1>3

\* One key, and one less to the option.
LEMMA PressStep == PromptHolds /\ PromptReply!Press => PromptHolds'
<1> SUFFICES ASSUME PromptHolds, PromptReply!Press PROVE PromptHolds'
    OBVIOUS
<1>1. /\ PromptInv /\ ReplyInv /\ above' = above /\ request.at = "keys" /\ request.keys # <<>>
      /\ above \in Seq(LineKinds) /\ Len(above) <= LinesAbove /\ prompt \in Prompts \union {NoPrompt}
    BY DEF PromptHolds, PromptReply!Press, PromptInv
<1>2. CASE PromptReply!Fails /\ prompt' = prompt /\ answer' = answer
    BY <1>1, <1>2, FailStep
<1>3. CASE ~(PromptReply!Fails /\ prompt' = prompt /\ answer' = answer)
    <2> DEFINE does == request.does
               pane == request.pane
               keys == request.keys
               saw == request.saw
               moved == request.moved
               shown == request.shown
               wanted == request.does.option
    <2>1. request' = [request EXCEPT !.keys = Tail(@)]
        BY <1>3 DEF PromptReply!Press
    <2>2. IF PromptReply!Here
          THEN \E next \in PromptReply!After(prompt, Head(keys)) :
                  prompt' = next.prompt /\ answer' = next.answer
          ELSE prompt' = prompt /\ answer' = answer
        BY <1>3 DEF PromptReply!Press
    <2>3. request' = Asked(does, "keys", pane, Tail(keys), saw, moved, shown)
        BY <1>1, <2>1 DEF PromptInv, RequestTyped, Asked
    <2>4. /\ does \in PromptReply!Does /\ "keys" \in Stages /\ keys \in Seq(KeyNames) /\ keys # <<>>
          /\ pane \in {AgentPane, OtherPane, NoPane} /\ saw \in Prompts \union {NoPrompt}
          /\ does.what # "peek" /\ wanted \in Nat /\ moved \in Nat
        <3>1. request.does \in PromptReply!Does
            BY <1>1 DEF PromptInv, RequestTyped
        <3>2. request.does.option \in Nat
            BY <3>1, MostIs DEF PromptReply!Does, PromptReply!Options
        <3> QED
            BY <1>1, <3>1, <3>2 DEF PromptInv, RequestTyped, Stages
    <2>5. Head(keys) \in KeyNames /\ Tail(keys) \in Seq(KeyNames)
        BY <2>4, HeadTailProperties
    <2>6. Replying =>
             \/ Tail(keys) = <<>> /\ Answered(answer', does, saw, moved)
             \/ PromptReply!Here /\ OnCourse(Tail(keys), prompt', does, saw, moved)
        <3> SUFFICES ASSUME Replying
                     PROVE  \/ Tail(keys) = <<>> /\ Answered(answer', does, saw, moved)
                            \/ PromptReply!Here /\ OnCourse(Tail(keys), prompt', does, saw, moved)
            OBVIOUS
        <3>1. PromptReply!Here /\ OnCourse(keys, prompt, does, saw, moved) /\ wanted \in 1..saw.options
            BY <1>1 DEF ReplyInv, Replying
        <3>2. PICK v \in 1..saw.options :
                 keys = PromptReply!KeysTo(wanted, v) /\ Near(prompt.cursor, v, moved)
            BY <3>1 DEF OnCourse
        <3>3. PICK next \in PromptReply!After(prompt, Head(keys)) :
                 prompt' = next.prompt /\ answer' = next.answer
            BY <2>2, <3>1
        <3>4. /\ prompt \in Prompts /\ prompt # NoPrompt /\ prompt.options = saw.options
              /\ saw.options \in Nat /\ prompt.cursor \in 1..saw.options
            BY <3>1, <3>2, PromptTyped DEF OnCourse
        <3>5. CASE wanted > v
            <4>1. Head(keys) = "Down" /\ Tail(keys) = PromptReply!KeysTo(wanted, v + 1)
                <5>1. v \in Nat /\ keys = PromptReply!KeysTo(wanted, v)
                    BY <3>2, <3>4
                <5> HIDE DEF keys, wanted
                <5> QED
                    BY <2>4, <3>5, <5>1, KeysAre
            <4>2. /\ prompt' \in Prompts /\ prompt'.options = saw.options
                  /\ prompt'.cursor = Below(prompt.cursor, saw.options)
                BY <1>1, <2>5, <3>3, <3>4, <4>1, AfterIs
            <4>3. v + 1 \in 1..saw.options /\ Near(prompt'.cursor, v + 1, moved)
                BY <2>4, <3>1, <3>2, <3>4, <3>5, <4>2, KeysKeepNear
            <4> QED
                BY <3>1, <4>1, <4>2, <4>3 DEF OnCourse
        <3>6. CASE wanted < v
            <4>1. Head(keys) = "Up" /\ Tail(keys) = PromptReply!KeysTo(wanted, v - 1)
                <5>1. v \in Nat /\ keys = PromptReply!KeysTo(wanted, v)
                    BY <3>2, <3>4
                <5> HIDE DEF keys, wanted
                <5> QED
                    BY <2>4, <3>6, <5>1, KeysAre
            <4>2. /\ prompt' \in Prompts /\ prompt'.options = saw.options
                  /\ prompt'.cursor = Above(prompt.cursor)
                BY <1>1, <2>5, <3>3, <3>4, <4>1, AfterIs
            <4>3. v - 1 \in 1..saw.options /\ Near(prompt'.cursor, v - 1, moved)
                BY <2>4, <3>1, <3>2, <3>4, <3>6, <4>2, KeysKeepNear
            <4> QED
                BY <3>1, <4>1, <4>2, <4>3 DEF OnCourse
        <3>7. CASE wanted = v
            <4>1. keys = <<"Enter">>
                BY <2>4, <3>2, <3>7, KeysAre
            <4>2. Head(keys) = "Enter" /\ Tail(keys) = <<>>
                BY <4>1
            <4>3. next.answer = prompt.cursor
                BY <1>1, <2>5, <3>3, <3>4, <4>2, AfterIs
            <4> QED
                BY <3>2, <3>3, <3>4, <3>7, <4>2, <4>3 DEF Answered
        <3> QED
            BY <2>4, <3>2, <3>5, <3>6, <3>7
    <2>7. /\ prompt' \in Prompts \union {NoPrompt}
          /\ answer' \in PromptReply!Options \union {NoAnswer}
        <3>1. CASE PromptReply!Here
            <4>1. PICK next \in PromptReply!After(prompt, Head(keys)) :
                     prompt' = next.prompt /\ answer' = next.answer
                BY <2>2, <3>1
            <4> QED
                BY <1>1, <2>5, <4>1, AfterIs
        <3>2. CASE ~PromptReply!Here
            BY <1>1, <2>2, <3>2 DEF PromptInv
        <3> QED
            BY <3>1, <3>2
    <2>8. /\ RequestTyped' /\ request'.does = does /\ request'.at = "keys" /\ request'.pane = pane
          /\ request'.keys = Tail(keys) /\ request'.saw = saw /\ request'.moved = moved
        <3> DEFINE rest == Tail(keys)
        <3>1. rest \in Seq(KeyNames) /\ request' = Asked(does, "keys", pane, rest, saw, moved, shown)
            BY <2>3, <2>5
        <3> HIDE DEF does, pane, keys, saw, moved, shown, rest
        <3>2. /\ RequestTyped' /\ request'.does = does /\ request'.at = "keys" /\ request'.pane = pane
              /\ request'.keys = rest /\ request'.saw = saw /\ request'.moved = moved
            BY <2>4, <3>1, RequestIs
        <3> QED
            BY <3>2 DEF rest
    <2>9. PromptInv'
        BY <1>1, <2>7, <2>8 DEF PromptInv, Prompts, PromptReply!Prompts, PromptReply!MostOptions,
           PromptReply!Options
    <2>10. ReplyInv'
        BY <2>6, <2>8 DEF ReplyInv, Replying, PromptReply!Here, Prompts, PromptReply!Prompts,
           PromptReply!MostOptions, PromptReply!KeysTo, OnCourse, Answered, Near
    <2>11. PromptReply!PeekShowsPrompt'
        BY <2>8 DEF PromptReply!PeekShowsPrompt
    <2> QED
        BY <2>9, <2>10, <2>11 DEF PromptHolds
<1> QED
    BY <1>2, <1>3

LEMMA ReturnStep == PromptHolds /\ PromptReply!Return => PromptHolds'
<1> SUFFICES ASSUME PromptHolds, PromptReply!Return PROVE PromptHolds'
    OBVIOUS
<1> DEFINE does == request.does
           pane == request.pane
           keys == request.keys
           saw == request.saw
           moved == request.moved
           shown == request.shown
<1>1. /\ PromptInv /\ ReplyInv /\ above' = above /\ prompt' = prompt /\ answer' = answer
      /\ request.at = "keys" /\ keys = <<>> /\ request' = [request EXCEPT !.at = "done"]
    BY DEF PromptHolds, PromptReply!Return
<1>2. request' = Asked(does, "done", pane, keys, saw, moved, shown)
    BY <1>1 DEF PromptInv, RequestTyped, Asked
<1>3. /\ does \in PromptReply!Does /\ "done" \in Stages /\ keys \in Seq(KeyNames)
      /\ pane \in {AgentPane, OtherPane, NoPane} /\ saw \in Prompts \union {NoPrompt}
      /\ does.what # "peek" /\ moved \in Nat
    BY <1>1 DEF PromptInv, RequestTyped, Stages
<1>4. Replying => Answered(answer, does, saw, moved)
    <2> SUFFICES ASSUME NEW v \in Nat, keys = PromptReply!KeysTo(request.does.option, v)
                 PROVE  FALSE
        BY <1>1 DEF ReplyInv, OnCourse
    <2>1. request.does.option \in Nat
        BY <1>3, MostIs DEF PromptReply!Does, PromptReply!Options
    <2> QED
        BY <1>1, <2>1, KeysAre
<1> HIDE DEF does, pane, keys, saw, moved, shown
<1>5. /\ RequestTyped' /\ request'.does = does /\ request'.at = "done" /\ request'.saw = saw
      /\ request'.moved = moved
    BY <1>2, <1>3, RequestIs
<1>6. PromptInv'
    BY <1>1, <1>5 DEF PromptInv, Prompts, PromptReply!Prompts, PromptReply!MostOptions,
       PromptReply!Options
<1>7. ReplyInv'
    BY <1>1, <1>4, <1>5 DEF ReplyInv, Replying, does, saw, Answered, Near
<1>8. PromptReply!PeekShowsPrompt'
    BY <1>3, <1>5 DEF PromptReply!PeekShowsPrompt
<1> QED
    BY <1>6, <1>7, <1>8 DEF PromptHolds

LEMMA PromptStep == PromptHolds /\ [PromptReply!Next]_screen => PromptHolds'
<1> SUFFICES ASSUME PromptHolds, [PromptReply!Next]_screen PROVE PromptHolds'
    OBVIOUS
<1>1. CASE UNCHANGED screen
    BY <1>1 DEF screen, PromptHolds, PromptInv, RequestTyped, ReplyInv, Replying,
       PromptReply!PeekShowsPrompt, PromptReply!Here, Prompts, PromptReply!Prompts,
       PromptReply!MostOptions, PromptReply!Options, PromptReply!Does, OnCourse, Answered, Near,
       PromptReply!KeysTo
<1>2. CASE PromptReply!Next
    BY <1>2, OutputStep, ElseStep, TypeStep, BeginStep, FetchStep, KillStep, PressWithoutReadingStep,
       ReadCursorStep, PeekStep, PressStep, ReturnStep DEF PromptReply!Next
<1> QED
    BY <1>1, <1>2

LEMMA PromptStarts == PromptReply!Init => PromptHolds
<1> SUFFICES ASSUME PromptReply!Init PROVE PromptHolds
    OBVIOUS
<1> DEFINE none == [what |-> "peek", option |-> 0]
<1>1. /\ above = <<>> /\ prompt = NoPrompt /\ answer = NoAnswer
      /\ request = Asked(none, "off", NoPane, <<>>, NoPrompt, 0, <<>>)
    BY DEF PromptReply!Init, PromptReply!NoRequest, Asked
<1>2. none \in PromptReply!Does /\ "off" \in Stages /\ <<>> \in Seq(KeyNames)
    BY DEF PromptReply!Does, Stages
<1> HIDE DEF none
<1>3. /\ request.does = none /\ request.at = "off" /\ request.pane = NoPane
      /\ request.keys = <<>> /\ request.saw = NoPrompt /\ request.moved = 0
      /\ request.shown = <<>>
    BY <1>1 DEF Asked
<1>4. RequestTyped
    <2>1. request = Asked(request.does, request.at, request.pane,
                          request.keys, request.saw, request.moved, request.shown)
        BY <1>1, <1>3
    <2> QED
        BY <1>2, <1>3, <2>1 DEF RequestTyped
<1>5. <<>> \in Seq(LineKinds) /\ Len(<<>>) <= LinesAbove
    BY EnvironmentAssumption
<1> QED
    BY <1>1, <1>3, <1>4, <1>5 DEF PromptHolds, PromptInv, ReplyInv, Replying, PromptReply!PeekShowsPrompt

LEMMA PromptHoldsAlways == Spec => [](area = "prompt" => PromptHolds)
<1> DEFINE Inv == area = "prompt" => PromptHolds
<1>1. Init => Inv
    BY PromptStarts DEF Init
<1>2. Inv /\ [Next]_vars => Inv'
    <2> SUFFICES ASSUME Inv, [Next]_vars, area' = "prompt" PROVE PromptHolds'
        OBVIOUS
    <2>1. area = "prompt" /\ [PromptReply!Next]_screen
        BY DEF Next, vars
    <2> QED
        BY <2>1, PromptStep
<1> QED
    BY <1>1, <1>2, PTL DEF Spec

\* reply, peek: the option asked for is the one the agent takes, give or take the
\* user's arrow keys, wherever the cursor is and whatever is above the prompt, if
\* there is no second cursor above it and nobody else ends it; and peek shows the
\* whole prompt, if it has at most nine options and its cursor is on the first five.
THEOREM PromptIsServed == Spec => []PromptServed
<1>1. ASSUME PromptHolds PROVE PromptReply!ReplyAnswers
    <2> SUFFICES ASSUME Replying, request.at = "done"
                 PROVE  /\ answer \in 1..request.saw.options
                        /\ answer \in (request.does.option - request.moved)
                                      ..(request.does.option + request.moved)
        BY DEF PromptReply!ReplyAnswers, Replying
    <2>1. Answered(answer, request.does, request.saw, request.moved)
        BY <1>1 DEF PromptHolds, ReplyInv
    <2>2. request.moved \in Nat /\ request.does.option \in Nat /\ answer \in Int
        BY <1>1, <2>1, MostIs DEF PromptHolds, PromptInv, RequestTyped, PromptReply!Does,
           PromptReply!Options, Answered
    <2> QED
        BY <2>1, <2>2 DEF Answered, Near
<1>2. (area = "prompt" => PromptHolds) => PromptServed
    BY <1>1 DEF PromptServed, PromptHolds, PromptReply!PromptServed
<1> QED
    BY <1>2, PromptHoldsAlways, PTL

-----------------------------------------------------------------------------
(* All areas: types *)

LEMMA PromptTypes ==
    ASSUME PromptHolds
    PROVE  PromptReply!TypeOK
<1>1. \A i \in DOMAIN above : above[i] \in LineKinds
    BY DEF PromptHolds, PromptInv
<1> QED
    BY <1>1 DEF PromptHolds, PromptInv, RequestTyped, Stages, Prompts, PromptReply!TypeOK

\* setup, workspace, layout, discover, reply and peek: the variables keep their
\* types, whatever is cut short, raced or refused.
THEOREM EnvironmentTyped == Spec => []TypeOK
<1>1. (area = "discovery" => DiscoveryInv) => (area = "discovery" => Discovery!TypeOK)
    BY DEF DiscoveryInv, DiscoveryTyped
<1>2. (area = "prompt" => PromptHolds) => (area = "prompt" => PromptReply!TypeOK)
    BY PromptTypes
<1>3. /\ /\ area = "setup" => Setup!TypeOK
         /\ area = "workspace" => Workspace!TypeOK
         /\ area = "layout" => PaneLayout!TypeOK
      /\ area = "discovery" => Discovery!TypeOK
      /\ area = "prompt" => PromptReply!TypeOK
      => TypeOK
    BY DEF TypeOK
<1> QED
    BY <1>1, <1>2, <1>3, TypesHold, DiscoveryHolds, PromptHoldsAlways, PTL

=============================================================================
