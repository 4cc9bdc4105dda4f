------------------------------ MODULE TuiProofs ------------------------------
(***************************************************************************)
(* Theorems about the terminal UI for all views, panes and filters, and    *)
(* any height of the list.                                                 *)
(***************************************************************************)
EXTENDS TuiApp, FiniteSetTheorems, SequenceTheorems, WellFoundedInduction, TLAPS

\* No d is pending while help is displayed, and one that is pending is aimed at
\* what is under the cursor.
ArmedInv ==
    /\ show_help => input.mode # "PendingD"
    /\ input.mode = "PendingD" => armed = Aim("PendingD", tree_rows, selected_index)

\* The pane whose output is wanted is the selected one, and what is displayed
\* comes from the pane whose output is wanted.
CaptureInv ==
    /\ lagging \/ capture_pane_id = SelectedPane(tree_rows, selected_index)
    /\ captured_output \in {NoPane, capture_pane_id}

\* Induction, for a set of numbers.
LEMMA NatInductive ==
    ASSUME NEW S, 0 \in S, \A k \in Nat : k \in S => k + 1 \in S
    PROVE  Nat \subseteq S
<1> DEFINE Bad == Nat \ S
<1> SUFFICES ASSUME Bad # {} PROVE FALSE
  OBVIOUS
<1>1. PICK m \in Bad : \A k \in Bad : ~(<<k, m>> \in OpToRel(<, Nat))
  BY NatLessThanWellFounded, WFMin
<1>2. m \in Nat /\ m \notin S /\ m # 0
  BY <1>1
<1>3. m - 1 \in Nat /\ m - 1 < m /\ (m - 1) + 1 = m
  BY <1>2
<1>4. m - 1 \in S
  BY <1>1, <1>2, <1>3, Zenon DEF OpToRel
<1> QED
  BY <1>2, <1>3, <1>4

\* The same up to a bound.
LEMMA UpToInductive ==
    ASSUME NEW n \in Nat, NEW S, 0 \in S, \A k \in 0..(n - 1) : k \in S => k + 1 \in S
    PROVE  0..n \subseteq S
<1> DEFINE P == S \union {k \in Nat : k > n}
<1>1. ASSUME NEW k \in Nat, k \in P PROVE k + 1 \in P
  <2>1. CASE k \in 0..(n - 1)
    BY <1>1, <2>1
  <2>2. CASE k \notin 0..(n - 1)
    <3>1. k + 1 \in Nat /\ k + 1 > n
      BY <2>2
    <3> QED
      BY <3>1
  <2> QED
    BY <2>1, <2>2
<1>2. 0 \in P
  OBVIOUS
<1> HIDE DEF P
<1>3. Nat \subseteq P
  BY <1>1, <1>2, NatInductive
<1> QED
  BY <1>3 DEF P

\* u is s and then t.
Halves(u, s, t) ==
    /\ Len(u) = Len(s) + Len(t) /\ Len(s) \in Nat /\ Len(t) \in Nat
    /\ \A m \in 1..Len(s) : u[m] = s[m]
    /\ \A m \in 1..Len(t) : u[Len(s) + m] = t[m]

\* What the concatenation of two sequences holds, and where.
LEMMA ConcatHalves ==
    ASSUME NEW X, NEW s \in Seq(X), NEW t \in Seq(X)
    PROVE  s \o t \in Seq(X) /\ Halves(s \o t, s, t)
<1>1. Len(s) \in Nat /\ Len(t) \in Nat
  OBVIOUS
<1>2. \A m \in 1..Len(t) :
         Len(s) + m \in 1..(Len(s) + Len(t)) /\ ~(Len(s) + m <= Len(s)) /\ (Len(s) + m) - Len(s) = m
  BY <1>1
<1>3. \A m \in 1..Len(s) : m \in 1..(Len(s) + Len(t)) /\ m <= Len(s)
  BY <1>1
<1> DEFINE st == s \o t
<1>4. /\ st \in Seq(X) /\ Len(st) = Len(s) + Len(t)
      /\ \A i \in 1..(Len(s) + Len(t)) : st[i] = IF i <= Len(s) THEN s[i] ELSE t[i - Len(s)]
  BY ConcatProperties, Zenon
<1> HIDE DEF st
<1>5. \A m \in 1..Len(s) : st[m] = s[m]
  BY <1>3, <1>4
<1>6. \A m \in 1..Len(t) : st[Len(s) + m] = t[m]
  <2>1. ASSUME NEW m \in 1..Len(t)
        PROVE  st[Len(s) + m] = t[m]
    <3> DEFINE i == Len(s) + m
    <3>1. i \in 1..(Len(s) + Len(t)) /\ ~(i <= Len(s)) /\ i - Len(s) = m
      BY <1>2
    <3> HIDE DEF i
    <3>2. st[i] = t[m]
      BY <1>4, <3>1
    <3> QED
      BY <3>2 DEF i
  <2> QED
    BY <2>1
<1> QED
  BY <1>1, <1>4, <1>5, <1>6, Zenon DEF st, Halves

\* f[i] joins the first i of the sequences ss.
Joined(so_far, s, i) == IF i = 1 THEN s ELSE so_far \o s
Joins(f, ss, n) == f = [i \in 1..n |-> Joined(f[i - 1], ss[i], i)]

\* The recursion by which FlattenSeq joins sequences has a solution.
LEMMA JoinExists ==
    ASSUME NEW ss, NEW n \in Nat
    PROVE  \E f : Joins(f, ss, n)
<1> DEFINE P == {k \in Nat : \E f : Joins(f, ss, k)}
<1>1. ASSUME NEW k \in Nat, NEW f, Joins(f, ss, k)
      PROVE  \E g : Joins(g, ss, k + 1)
  <2> DEFINE g == [i \in 1..(k + 1) |-> IF i = k + 1 THEN Joined(f[k], ss[i], i) ELSE f[i]]
  <2>1. \A i \in 1..k : f[i] = Joined(f[i - 1], ss[i], i)
    BY <1>1 DEF Joins
  <2>2. \A x, y, s : Joined(x, s, 1) = Joined(y, s, 1)
    BY DEF Joined
  <2>3. ASSUME NEW i \in 1..(k + 1)
        PROVE  g[i] = Joined(g[i - 1], ss[i], i)
    <3>1. CASE i = k + 1 /\ k # 0
      <4>1. k \in 1..(k + 1) /\ k # k + 1 /\ i - 1 = k
        BY <3>1
      <4> QED
        BY <3>1, <4>1
    <3>2. CASE i # k + 1 /\ i # 1
      <4>1. i \in 1..k /\ i - 1 \in 1..(k + 1) /\ i - 1 # k + 1
        BY <3>2
      <4> QED
        BY <2>1, <3>2, <4>1
    <3>3. CASE i = 1
      <4>1. g[i] = Joined(IF i = k + 1 THEN f[k] ELSE f[i - 1], ss[i], i)
        BY <2>1, <3>3
      <4> HIDE DEF g
      <4> QED
        BY <2>2, <3>3, <4>1
    <3> QED
      BY <3>1, <3>2, <3>3
  <2>4. g = [i \in 1..(k + 1) |-> g[i]]
    OBVIOUS
  <2> HIDE DEF g
  <2>5. Joins(g, ss, k + 1)
    BY <2>3, <2>4 DEF Joins
  <2> QED
    BY <2>5
<1>2. Joins([i \in 1..0 |-> ss[1]], ss, 0)
  BY DEF Joins
<1>3. 0 \in P
  BY <1>2
<1>4. \A k \in Nat : k \in P => k + 1 \in P
  BY <1>1
<1> HIDE DEF P
<1>5. n \in P
  BY <1>3, <1>4, NatInductive
<1> QED
  BY <1>5 DEF P

\* What it joins is a sequence of elements of the sequences.
LEMMA JoinTyped ==
    ASSUME NEW X, NEW ss \in Seq(Seq(X)), NEW f, Joins(f, ss, Len(ss))
    PROVE  \A i \in 1..Len(ss) :
              /\ f[i] \in Seq(X)
              /\ i = 1 => f[i] = ss[i]
              /\ i # 1 => /\ f[i] = f[i - 1] \o ss[i]
                          /\ Len(f[i]) = Len(f[i - 1]) + Len(ss[i])
<1>a. \A i \in 1..Len(ss) : ss[i] \in Seq(X)
  OBVIOUS
<1>b. \A i \in 1..Len(ss) : f[i] = Joined(f[i - 1], ss[i], i)
  BY DEF Joins
<1>1. \A i \in 1..Len(ss) : ss[i] \in Seq(X) /\ f[i] = IF i = 1 THEN ss[i] ELSE f[i - 1] \o ss[i]
  BY <1>a, <1>b, Zenon DEF Joined
<1> DEFINE P == {i \in Nat : i = 0 \/ f[i] \in Seq(X)}
<1>2. ASSUME NEW k \in 0..(Len(ss) - 1), k \in P
      PROVE  k + 1 \in P
  <2>1. k + 1 \in 1..Len(ss) /\ (k + 1) - 1 = k /\ k + 1 \in Nat
    BY <1>2
  <2>2. CASE k = 0
    BY <1>1, <2>1, <2>2
  <2>3. CASE k # 0
    <3>1. f[k] \in Seq(X) /\ ss[k + 1] \in Seq(X) /\ k + 1 # 1
      BY <1>1, <1>2, <2>1, <2>3
    <3>2. f[k + 1] = f[k] \o ss[k + 1]
      BY <1>1, <2>1, <3>1
    <3> QED
      BY <2>1, <3>1, <3>2, ConcatProperties
  <2> QED
    BY <2>2, <2>3
<1>3. 0 \in P
  OBVIOUS
<1> HIDE DEF P
<1>4. Len(ss) \in Nat
  OBVIOUS
<1>5. 0..Len(ss) \subseteq P
  BY <1>2, <1>3, <1>4, UpToInductive
<1>6. ASSUME NEW i \in 1..Len(ss)
      PROVE  f[i] \in Seq(X)
  <2>1. i \in 0..Len(ss) /\ i # 0
    BY <1>4
  <2>2. i \in P
    BY <1>5, <2>1
  <2> QED
    BY <2>1, <2>2, Zenon DEF P
<1>7. ASSUME NEW i \in 1..Len(ss), i # 1
      PROVE  Len(f[i]) = Len(f[i - 1]) + Len(ss[i])
  <2>1. f[i - 1] \in Seq(X) /\ ss[i] \in Seq(X) /\ f[i] = f[i - 1] \o ss[i]
    <3>1. i - 1 \in 1..Len(ss)
      BY <1>4, <1>7
    <3>2. f[i - 1] \in Seq(X)
      BY <1>6, <3>1
    <3> QED
      BY <1>1, <1>7, <3>2, Zenon
  <2> QED
    BY <2>1, ConcatProperties
<1> QED
  BY <1>1, <1>6, <1>7

\* off[j] is how many elements the first j sequences of ss have together.
Layout(flat, ss, off) ==
    /\ off \in [0..Len(ss) -> Nat] /\ off[0] = 0
    /\ \A j \in 1..Len(ss) : off[j] = off[j - 1] + Len(ss[j])
    /\ Len(flat) = off[Len(ss)]
    /\ \A j \in 1..Len(ss) : \A k \in 1..Len(ss[j]) : flat[off[j - 1] + k] = ss[j][k]

\* It puts each sequence where the ones before it end.
LEMMA JoinLaysOut ==
    ASSUME NEW X, NEW ss \in Seq(Seq(X)), NEW f, Joins(f, ss, Len(ss)), Len(ss) # 0
    PROVE  \E off : Layout(f[Len(ss)], ss, off)
<1> DEFINE n == Len(ss)
           off == [j \in 0..n |-> IF j = 0 THEN 0 ELSE Len(f[j])]
<1>1. n \in Nat /\ n # 0 /\ n \in 1..n
  OBVIOUS
<1>2. \A i \in 1..n : /\ f[i] \in Seq(X) /\ ss[i] \in Seq(X)
                      /\ i = 1 => f[i] = ss[i]
                      /\ i # 1 => f[i] = f[i - 1] \o ss[i] /\ Len(f[i]) = Len(f[i - 1]) + Len(ss[i])
  <2>1. \A i \in 1..n : ss[i] \in Seq(X)
    OBVIOUS
  <2>2. \A i \in 1..n : /\ f[i] \in Seq(X)
                        /\ i = 1 => f[i] = ss[i]
                        /\ i # 1 => /\ f[i] = f[i - 1] \o ss[i]
                                    /\ Len(f[i]) = Len(f[i - 1]) + Len(ss[i])
    BY JoinTyped, ZenonT(30)
  <2> QED
    BY <2>1, <2>2, Zenon
<1>3. \A i \in 1..n : off[i] = Len(f[i]) /\ off[i] \in Nat /\ Len(ss[i]) \in Nat
  BY <1>2
<1>4. off \in [0..n -> Nat] /\ off[0] = 0 /\ off[n] = Len(f[n])
  BY <1>1, <1>3
<1> HIDE DEF off
<1> HIDE DEF n
<1>5. ASSUME NEW j \in 1..n
      PROVE  off[j] = off[j - 1] + Len(ss[j])
  <2>1. CASE j = 1
    <3>1. f[j] = ss[j] /\ off[j] = Len(f[j]) /\ Len(ss[j]) \in Nat
      BY <1>2, <1>3, <2>1, Zenon
    <3>2. off[j] = Len(ss[j]) /\ off[j - 1] = 0
      BY <1>4, <2>1, <3>1
    <3> QED
      BY <3>1, <3>2
  <2>2. CASE j # 1
    <3>1. j - 1 \in 1..n
      BY <1>1, <2>2
    <3>2. Len(f[j]) = Len(f[j - 1]) + Len(ss[j])
      BY <1>2, <2>2, Zenon
    <3>3. off[j] = Len(f[j]) /\ off[j - 1] = Len(f[j - 1])
      BY <1>3, <3>1
    <3> QED
      BY <3>2, <3>3
  <2> QED
    BY <2>1, <2>2
<1> DEFINE P == {i \in Nat : \A j \in 1..i : \A k \in 1..Len(ss[j]) :
                    off[j - 1] + k \in 1..off[i] /\ f[i][off[j - 1] + k] = ss[j][k]}
<1>6. ASSUME NEW i \in 0..(n - 1), i \in P
      PROVE  i + 1 \in P
  <2>1. i + 1 \in 1..n /\ (i + 1) - 1 = i /\ i \in Nat /\ i + 1 \in Nat
    BY <1>1
  <2>2. off[i + 1] = off[i] + Len(ss[i + 1]) /\ off[i] \in Nat /\ Len(ss[i + 1]) \in Nat
    <3>1. off[i + 1] = off[(i + 1) - 1] + Len(ss[i + 1])
      BY <1>5, <2>1, Zenon
    <3>2. Len(ss[i + 1]) \in Nat
      BY <1>3, <2>1, Zenon
    <3>3. off[i] \in Nat
      BY <1>1, <1>4
    <3> QED
      BY <2>1, <3>1, <3>2, <3>3
  <2>3. /\ \A m \in 1..off[i] : f[i + 1][m] = f[i][m]
        /\ \A m \in 1..Len(ss[i + 1]) : f[i + 1][off[i] + m] = ss[i + 1][m]
    <3>1. CASE i = 0
      <4>1. f[i + 1] = ss[i + 1] /\ off[i] = 0
        <5>1. i + 1 = 1
          BY <3>1
        <5> QED
          BY <1>2, <1>4, <2>1, <3>1, <5>1, Zenon
      <4>2. \A m \in 1..Len(ss[i + 1]) : off[i] + m = m
        BY <4>1, <2>2
      <4> QED
        BY <4>1, <4>2
    <3>2. CASE i # 0
      <4>1. i \in 1..n /\ i + 1 # 1
        BY <1>1, <2>1, <3>2
      <4>2. f[i + 1] = f[(i + 1) - 1] \o ss[i + 1]
        BY <1>2, <2>1, <4>1, Zenon
      <4>3. f[i] \in Seq(X) /\ ss[i + 1] \in Seq(X) /\ off[i] = Len(f[i])
        BY <1>2, <1>3, <2>1, <4>1, Zenon
      <4> DEFINE u == f[i]
                 w == ss[i + 1]
      <4>4. f[i + 1] = u \o w
        BY <2>1, <4>2
      <4>5. u \in Seq(X) /\ w \in Seq(X)
        BY <4>3
      <4> HIDE DEF u, w
      <4>6. Halves(u \o w, u, w)
        BY <4>5, ConcatHalves, Zenon
      <4> QED
        BY <4>3, <4>4, <4>6, Zenon DEF u, w, Halves
    <3> QED
      BY <3>1, <3>2
  <2>4. ASSUME NEW j \in 1..(i + 1), NEW k \in 1..Len(ss[j])
        PROVE  off[j - 1] + k \in 1..off[i + 1] /\ f[i + 1][off[j - 1] + k] = ss[j][k]
    <3>1. CASE j = i + 1
      <4>1. off[j - 1] = off[i] /\ k \in 1..Len(ss[i + 1])
        BY <2>1, <3>1
      <4> QED
        BY <2>2, <2>3, <3>1, <4>1
    <3>2. CASE j # i + 1
      <4>1. j \in 1..i
        BY <3>2, <2>1
      <4>2. off[j - 1] + k \in 1..off[i] /\ f[i][off[j - 1] + k] = ss[j][k]
        BY <1>6, <4>1
      <4>3. f[i + 1][off[j - 1] + k] = f[i][off[j - 1] + k]
        BY <2>3, <4>2, Zenon
      <4>4. off[j - 1] + k \in 1..off[i + 1]
        <5>1. \A a, b, c : a \in 1..b /\ b \in Nat /\ c \in Nat /\ b <= c => a \in 1..c
          OBVIOUS
        <5>2. off[i] <= off[i + 1] /\ off[i] \in Nat /\ off[i + 1] \in Nat
          BY <2>2
        <5> QED
          BY <4>2, <5>1, <5>2, Zenon
      <4> QED
        BY <4>2, <4>3, <4>4
    <3> QED
      BY <3>1, <3>2
  <2> QED
    BY <2>1, <2>4
<1>7. 0 \in P
  OBVIOUS
<1> HIDE DEF P
<1>8. n \in P
  <2>1. 0..n \subseteq P
    BY <1>1, <1>6, <1>7, UpToInductive
  <2> QED
    BY <1>1, <2>1
<1>9. \A j \in 1..n : \A k \in 1..Len(ss[j]) : f[n][off[j - 1] + k] = ss[j][k]
  BY <1>8 DEF P
<1>10. Layout(f[n], ss, off)
  BY <1>4, <1>5, <1>9 DEF Layout, n
<1> QED
  BY <1>10 DEF n

\* What FlattenSeq is.
LEMMA FlattenLaysOut ==
    ASSUME NEW X, NEW ss \in Seq(Seq(X))
    PROVE  /\ FlattenSeq(ss) \in Seq(X)
           /\ \E off : Layout(FlattenSeq(ss), ss, off)
<1>1. CASE Len(ss) = 0
  <2>1. ss = <<>> /\ FlattenSeq(ss) = <<>>
    BY <1>1, EmptySeq DEF FlattenSeq
  <2>2. Layout(<<>>, ss, [j \in 0..0 |-> 0])
    BY <2>1 DEF Layout
  <2> QED
    BY <2>1, <2>2
<1>2. CASE Len(ss) # 0
  <2> DEFINE f == CHOOSE f : f = [i \in 1..Len(ss) |->
                                    IF i = 1 THEN ss[i] ELSE f[i - 1] \o ss[i]]
  <2>1. Joins(f, ss, Len(ss))
    <3>1. \E g : g = [i \in 1..Len(ss) |-> IF i = 1 THEN ss[i] ELSE g[i - 1] \o ss[i]]
      <4>1. PICK g : Joins(g, ss, Len(ss))
        <5>1. Len(ss) \in Nat
          OBVIOUS
        <5> QED
          BY <5>1, JoinExists, Zenon
      <4> QED
        BY <4>1, Zenon DEF Joins, Joined
    <3> QED
      BY <3>1, Zenon DEF Joins, Joined
  <2>2. FlattenSeq(ss) = f[Len(ss)]
    BY <1>2, Zenon DEF FlattenSeq
  <2> HIDE DEF f
  <2>3. f[Len(ss)] \in Seq(X)
    <3>1. Len(ss) \in 1..Len(ss)
      BY <1>2
    <3> QED
      BY <2>1, <3>1, JoinTyped, Zenon
  <2>4. \E off : Layout(f[Len(ss)], ss, off)
    BY <1>2, <2>1, JoinLaysOut, Zenon
  <2> QED
    BY <2>2, <2>3, <2>4, Zenon
<1> QED
  BY <1>1, <1>2

\* Every place of the whole is a place of one of the parts.
Rises(flat, ss, off) ==
    /\ \A j, l \in 0..Len(ss) : j <= l => off[j] <= off[l]
    /\ \A j \in 1..Len(ss) : \A k \in 1..Len(ss[j]) : off[j - 1] + k \in 1..Len(flat)
    /\ \A i \in 1..Len(flat) : \E j \in 1..Len(ss) : \E k \in 1..Len(ss[j]) :
          i = off[j - 1] + k

\* Every element of a joined sequence comes from one place of one part, in order.
LEMMA LayoutRises ==
    ASSUME NEW X, NEW ss \in Seq(Seq(X)), NEW flat \in Seq(X), NEW off, Layout(flat, ss, off)
    PROVE  Rises(flat, ss, off)
<1> DEFINE n == Len(ss)
<1>1. n \in Nat /\ off \in [0..n -> Nat] /\ off[0] = 0 /\ Len(flat) = off[n]
      /\ \A j \in 1..n : off[j] = off[j - 1] + Len(ss[j]) /\ Len(ss[j]) \in Nat
  BY DEF Layout
<1> HIDE DEF n
<1> DEFINE P == {l \in Nat :
                    /\ \A j \in 0..l : off[j] <= off[l]
                    /\ \A i \in 1..off[l] : \E j \in 1..l : \E k \in 1..Len(ss[j]) : i = off[j - 1] + k}
<1>2. ASSUME NEW l \in 0..(n - 1), l \in P
      PROVE  l + 1 \in P
  <2>1. l \in Nat /\ l + 1 \in Nat /\ l \in 0..n /\ l + 1 \in 1..n /\ (l + 1) - 1 = l
    BY <1>1
  <2>2. off[l + 1] = off[l] + Len(ss[l + 1]) /\ off[l] \in Nat /\ Len(ss[l + 1]) \in Nat
    BY <1>1, <2>1
  <2>3. ASSUME NEW j \in 0..(l + 1)
        PROVE  off[j] <= off[l + 1]
    <3>1. CASE j = l + 1
      BY <2>2, <3>1
    <3>2. CASE j # l + 1
      <4>1. j \in 0..l /\ j \in 0..n
        BY <1>1, <2>1, <3>2
      <4>2. off[j] <= off[l] /\ off[j] \in Nat
        BY <1>1, <1>2, <4>1
      <4> QED
        BY <2>2, <4>2
    <3> QED
      BY <3>1, <3>2
  <2>4. ASSUME NEW i \in 1..off[l + 1]
        PROVE  \E j \in 1..(l + 1) : \E k \in 1..Len(ss[j]) : i = off[j - 1] + k
    <3>1. CASE i <= off[l]
      <4>1. i \in 1..off[l]
        BY <2>2, <3>1
      <4>2. PICK j \in 1..l : \E k \in 1..Len(ss[j]) : i = off[j - 1] + k
        BY <1>2, <4>1
      <4>3. j \in 1..(l + 1)
        BY <2>1
      <4> QED
        BY <4>2, <4>3
    <3>2. CASE i > off[l]
      <4>1. i - off[l] \in 1..Len(ss[l + 1]) /\ i = off[l] + (i - off[l])
        BY <2>2, <3>2, SMTT(20)
      <4>2. l + 1 \in 1..(l + 1)
        BY <2>1
      <4> QED
        BY <2>1, <4>1, <4>2
    <3> QED
      BY <2>2, <3>1, <3>2
  <2> QED
    BY <2>1, <2>3, <2>4
<1>3. 0 \in P
  BY <1>1
<1> HIDE DEF P
<1>4. 0..n \subseteq P
  BY <1>1, <1>2, <1>3, UpToInductive
<1>5. \A j, l \in 0..n : j <= l => off[j] <= off[l]
  <2>1. ASSUME NEW j \in 0..n, NEW l \in 0..n, j <= l PROVE off[j] <= off[l]
    <3>1. l \in P
      BY <1>4
    <3>2. j \in 0..l
      BY <2>1
    <3> QED
      BY <3>1, <3>2 DEF P
  <2> QED
    BY <2>1
<1>6. \A i \in 1..Len(flat) : \E j \in 1..n : \E k \in 1..Len(ss[j]) : i = off[j - 1] + k
  <2>1. n \in P
    BY <1>1, <1>4
  <2> QED
    BY <1>1, <2>1 DEF P
<1>7. ASSUME NEW j \in 1..n, NEW k \in 1..Len(ss[j])
      PROVE  off[j - 1] + k \in 1..Len(flat)
  <2>0. j \in 0..n /\ n \in 0..n /\ j - 1 \in 0..n /\ j <= n
    BY <1>1
  <2>1. off[j] <= off[n]
    BY <1>5, <2>0
  <2>2. off[j] = off[j - 1] + Len(ss[j]) /\ off[j - 1] \in Nat /\ off[j] \in Nat
        /\ Len(ss[j]) \in Nat /\ off[n] \in Nat
    BY <1>1, <2>0
  <2>3. k \in Nat /\ 1 <= k /\ k <= Len(ss[j])
    BY <2>2
  <2>4. off[j - 1] + k \in 1..off[n]
    <3>1. \A a, b, c, l \in Nat : b = a + l /\ b <= c /\ k <= l => a + k \in 1..c
      BY <2>3
    <3> QED
      BY <2>1, <2>2, <2>3, <3>1, Zenon
  <2> QED
    BY <1>1, <2>4
<1> QED
  BY <1>5, <1>6, <1>7, Zenon DEF n, Rises

-----------------------------------------------------------------------------
(* Lemmas about sets in order *)

\* s has each element of S once, in the order of their keys.
Sorts(s, S, key) ==
    s \in SetToSeqs(S) /\ \A i, j \in DOMAIN s : i < j => key[s[i]] <= key[s[j]]

\* s lists the elements of S, each once.
Lists(s, S) ==
    /\ Len(s) = Cardinality(S) /\ Cardinality(S) \in Nat
    /\ s \in Seq(S) /\ s \in [1..Len(s) -> S]
    /\ \A i, j \in 1..Len(s) : s[i] = s[j] => i = j
    /\ \A x \in S : \E i \in 1..Len(s) : s[i] = x

\* A sequence of SetToSeqs(S) has every element of S once.
LEMMA IsSeqOfSet ==
    ASSUME NEW S, IsFiniteSet(S), NEW s \in SetToSeqs(S)
    PROVE  Lists(s, S)
<1> DEFINE n == Cardinality(S)
<1>1. n \in Nat
  BY FS_CardinalityType
<1>2. s \in [1..n -> S] /\ \A i, j \in 1..n : i # j => s[i] # s[j]
  BY DEF SetToSeqs
<1>3. s \in Seq(S) /\ Len(s) = n
  BY <1>1, <1>2
<1>4. s \in Injection(1..n, S)
  BY <1>2 DEF Injection, IsInjective
<1>5. Cardinality(1..n) = n
  BY <1>1, FS_Interval
<1>6. s \in Surjection(1..n, S)
  BY <1>4, <1>5, FS_Injection
<1>7. \A x \in S : \E i \in 1..n : s[i] = x
  BY <1>6 DEF Surjection
<1> HIDE DEF n
<1>8. \A i, j \in 1..Len(s) : s[i] = s[j] => i = j
  BY <1>2, <1>3
<1> QED
  BY <1>1, <1>2, <1>3, <1>7, <1>8, Zenon DEF Lists, n

\* An element with the greatest key, put last, keeps a sequence sorted.
LEMMA SortedEnlarged ==
    ASSUME NEW S, IsFiniteSet(S), NEW key, \A x \in S : key[x] \in Int,
           NEW m \in S, \A x \in S : key[x] <= key[m],
           NEW s, Sorts(s, S \ {m}, key)
    PROVE  \E t : Sorts(t, S, key)
<1> DEFINE n == Cardinality(S \ {m})
           t == [i \in 1..(n + 1) |-> IF i = n + 1 THEN m ELSE s[i]]
<1>1. IsFiniteSet(S \ {m}) /\ Cardinality(S) = n + 1
  <2>1. n = Cardinality(S) - 1 /\ IsFiniteSet(S \ {m}) /\ Cardinality(S) \in Nat
    BY FS_RemoveElement, FS_CardinalityType
  <2> QED
    BY <2>1
<1>2. n \in Nat /\ s \in [1..n -> S \ {m}] /\ \A i, j \in 1..n : s[i] = s[j] => i = j
  <2>1. Lists(s, S \ {m})
    BY <1>1, IsSeqOfSet, Zenon DEF Sorts
  <2> QED
    BY <2>1 DEF Lists
<1>3. \A i, j \in 1..n : i < j => key[s[i]] <= key[s[j]]
  BY <1>2 DEF Sorts
<1> HIDE DEF n
<1>4. \A i \in 1..(n + 1) : i # n + 1 => i \in 1..n /\ t[i] = s[i] /\ s[i] \in S /\ s[i] # m
  BY <1>2
<1>5. t[n + 1] = m
  BY <1>2
<1>6. t \in [1..(n + 1) -> S]
  BY <1>4, <1>5
<1> HIDE DEF t
<1>7. \A i, j \in 1..(n + 1) : i # j => t[i] # t[j]
  BY <1>2, <1>4, <1>5
<1>8. ASSUME NEW i \in 1..(n + 1), NEW j \in 1..(n + 1), i < j
      PROVE  key[t[i]] <= key[t[j]]
  <2>1. i # n + 1
    BY <1>2, <1>8
  <2>2. CASE j = n + 1
    BY <1>5, <1>6, <2>2
  <2>3. CASE j # n + 1
    BY <1>3, <1>4, <1>8, <2>1, <2>3
  <2> QED
    BY <2>2, <2>3
<1>9. DOMAIN t = 1..(n + 1)
  BY <1>6
<1>10. Sorts(t, S, key)
  BY <1>1, <1>6, <1>7, <1>8, <1>9 DEF Sorts, SetToSeqs
<1> QED
  BY <1>10

\* There is one, if every smaller set can be sorted.
LEMMA GreatestExists ==
    ASSUME NEW S, IsFiniteSet(S), S # {}, NEW key, \A x \in S : key[x] \in Int,
           \A T : IsFiniteSet(T) /\ T \subseteq S /\ T # S => \E s : Sorts(s, T, key)
    PROVE  \E m \in S : \A x \in S : key[x] <= key[m]
<1>1. PICK x \in S : TRUE
  OBVIOUS
<1> DEFINE T == S \ {x}
<1>2. IsFiniteSet(T) /\ T # S /\ T \subseteq S
  BY FS_RemoveElement
<1>3. PICK s : Sorts(s, T, key)
  BY <1>2
<1> HIDE DEF T
<1>4. /\ Len(s) = Cardinality(T) /\ Cardinality(T) \in Nat /\ s \in [1..Cardinality(T) -> T]
      /\ \A y \in T : \E i \in 1..Len(s) : s[i] = y
      /\ \A i, j \in 1..Len(s) : i < j => key[s[i]] <= key[s[j]]
  <2>1. Lists(s, T)
    BY <1>2, <1>3, IsSeqOfSet, Zenon DEF Sorts
  <2>2. DOMAIN s = 1..Len(s)
    BY <2>1 DEF Lists
  <2> QED
    BY <1>3, <2>1, <2>2, Zenon DEF Lists, Sorts
<1>5. CASE T = {}
  <2>1. S = {x}
    BY <1>5 DEF T
  <2>2. key[x] <= key[x]
    OBVIOUS
  <2> QED
    BY <2>1, <2>2
<1>6. CASE T # {}
  <2> DEFINE y == s[Len(s)]
  <2>1. Len(s) \in 1..Len(s)
    BY <1>4, <1>6
  <2>2. y \in T /\ y \in S
    BY <1>2, <1>4, <2>1
  <2>3. ASSUME NEW z \in T PROVE key[z] <= key[y]
    <3>1. PICK i \in 1..Len(s) : s[i] = z
      BY <1>4
    <3>2. CASE i = Len(s)
      BY <2>2, <3>1, <3>2
    <3>3. CASE i # Len(s)
      <4>1. i < Len(s)
        BY <1>4, <3>3
      <4> QED
        BY <1>4, <2>1, <3>1, <4>1
    <3> QED
      BY <3>2, <3>3
  <2> HIDE DEF y
  <2>4. CASE key[y] <= key[x]
    <3>1. \A z \in S : key[z] <= key[x]
      BY <1>2, <2>2, <2>3, <2>4 DEF T
    <3> QED
      BY <3>1
  <2>5. CASE ~(key[y] <= key[x])
    <3>1. key[x] <= key[y]
      BY <2>2, <2>5
    <3>2. \A z \in S : key[z] <= key[y]
      BY <2>3, <3>1 DEF T
    <3> QED
      BY <2>2, <3>2
  <2> QED
    BY <2>4, <2>5
<1> QED
  BY <1>5, <1>6

\* Every finite set can be sorted by a key that is a number.
LEMMA SortedExists ==
    ASSUME NEW S, IsFiniteSet(S), NEW key, \A x \in S : key[x] \in Int
    PROVE  \E s : Sorts(s, S, key)
<1> DEFINE P == {n \in Nat : \A T \in SUBSET S : IsFiniteSet(T) /\ Cardinality(T) <= n
                                => \E s : Sorts(s, T, key)}
<1>1. 0 \in P
  <2> SUFFICES ASSUME NEW T \in SUBSET S, IsFiniteSet(T), Cardinality(T) <= 0
               PROVE  \E s : Sorts(s, T, key)
    OBVIOUS
  <2>1. Cardinality(T) = 0 /\ T = {}
    BY FS_CardinalityType, FS_EmptySet
  <2>2. Sorts([i \in 1..0 |-> i], T, key)
    BY <2>1 DEF Sorts, SetToSeqs
  <2> QED
    BY <2>2
<1>2. ASSUME NEW n \in Nat, n \in P
      PROVE  n + 1 \in P
  <2> SUFFICES ASSUME NEW T \in SUBSET S, IsFiniteSet(T), Cardinality(T) <= n + 1
               PROVE  \E s : Sorts(s, T, key)
    OBVIOUS
  <2>1. \A U \in SUBSET S : IsFiniteSet(U) /\ Cardinality(U) <= n => \E s : Sorts(s, U, key)
    BY <1>2
  <2> HIDE DEF P
  <2>2. CASE T = {}
    <3>1. Cardinality(T) <= n
      BY <2>2, FS_EmptySet
    <3> QED
      BY <2>1, <3>1
  <2>3. CASE T # {}
    <3>1. ASSUME NEW U, IsFiniteSet(U), U \subseteq T, U # T
          PROVE  \E s : Sorts(s, U, key)
      <4>1. Cardinality(U) <= Cardinality(T) /\ Cardinality(T) # Cardinality(U)
        BY <3>1, FS_Subset
      <4>2. Cardinality(U) \in Nat /\ Cardinality(T) \in Nat
        BY <3>1, FS_CardinalityType
      <4>3. Cardinality(U) <= n
        BY <4>1, <4>2
      <4> QED
        BY <2>1, <3>1, <4>3
    <3>2. \A x \in T : key[x] \in Int
      OBVIOUS
    <3>3. PICK m \in T : \A x \in T : key[x] <= key[m]
      BY <2>3, <3>1, <3>2, GreatestExists
    <3>4. IsFiniteSet(T \ {m}) /\ T \ {m} \subseteq T /\ T \ {m} # T
      BY FS_RemoveElement
    <3>5. PICK s : Sorts(s, T \ {m}, key)
      BY <3>1, <3>4
    <3> QED
      BY <3>2, <3>3, <3>5, SortedEnlarged
  <2> QED
    BY <2>2, <2>3
<1>3. Cardinality(S) \in Nat
  BY FS_CardinalityType
<1> HIDE DEF P
<1>4. Cardinality(S) \in P
  BY <1>1, <1>2, <1>3, NatInductive
<1> QED
  BY <1>3, <1>4 DEF P

\* So the CHOOSE of SortedBy has a witness.
LEMMA SortedByIs ==
    ASSUME NEW S, IsFiniteSet(S), NEW key, \A x \in S : key[x] \in Int
    PROVE  Lists(SortedBy(S, key), S)
<1>1. \E s \in SetToSeqs(S) : \A i, j \in DOMAIN s : i < j => key[s[i]] <= key[s[j]]
  BY SortedExists DEF Sorts
<1> DEFINE s == SortedBy(S, key)
<1>2. s \in SetToSeqs(S)
  BY <1>1, Zenon DEF SortedBy
<1> HIDE DEF s
<1>3. Lists(s, S)
  BY <1>2, IsSeqOfSet, Zenon
<1> QED
  BY <1>3 DEF s

\* A function on 1..n is a sequence of length n.
LEMMA FunctionIsSeq ==
    ASSUME NEW X, NEW n \in Nat, NEW e \in [1..n -> X]
    PROVE  e \in Seq(X) /\ Len(e) = n
OBVIOUS

\* SetToSeq of a set of one or none.
LEMMA SetToSeqOfOne ==
    ASSUME NEW X, NEW x \in X
    PROVE  /\ SetToSeq({}) \in Seq(X) /\ Len(SetToSeq({})) = 0
           /\ SetToSeq({x}) \in Seq(X) /\ Len(SetToSeq({x})) = 1 /\ SetToSeq({x})[1] = x
<1>1. Cardinality({}) = 0 /\ Cardinality({x}) = 1
  BY FS_EmptySet, FS_Singleton
<1>2. SetToSeq({}) \in [1..0 -> {}]
  <2>1. [i \in 1..0 |-> i] \in [1..0 -> {}] /\ IsInjective([i \in 1..0 |-> i])
    BY DEF IsInjective
  <2>2. \E f \in [1..0 -> {}] : IsInjective(f)
    BY <2>1
  <2>3. SetToSeq({}) = CHOOSE f \in [1..0 -> {}] : IsInjective(f)
    BY <1>1 DEF SetToSeq
  <2> QED
    BY <2>2, <2>3, Zenon
<1>3. SetToSeq({x}) \in [1..1 -> {x}]
  <2>1. [i \in 1..1 |-> x] \in [1..1 -> {x}] /\ IsInjective([i \in 1..1 |-> x])
    BY DEF IsInjective
  <2>2. \E f \in [1..1 -> {x}] : IsInjective(f)
    BY <2>1
  <2>3. SetToSeq({x}) = CHOOSE f \in [1..1 -> {x}] : IsInjective(f)
    BY <1>1 DEF SetToSeq
  <2> QED
    BY <2>2, <2>3, Zenon
<1>4. SetToSeq({}) \in Seq(X) /\ Len(SetToSeq({})) = 0
  <2> DEFINE e == SetToSeq({})
  <2>1. e \in [1..0 -> {}]
    BY <1>2
  <2> HIDE DEF e
  <2>2. e \in [1..0 -> X]
    BY <2>1
  <2>3. e \in Seq(X) /\ Len(e) = 0
    BY <2>2
  <2> QED
    BY <2>3 DEF e
<1>5. SetToSeq({x}) \in Seq(X) /\ Len(SetToSeq({x})) = 1 /\ SetToSeq({x})[1] = x
  <2> DEFINE e == SetToSeq({x})
  <2>1. e \in [1..1 -> {x}]
    BY <1>3
  <2> HIDE DEF e
  <2>2. e \in [1..1 -> X] /\ e[1] = x
    BY <2>1
  <2>3. e \in Seq(X) /\ Len(e) = 1
    BY <2>2, FunctionIsSeq
  <2> QED
    BY <2>2, <2>3 DEF e
<1> QED
  BY <1>4, <1>5

-----------------------------------------------------------------------------
(* Lemmas about what occurs in a sequence *)

Some(r, U) == \E i \in 1..Len(r) : r[i] \in U
None(r, T) == \A i \in 1..Len(r) : r[i] \notin T

\* One element of T alone, and that in U.
Only(r, T, U) ==
    \E i \in 1..Len(r) : r[i] \in U /\ \A j \in 1..Len(r) : r[j] \in T => j = i

\* What is in none of the parts is not in the whole; what is in one of them is.
LEMMA FlattenElements ==
    ASSUME NEW X, NEW ss \in Seq(Seq(X))
    PROVE  /\ FlattenSeq(ss) \in Seq(X)
           /\ \A T : (\A j \in 1..Len(ss) : None(ss[j], T)) => None(FlattenSeq(ss), T)
           /\ \A U : (\E j \in 1..Len(ss) : Some(ss[j], U)) => Some(FlattenSeq(ss), U)
<1> DEFINE r == FlattenSeq(ss)
<1>1. r \in Seq(X) /\ \E off : Layout(r, ss, off)
  BY FlattenLaysOut
<1> HIDE DEF r
<1>2. PICK off : Layout(r, ss, off)
  BY <1>1
<1>3. /\ \A j \in 1..Len(ss) : \A k \in 1..Len(ss[j]) : off[j - 1] + k \in 1..Len(r)
      /\ \A i \in 1..Len(r) : \E j \in 1..Len(ss) : \E k \in 1..Len(ss[j]) : i = off[j - 1] + k
      /\ \A j \in 1..Len(ss) : \A k \in 1..Len(ss[j]) : r[off[j - 1] + k] = ss[j][k]
  <2>1. \A j \in 1..Len(ss) : \A k \in 1..Len(ss[j]) : r[off[j - 1] + k] = ss[j][k]
    BY <1>2, Zenon DEF Layout
  <2>2. /\ \A j \in 1..Len(ss) : \A k \in 1..Len(ss[j]) : off[j - 1] + k \in 1..Len(r)
        /\ \A i \in 1..Len(r) : \E j \in 1..Len(ss) : \E k \in 1..Len(ss[j]) : i = off[j - 1] + k
    <3>1. Rises(r, ss, off)
      BY <1>1, <1>2, LayoutRises, Zenon
    <3> QED
      BY <3>1, Zenon DEF Rises
  <2> QED
    BY <2>1, <2>2
<1>4. ASSUME NEW T, \A j \in 1..Len(ss) : None(ss[j], T)
      PROVE  None(r, T)
  <2>1. ASSUME NEW i \in 1..Len(r) PROVE r[i] \notin T
    <3>1. PICK j \in 1..Len(ss) : \E k \in 1..Len(ss[j]) : i = off[j - 1] + k
      BY <1>3, Zenon
    <3>2. PICK k \in 1..Len(ss[j]) : i = off[j - 1] + k
      BY <3>1
    <3>3. r[i] = ss[j][k]
      BY <1>3, <3>2, Zenon
    <3> QED
      BY <1>4, <3>3, Zenon DEF None
  <2> QED
    BY <2>1, Zenon DEF None
<1>5. ASSUME NEW U, NEW j \in 1..Len(ss), Some(ss[j], U)
      PROVE  Some(r, U)
  BY <1>3, <1>5, Zenon DEF Some
<1> QED
  BY <1>1, <1>4, <1>5, Zenon DEF r

\* What is in one part once and in no other is in the whole once.
LEMMA FlattenOnly ==
    ASSUME NEW X, NEW ss \in Seq(Seq(X)), NEW T, NEW U,
           NEW j \in 1..Len(ss), Only(ss[j], T, U),
           \A l \in 1..Len(ss) : l # j => None(ss[l], T)
    PROVE  Only(FlattenSeq(ss), T, U)
<1> DEFINE r == FlattenSeq(ss)
<1>1. r \in Seq(X) /\ \E off : Layout(r, ss, off)
  BY FlattenLaysOut
<1> HIDE DEF r
<1>2. PICK off : Layout(r, ss, off)
  BY <1>1
<1>3. /\ \A l \in 1..Len(ss) : \A k \in 1..Len(ss[l]) : off[l - 1] + k \in 1..Len(r)
      /\ \A i \in 1..Len(r) : \E l \in 1..Len(ss) : \E k \in 1..Len(ss[l]) : i = off[l - 1] + k
  <2>1. Rises(r, ss, off)
    BY <1>1, <1>2, LayoutRises, Zenon
  <2> QED
    BY <2>1, Zenon DEF Rises
<1>4. \A l \in 1..Len(ss) : \A k \in 1..Len(ss[l]) : r[off[l - 1] + k] = ss[l][k]
  BY <1>2, Zenon DEF Layout
<1>5. PICK k \in 1..Len(ss[j]) : ss[j][k] \in U /\ \A m \in 1..Len(ss[j]) : ss[j][m] \in T => m = k
  BY Zenon DEF Only
<1> DEFINE i == off[j - 1] + k
<1>6. i \in 1..Len(r) /\ r[i] \in U
  BY <1>3, <1>4, <1>5, Zenon
<1>7. ASSUME NEW h \in 1..Len(r), r[h] \in T
      PROVE  h = i
  <2>1. PICK l \in 1..Len(ss) : \E m \in 1..Len(ss[l]) : h = off[l - 1] + m
    BY <1>3
  <2>2. PICK m \in 1..Len(ss[l]) : h = off[l - 1] + m
    BY <2>1
  <2>3. ss[l][m] \in T
    BY <1>4, <1>7, <2>2, Zenon
  <2>4. l = j
    BY <2>3, Zenon DEF None
  <2>5. m = k
    BY <1>5, <2>3, <2>4, Zenon
  <2> QED
    BY <2>2, <2>4, <2>5
<1> QED
  BY <1>6, <1>7, Zenon DEF Only, r

Prepended(t, x, s) ==
    /\ Len(t) = Len(s) + 1 /\ Len(s) \in Nat
    /\ t[1] = x /\ \A i \in 1..Len(s) : t[i + 1] = s[i]
    /\ \A i \in 1..(Len(s) + 1) : i # 1 => i - 1 \in 1..Len(s) /\ t[i] = s[i - 1]

\* A sequence with an element put before it.
LEMMA Prepend ==
    ASSUME NEW X, NEW x \in X, NEW s \in Seq(X)
    PROVE  <<x>> \o s \in Seq(X) /\ Prepended(<<x>> \o s, x, s)
<1> DEFINE u == <<x>>
<1>1. u \in Seq(X) /\ Len(u) = 1 /\ u[1] = x
  OBVIOUS
<1> HIDE DEF u
<1> DEFINE us == u \o s
<1>2. us \in Seq(X) /\ Halves(us, u, s)
  BY <1>1, ConcatHalves, Zenon
<1> HIDE DEF us
<1>3. /\ us \in Seq(X) /\ Len(us) = Len(s) + 1 /\ us[1] = x
      /\ \A m \in 1..Len(s) : us[1 + m] = s[m]
  BY <1>1, <1>2 DEF Halves
<1>4. \A m \in 1..Len(s) : 1 + m = m + 1
  BY <1>2
<1>5. \A i \in 1..(Len(s) + 1) : i # 1 => i - 1 \in 1..Len(s) /\ 1 + (i - 1) = i
  BY <1>2
<1>6. \A i \in 1..Len(s) : us[i + 1] = s[i]
  BY <1>3, <1>4
<1>7. \A i \in 1..(Len(s) + 1) : i # 1 => i - 1 \in 1..Len(s) /\ us[i] = s[i - 1]
  BY <1>3, <1>5
<1>8. Prepended(us, x, s)
  BY <1>2, <1>3, <1>6, <1>7, Zenon DEF Prepended, Halves
<1> QED
  BY <1>2, <1>8, Zenon DEF us, u

\* An element outside T put before a sequence changes nothing about T.
LEMMA PrependElements ==
    ASSUME NEW X, NEW x \in X, NEW s \in Seq(X), NEW T, x \notin T
    PROVE  /\ None(s, T) => None(<<x>> \o s, T)
           /\ \A U : Some(s, U) => Some(<<x>> \o s, U)
           /\ \A U : Only(s, T, U) => Only(<<x>> \o s, T, U)
<1> DEFINE t == <<x>> \o s
<1>0. Prepended(t, x, s)
  BY Prepend, Zenon
<1> HIDE DEF t
<1>1. /\ Len(t) = Len(s) + 1 /\ Len(s) \in Nat
      /\ t[1] = x /\ \A i \in 1..Len(s) : t[i + 1] = s[i]
      /\ \A i \in 1..(Len(s) + 1) : i # 1 => i - 1 \in 1..Len(s) /\ t[i] = s[i - 1]
  BY <1>0, Zenon DEF Prepended
<1>2. \A i \in 1..Len(s) : i + 1 \in 1..Len(t)
  BY <1>1
<1>3. \A i \in 1..(Len(s) + 1), j \in 1..Len(s) : i - 1 = j => i = j + 1
  BY <1>1
<1>4. None(s, T) => None(t, T)
  BY <1>1, Zenon DEF None
<1>5. ASSUME NEW U, Some(s, U) PROVE Some(t, U)
  BY <1>1, <1>2, <1>5, Zenon DEF Some
<1>6. ASSUME NEW U, Only(s, T, U) PROVE Only(t, T, U)
  <2>1. PICK i \in 1..Len(s) : s[i] \in U /\ \A j \in 1..Len(s) : s[j] \in T => j = i
    BY <1>6, Zenon DEF Only
  <2>2. ASSUME NEW j \in 1..Len(t), t[j] \in T
        PROVE  j = i + 1
    <3>1. j \in 1..(Len(s) + 1) /\ j # 1
      BY <1>1, <2>2
    <3>2. j - 1 \in 1..Len(s) /\ s[j - 1] \in T
      BY <1>1, <2>2, <3>1
    <3> QED
      BY <1>3, <2>1, <3>1, <3>2
  <2>3. i + 1 \in 1..Len(t) /\ t[i + 1] \in U
    BY <1>1, <1>2, <2>1
  <2> QED
    BY <2>2, <2>3, Zenon DEF Only
<1> QED
  BY <1>4, <1>5, <1>6, Zenon DEF t

-----------------------------------------------------------------------------
(* Lemmas about trees *)

\* Row j, which is before row i, is above it: no row between them is as high.
IsAbove(t, i, j, d) ==
    /\ Len(t[j].path) = d /\ t[j].id = t[i].path[d + 1]
    /\ \A m \in 1..d : t[j].path[m] = t[i].path[m]
    /\ \A k \in (j + 1)..(i - 1) : Len(t[k].path) > d

\* t is in preorder below the nodes of base.
Preorder(t, base) ==
    \A i \in 1..Len(t) :
        /\ Len(t[i].path) >= Len(base)
        /\ \A m \in 1..Len(base) : t[i].path[m] = base[m]
        /\ \A d \in Len(base)..(Len(t[i].path) - 1) : \E j \in 1..(i - 1) : IsAbove(t, i, j, d)

\* Parts in preorder below the same nodes are together in preorder.
LEMMA PreorderFlattened ==
    ASSUME NEW X, NEW ss \in Seq(Seq(X)), NEW base,
           \A x \in X : Len(x.path) \in Nat, Len(base) \in Nat,
           \A j \in 1..Len(ss) : Preorder(ss[j], base)
    PROVE  Preorder(FlattenSeq(ss), base)
<1> DEFINE r == FlattenSeq(ss)
<1>1. r \in Seq(X) /\ \E off : Layout(r, ss, off)
  BY FlattenLaysOut
<1> HIDE DEF r
<1>2. PICK off : Layout(r, ss, off)
  BY <1>1
<1>3. /\ \A l \in 1..Len(ss) : \A k \in 1..Len(ss[l]) : off[l - 1] + k \in 1..Len(r)
      /\ \A i \in 1..Len(r) : \E l \in 1..Len(ss) : \E k \in 1..Len(ss[l]) : i = off[l - 1] + k
  <2>1. Rises(r, ss, off)
    BY <1>1, <1>2, LayoutRises, Zenon
  <2> QED
    BY <2>1, Zenon DEF Rises
<1>4. \A l \in 1..Len(ss) : \A k \in 1..Len(ss[l]) : r[off[l - 1] + k] = ss[l][k]
  BY <1>2, Zenon DEF Layout
<1>5. ASSUME NEW i \in 1..Len(r)
      PROVE  /\ Len(r[i].path) >= Len(base)
             /\ \A m \in 1..Len(base) : r[i].path[m] = base[m]
             /\ \A d \in Len(base)..(Len(r[i].path) - 1) : \E j \in 1..(i - 1) : IsAbove(r, i, j, d)
  <2>1. PICK l \in 1..Len(ss) : \E k \in 1..Len(ss[l]) : i = off[l - 1] + k
    BY <1>3
  <2>2. PICK k \in 1..Len(ss[l]) : i = off[l - 1] + k
    BY <2>1
  <2> DEFINE s == ss[l]
             o == off[l - 1]
  <2>3. s \in Seq(X) /\ o \in Nat /\ Len(s) \in Nat /\ Preorder(s, base)
    <3>1. l - 1 \in 0..Len(ss) /\ ss[l] \in Seq(X)
      OBVIOUS
    <3>2. off \in [0..Len(ss) -> Nat]
      BY <1>2, Zenon DEF Layout
    <3>3. off[l - 1] \in Nat
      BY <3>1, <3>2
    <3>4. Len(ss[l]) \in Nat
      BY <3>1
    <3> QED
      BY <3>1, <3>3, <3>4
  <2>4. \A m \in 1..Len(s) : r[o + m] = s[m]
    BY <1>4
  <2>5. k \in 1..Len(s) /\ i = o + k
    BY <2>2
  <2> HIDE DEF s, o
  <2>6. r[i] = s[k]
    BY <2>4, <2>5
  <2>7. ASSUME NEW d \in Len(base)..(Len(r[i].path) - 1)
        PROVE  \E j \in 1..(i - 1) : IsAbove(r, i, j, d)
    <3>1. d \in Len(base)..(Len(s[k].path) - 1)
      BY <2>6
    <3>2. PICK j \in 1..(k - 1) : IsAbove(s, k, j, d)
      BY <2>3, <2>5, <3>1, Zenon DEF Preorder
    <3>3. j \in 1..Len(s) /\ o + j \in 1..(i - 1)
      BY <2>3, <2>5
    <3>4. r[o + j] = s[j]
      BY <2>4, <3>3
    <3>5. ASSUME NEW h \in (o + j + 1)..(i - 1)
          PROVE  Len(r[h].path) > d
      <4>1. h - o \in (j + 1)..(k - 1) /\ h - o \in 1..Len(s) /\ h = o + (h - o)
        BY <2>3, <2>5
      <4>2. r[h] = s[h - o]
        BY <2>4, <4>1
      <4> QED
        BY <3>2, <4>1, <4>2 DEF IsAbove
    <3>6. IsAbove(r, i, o + j, d)
      BY <2>6, <3>2, <3>4, <3>5, Zenon DEF IsAbove
    <3> QED
      BY <3>3, <3>6
  <2>8. /\ Len(r[i].path) >= Len(base)
        /\ \A m \in 1..Len(base) : r[i].path[m] = base[m]
    BY <2>3, <2>5, <2>6, Zenon DEF Preorder
  <2> QED
    BY <2>7, <2>8
<1> QED
  BY <1>5, Zenon DEF Preorder, r

\* A row before the rows below it keeps them in preorder.
LEMMA PreorderPrepended ==
    ASSUME NEW X, NEW x \in X, NEW s \in Seq(X), NEW base,
           \A y \in X : Len(y.path) \in Nat,
           Len(base) = Len(x.path) + 1, base[Len(base)] = x.id,
           \A m \in 1..Len(x.path) : base[m] = x.path[m],
           Preorder(s, base)
    PROVE  Preorder(<<x>> \o s, x.path)
<1> DEFINE t == <<x>> \o s
           n == Len(x.path)
<1>0. t \in Seq(X) /\ Prepended(t, x, s)
  BY Prepend, Zenon
<1> HIDE DEF t
<1>1. n \in Nat /\ Len(s) \in Nat /\ Len(t) = Len(s) + 1 /\ t[1] = x
  BY <1>0 DEF Prepended
<1>2. \A i \in 1..Len(s) : t[i + 1] = s[i]
  BY <1>0, Zenon DEF Prepended
<1>3. \A i \in 1..Len(t) : i # 1 => i - 1 \in 1..Len(s) /\ t[i] = s[i - 1]
  BY <1>0, <1>1, Zenon DEF Prepended
<1>4. \A i \in 1..Len(s) : /\ Len(s[i].path) \in Nat /\ Len(s[i].path) >= n + 1
                           /\ \A m \in 1..(n + 1) : s[i].path[m] = base[m]
  <2>1. \A i \in 1..Len(s) : s[i] \in X
    OBVIOUS
  <2>2. \A i \in 1..Len(s) : Len(s[i].path) >= Len(base) /\ \A m \in 1..Len(base) : s[i].path[m] = base[m]
    BY Zenon DEF Preorder
  <2> QED
    BY <2>1, <2>2
<1>5. ASSUME NEW i \in 1..Len(t)
      PROVE  /\ Len(t[i].path) >= n
             /\ \A m \in 1..n : t[i].path[m] = x.path[m]
             /\ \A d \in n..(Len(t[i].path) - 1) : \E j \in 1..(i - 1) : IsAbove(t, i, j, d)
  <2>1. CASE i = 1
    BY <1>1, <2>1
  <2>2. CASE i # 1
    <3> DEFINE k == i - 1
    <3>1. k \in 1..Len(s) /\ t[i] = s[k] /\ i = k + 1
      BY <1>1, <1>3, <2>2
    <3> HIDE DEF k
    <3>2. /\ Len(t[i].path) >= n
          /\ \A m \in 1..n : t[i].path[m] = x.path[m]
      BY <1>1, <1>4, <3>1
    <3>3. ASSUME NEW d \in n..(Len(t[i].path) - 1), d = n
          PROVE  IsAbove(t, i, 1, d)
      <4>1. t[1].id = t[i].path[d + 1]
        <5>1. n + 1 \in 1..(n + 1) /\ x.id = base[n + 1]
          BY <1>1
        <5> QED
          BY <1>1, <1>4, <3>1, <3>3, <5>1
      <4>2. ASSUME NEW h \in (1 + 1)..(i - 1)
            PROVE  Len(t[h].path) > d
        <5>1. h \in 1..Len(t) /\ h # 1
          BY <1>1
        <5>2. h - 1 \in 1..Len(s) /\ t[h] = s[h - 1]
          BY <1>3, <5>1
        <5>3. Len(t[h].path) \in Nat /\ Len(t[h].path) >= n + 1
          BY <1>4, <5>2
        <5> QED
          BY <1>1, <3>3, <5>3
      <4> QED
        BY <1>1, <3>2, <3>3, <4>1, <4>2, Zenon DEF IsAbove
    <3>4. ASSUME NEW d \in n..(Len(t[i].path) - 1), d # n
          PROVE  \E j \in 1..(i - 1) : IsAbove(t, i, j, d)
      <4>1. d \in Len(base)..(Len(s[k].path) - 1)
        BY <1>1, <1>4, <3>1, <3>4
      <4>2. PICK j \in 1..(k - 1) : IsAbove(s, k, j, d)
        BY <3>1, <4>1, Zenon DEF Preorder
      <4>3. j \in 1..Len(s) /\ j + 1 \in 1..(i - 1)
        BY <1>1, <3>1
      <4>4. t[j + 1] = s[j]
        BY <1>2, <4>3
      <4>5. ASSUME NEW h \in ((j + 1) + 1)..(i - 1)
            PROVE  Len(t[h].path) > d
        <5>0. j \in Nat /\ i \in Nat /\ k \in Nat /\ i = k + 1 /\ h \in Nat /\ i <= Len(t)
          <6>1. i \in Nat /\ i <= Len(t) /\ i = k + 1
            BY <1>1, <3>1
          <6>2. k \in Nat
            BY <3>1
          <6>3. j \in Nat /\ h \in Nat
            BY <6>1, <6>2
          <6> QED
            BY <6>1, <6>2, <6>3
        <5>1. h \in 1..Len(t) /\ h # 1 /\ h - 1 \in (j + 1)..(k - 1)
          <6>1. (j + 1) + 1 <= h /\ h <= i - 1
            BY <5>0
          <6> QED
            BY <5>0, <6>1
        <5>2. t[h] = s[h - 1]
          BY <1>3, <5>1
        <5> QED
          BY <4>2, <5>1, <5>2 DEF IsAbove
      <4>6. IsAbove(t, i, j + 1, d)
        BY <3>1, <4>2, <4>4, <4>5, Zenon DEF IsAbove
      <4> QED
        BY <4>3, <4>6
    <3> QED
      BY <1>1, <3>1, <3>2, <3>3, <3>4
  <2> QED
    BY <2>1, <2>2
<1> QED
  BY <1>5, Zenon DEF Preorder, t, n

-----------------------------------------------------------------------------
(* Rows *)

Row == [id : NodeIds, path : Seq(NodeIds), shows : SUBSET Views, has_children : BOOLEAN]

\* No node is above itself twice, none with others under it above itself.
Tidy(row) ==
    /\ \A m, n \in 1..Len(row.path) : row.path[m] = row.path[n] => m = n
    /\ row.has_children => \A m \in 1..Len(row.path) : row.path[m] # row.id

TidyRow == {row \in Row : Tidy(row)}

\* A path of projects and worktrees.
GroupPath(path) ==
    /\ path \in Seq(NodeIds)
    /\ \A m, n \in 1..Len(path) : path[m] = path[n] => m = n
    /\ \A m \in 1..Len(path) : path[m][1] # "agent"

\* The rows that show v, but not under an agent; those of them with a path; and
\* those that show it under agent w.
TopRows(v) == {row \in Row : v \in row.shows /\ \A m \in 1..Len(row.path) : row.path[m][1] # "agent"}
TopRowsAt(v, path) == {row \in TopRows(v) : row.path = path}
RowsUnder(v, w) == {row \in Row : v \in row.shows /\ Last(row.path) = AgentId(w.id)}

\* r is a part of the tree of S, below base, that shows the agents G: each where at
\* says, with those it has adopted under it.
Grown(r, S, G, base, at) ==
    /\ r \in Seq(TidyRow)
    /\ Preorder(r, base)
    /\ \A v \in S \ G : None(r, TopRows(v))
    /\ \A v \in G : Only(r, TopRows(v), TopRowsAt(v, at[v]))
    /\ \A w \in G, v \in S : v.id \in ToSet(w.children) => Some(r, RowsUnder(v, w))

\* What Node makes is a row.
LEMMA NodeIs ==
    ASSUME NEW id \in NodeIds, NEW path \in Seq(NodeIds), NEW shows \in SUBSET Views,
           NEW b \in BOOLEAN
    PROVE  /\ Node(id, path, shows, b) \in Row
           /\ Node(id, path, shows, b).id = id /\ Node(id, path, shows, b).path = path
           /\ Node(id, path, shows, b).shows = shows
           /\ Node(id, path, shows, b).has_children = b
BY Zenon DEF Node, Row

\* The parts of a row.
LEMMA RowsHavePaths ==
    \A row \in TidyRow : /\ row \in Row /\ row.path \in Seq(NodeIds) /\ row.id \in NodeIds
                         /\ Len(row.path) \in Nat /\ row.shows \subseteq Views
<1>1. ASSUME NEW row \in Row
      PROVE  row.path \in Seq(NodeIds) /\ row.id \in NodeIds /\ row.shows \in SUBSET Views
  BY Zenon DEF Row
<1>2. \A p \in Seq(NodeIds) : Len(p) \in Nat
  OBVIOUS
<1> QED
  BY <1>1, <1>2 DEF TidyRow

\* The n parts ss show the agents Gs, which make up G.
Parts(n, ss, Gs, S, G, base, at) ==
    /\ n \in Nat /\ ss = [j \in 1..n |-> ss[j]] /\ base \in Seq(NodeIds)
    /\ \A j \in 1..n : Grown(ss[j], S, Gs[j], base, at) /\ Gs[j] \subseteq S
    /\ \A j, l \in 1..n : j # l => Gs[j] \intersect Gs[l] = {}
    /\ G = UNION {Gs[j] : j \in 1..n}

\* Parts that show different agents show all of them together.
LEMMA GrownTogether ==
    ASSUME NEW S, NEW G, NEW base, NEW at, NEW n, NEW ss, NEW Gs,
           Parts(n, ss, Gs, S, G, base, at)
    PROVE  Grown(FlattenSeq(ss), S, G, base, at)
<1>0. /\ n \in Nat /\ ss = [j \in 1..n |-> ss[j]] /\ base \in Seq(NodeIds)
      /\ \A j \in 1..n : Grown(ss[j], S, Gs[j], base, at) /\ Gs[j] \subseteq S
      /\ \A j, l \in 1..n : j # l => Gs[j] \intersect Gs[l] = {}
      /\ G = UNION {Gs[j] : j \in 1..n}
  BY Zenon DEF Parts
<1>1. ss \in [1..n -> Seq(TidyRow)]
  BY <1>0 DEF Grown
<1>2. ss \in Seq(Seq(TidyRow)) /\ Len(ss) = n
  BY <1>0, <1>1, FunctionIsSeq
<1> DEFINE r == FlattenSeq(ss)
<1>3. /\ r \in Seq(TidyRow)
      /\ \A T : (\A j \in 1..n : None(ss[j], T)) => None(r, T)
      /\ \A U : (\E j \in 1..n : Some(ss[j], U)) => Some(r, U)
  BY <1>2, FlattenElements
<1>4. Preorder(r, base)
  <2>1. \A x \in TidyRow : Len(x.path) \in Nat
    BY RowsHavePaths
  <2>2. \A j \in 1..Len(ss) : Preorder(ss[j], base)
    BY <1>0, <1>2, Zenon DEF Grown
  <2>3. Len(base) \in Nat
    BY <1>0
  <2> QED
    BY <1>2, <2>1, <2>2, <2>3, PreorderFlattened, Zenon
<1>6. ASSUME NEW j \in 1..n, NEW v \in Gs[j]
      PROVE  Only(r, TopRows(v), TopRowsAt(v, at[v]))
  <2>1. Only(ss[j], TopRows(v), TopRowsAt(v, at[v]))
    BY <1>0, <1>6, Zenon DEF Grown
  <2>2. ASSUME NEW l \in 1..Len(ss), l # j
        PROVE  None(ss[l], TopRows(v))
    <3>1. l \in 1..n /\ v \in S \ Gs[l]
      BY <1>0, <1>2, <1>6, <2>2
    <3> QED
      BY <1>0, <3>1, Zenon DEF Grown
  <2> QED
    BY <1>2, <2>1, <2>2, FlattenOnly, Zenon
<1>7. ASSUME NEW v \in S, \A j \in 1..n : v \notin Gs[j]
      PROVE  None(r, TopRows(v))
  <2>1. \A j \in 1..n : None(ss[j], TopRows(v))
    BY <1>0, <1>7, Zenon DEF Grown
  <2> QED
    BY <1>3, <2>1, Zenon
<1>8. ASSUME NEW j \in 1..n, NEW w \in Gs[j], NEW v \in S, v.id \in ToSet(w.children)
      PROVE  Some(r, RowsUnder(v, w))
  <2>1. Some(ss[j], RowsUnder(v, w))
    BY <1>0, <1>8, Zenon DEF Grown
  <2> QED
    BY <1>3, <2>1, Zenon
<1> HIDE DEF r
<1>9. Grown(r, S, G, base, at)
  <2>1. \A v \in S \ G : \A j \in 1..n : v \notin Gs[j]
    BY <1>0
  <2>2. \A v \in G : \E j \in 1..n : v \in Gs[j]
    BY <1>0
  <2> QED
    BY <1>3, <1>4, <1>6, <1>7, <1>8, <2>1, <2>2, Zenon DEF Grown
<1> QED
  BY <1>9 DEF r

\* A group put above a part shows the same agents.
LEMMA GrownUnderRoot ==
    ASSUME NEW S, NEW G, NEW base, NEW at, NEW x \in TidyRow, x.shows = {}, NEW s,
           base = Append(x.path, x.id), Grown(s, S, G, base, at)
    PROVE  Grown(<<x>> \o s, S, G, x.path, at)
<1>1. x.path \in Seq(NodeIds) /\ x.id \in NodeIds /\ s \in Seq(TidyRow)
  BY RowsHavePaths DEF Grown
<1>2. /\ Len(base) = Len(x.path) + 1 /\ base[Len(base)] = x.id
      /\ \A m \in 1..Len(x.path) : base[m] = x.path[m]
  BY <1>1
<1> DEFINE r == <<x>> \o s
<1>3. r \in Seq(TidyRow)
  BY <1>1, Prepend, Zenon
<1>4. Preorder(r, x.path)
  <2>1. \A y \in TidyRow : Len(y.path) \in Nat
    BY RowsHavePaths
  <2>2. Preorder(s, base)
    BY DEF Grown
  <2> QED
    BY <1>1, <1>2, <2>1, <2>2, PreorderPrepended, Zenon
<1>5. \A v : x \notin TopRows(v)
  BY DEF TopRows
<1>6. \A v : /\ None(s, TopRows(v)) => None(r, TopRows(v))
             /\ \A U : Some(s, U) => Some(r, U)
             /\ \A U : Only(s, TopRows(v), U) => Only(r, TopRows(v), U)
  BY <1>1, <1>5, PrependElements, Zenon
<1> HIDE DEF r
<1>7. Grown(r, S, G, x.path, at)
  BY <1>3, <1>4, <1>6, Zenon DEF Grown
<1> QED
  BY <1>7 DEF r

\* The children of an agent are views of the table, each that is listed among them.
LEMMA ChildrenAre ==
    ASSUME NEW S \in Tables, NEW s \in S
    PROVE  /\ Children(S, s) \in Seq(S)
           /\ \A v \in S : v.id \in ToSet(s.children) => Some(Children(S, s), {v})
<1> DEFINE n == Len(s.children)
           ss == [i \in 1..n |-> SetToSeq({v \in S : v.id = s.children[i]})]
<1>1. s.children \in Seq(ToSet(s.children))
  BY TuiAssumption DEF Tables
<1>2. n \in Nat /\ DOMAIN s.children = 1..n
  BY <1>1
<1>3. Children(S, s) = FlattenSeq(ss)
  BY <1>2 DEF Children
<1>4. ASSUME NEW i \in 1..n
      PROVE  /\ ss[i] \in Seq(S)
             /\ \A v \in S : v.id = s.children[i] => Some(ss[i], {v})
  <2> DEFINE K == {v \in S : v.id = s.children[i]}
  <2>1. K = {} \/ \E v \in S : K = {v}
    BY DEF Tables
  <2>2. ss[i] = SetToSeq(K)
    OBVIOUS
  <2>3. \A v \in S : v.id = s.children[i] => v \in K
    OBVIOUS
  <2> HIDE DEF K, ss
  <2>4. CASE K = {}
    <3>1. SetToSeq({}) \in Seq(S)
      BY SetToSeqOfOne
    <3> QED
      BY <2>2, <2>3, <2>4, <3>1
  <2>5. ASSUME NEW v \in S, K = {v}
        PROVE  ss[i] \in Seq(S) /\ \A w \in S : w.id = s.children[i] => Some(ss[i], {w})
    <3>1. SetToSeq({v}) \in Seq(S) /\ Len(SetToSeq({v})) = 1 /\ SetToSeq({v})[1] = v
      BY SetToSeqOfOne
    <3>2. ss[i] \in Seq(S) /\ Len(ss[i]) = 1 /\ ss[i][1] = v
      BY <2>2, <2>5, <3>1
    <3>3. \A w \in S : w.id = s.children[i] => w = v
      BY <2>3, <2>5
    <3>4. Some(ss[i], {v})
      BY <3>2 DEF Some
    <3> QED
      BY <3>2, <3>3, <3>4
  <2> QED
    BY <2>1, <2>4, <2>5
<1>5. ss \in Seq(Seq(S)) /\ Len(ss) = n
  <2>1. ss \in [1..n -> Seq(S)]
    BY <1>4
  <2> HIDE DEF ss
  <2> QED
    BY <1>2, <2>1, FunctionIsSeq
<1> HIDE DEF ss
<1>6. /\ FlattenSeq(ss) \in Seq(S)
      /\ \A U : (\E j \in 1..n : Some(ss[j], U)) => Some(FlattenSeq(ss), U)
  BY <1>5, FlattenElements
<1>7. ASSUME NEW v \in S, v.id \in ToSet(s.children)
      PROVE  Some(FlattenSeq(ss), {v})
  <2>1. PICK i \in 1..n : s.children[i] = v.id
    BY <1>2, <1>7 DEF ToSet
  <2>2. Some(ss[i], {v})
    BY <1>4, <2>1
  <2> QED
    BY <1>6, <2>2
<1> QED
  BY <1>3, <1>6, <1>7

\* What Node makes of a subagent.
LEMMA LeafIs ==
    ASSUME NEW id \in NodeIds, NEW path \in Seq(NodeIds), NEW shows \in SUBSET Views
    PROVE  /\ Node(id, path, shows, FALSE) \in Row
           /\ Node(id, path, shows, FALSE).path = path
           /\ Node(id, path, shows, FALSE).shows = shows
           /\ ~Node(id, path, shows, FALSE).has_children
BY Zenon DEF Node, Row

\* Projects, worktrees and agents have different names.
LEMMA TagsDiffer ==
    ASSUME NEW p, NEW w, NEW a
    PROVE  /\ ProjectId(p)[1] # "agent" /\ WorktreeId(w)[1] # "agent" /\ AgentId(a)[1] = "agent"
           /\ ProjectId(p) # WorktreeId(w)
BY DEF ProjectId, WorktreeId, AgentId

\* The rows of one agent show it at the top and what it lists below it.
LEMMA AgentRowsGrown ==
    ASSUME NEW S \in Tables, NEW s \in S, NEW path, GroupPath(path), NEW at, at[s] = path
    PROVE  Grown(AgentRows(S, s, path), S, {s}, path, at)
<1> DEFINE kids == Children(S, s)
           a == AgentId(s.id)
           below == Append(path, a)
           b == (kids # <<>>)
           x == Node(a, path, {s}, b)
           rows == [i \in 1..Len(kids) |-> Node(AgentId(kids[i].id), below, {kids[i]}, FALSE)]
           r == <<x>> \o rows
<1>1. kids \in Seq(S) /\ \A v \in S : v.id \in ToSet(s.children) => Some(kids, {v})
  BY ChildrenAre
<1>2. AgentRows(S, s, path) = r
  <2>1. DOMAIN kids = 1..Len(kids)
    BY <1>1
  <2> QED
    BY <2>1 DEF AgentRows
<1>3. S \subseteq Views /\ a \in NodeIds /\ \A v \in S : AgentId(v.id) \in NodeIds
  BY DEF Tables, NodeIds, Ids
<1>4. a[1] = "agent" /\ \A v : AgentId(v)[1] = "agent"
  BY TagsDiffer
<1>5. b \in BOOLEAN
  OBVIOUS
<1> HIDE DEF kids, a, b
<1>6. /\ path \in Seq(NodeIds) /\ Len(path) \in Nat
      /\ \A m, n \in 1..Len(path) : path[m] = path[n] => m = n
      /\ \A m \in 1..Len(path) : path[m][1] # "agent"
  BY DEF GroupPath
<1>7. \A m \in 1..Len(path) : path[m] # a
  BY <1>4, <1>6
<1>8. /\ below \in Seq(NodeIds) /\ Len(below) = Len(path) + 1 /\ below[Len(below)] = a
      /\ \A m \in 1..Len(path) : below[m] = path[m]
  BY <1>3, <1>6
<1> HIDE DEF below
<1>9. \A m, n \in 1..Len(below) : below[m] = below[n] => m = n
  BY <1>6, <1>7, <1>8
<1>10. x \in Row /\ x.id = a /\ x.path = path /\ x.shows = {s} /\ x.has_children = b
  BY <1>3, <1>5, <1>6, NodeIs
<1> HIDE DEF x
<1>11. x \in TidyRow
  BY <1>6, <1>7, <1>10, Zenon DEF TidyRow, Tidy
<1>12. \A i \in 1..Len(kids) : /\ rows[i] \in Row /\ rows[i].path = below
                               /\ rows[i].shows = {kids[i]} /\ ~rows[i].has_children
  <2>1. ASSUME NEW i \in 1..Len(kids)
        PROVE  /\ rows[i] \in Row /\ rows[i].path = below
               /\ rows[i].shows = {kids[i]} /\ ~rows[i].has_children
    <3>1. kids[i] \in S
      BY <1>1
    <3>2. {kids[i]} \in SUBSET Views /\ AgentId(kids[i].id) \in NodeIds
      BY <1>3, <3>1
    <3> DEFINE k == AgentId(kids[i].id)
               v == {kids[i]}
               leaf == Node(k, below, v, FALSE)
    <3>3. rows[i] = leaf
      OBVIOUS
    <3>4. below \in Seq(NodeIds)
      BY <1>8
    <3>5. k \in NodeIds /\ v \in SUBSET Views
      BY <3>2
    <3> HIDE DEF k, v
    <3>6. leaf \in Row /\ leaf.path = below /\ leaf.shows = v /\ ~leaf.has_children
      BY <3>4, <3>5, LeafIs, ZenonT(30)
    <3> HIDE DEF leaf, rows
    <3> QED
      BY <3>3, <3>6, Zenon DEF v
  <2> QED
    BY <2>1
<1>13. rows \in Seq(TidyRow) /\ Len(rows) = Len(kids) /\ Len(kids) \in Nat
  <2>1. rows \in [1..Len(kids) -> TidyRow]
    <3>1. ASSUME NEW i \in 1..Len(kids) PROVE rows[i] \in TidyRow
      <4> DEFINE row == rows[i]
      <4>1. row \in Row /\ row.path = below /\ ~row.has_children
        BY <1>12, Zenon
      <4> HIDE DEF row
      <4>2. \A m, n \in 1..Len(row.path) : row.path[m] = row.path[n] => m = n
        BY <1>9, <4>1
      <4>3. row \in TidyRow
        BY <4>1, <4>2, Zenon DEF TidyRow, Tidy
      <4> QED
        BY <4>3 DEF row
    <3> QED
      BY <3>1
  <2>2. Len(kids) \in Nat
    BY <1>1
  <2> HIDE DEF rows
  <2> QED
    BY <2>1, <2>2, FunctionIsSeq
<1> HIDE DEF rows
<1>14. Preorder(rows, below)
  <2>1. \A d \in Len(below)..(Len(below) - 1) : FALSE
    BY <1>6, <1>8
  <2>2. Len(below) >= Len(below)
    BY <1>6, <1>8
  <2>3. \A i \in 1..Len(rows) : rows[i].path = below
    BY <1>12, <1>13
  <2> QED
    BY <2>1, <2>2, <2>3 DEF Preorder
<1>15. r \in Seq(TidyRow) /\ Prepended(r, x, rows)
  BY <1>11, <1>13, Prepend, Zenon
<1>16. Preorder(r, path)
  <2>1. \A y \in TidyRow : Len(y.path) \in Nat
    BY RowsHavePaths
  <2> QED
    BY <1>8, <1>10, <1>11, <1>13, <1>14, <2>1, PreorderPrepended
<1> HIDE DEF r
<1>17. /\ Len(r) = Len(rows) + 1 /\ r[1] = x
       /\ \A i \in 1..Len(rows) : r[i + 1] = rows[i]
       /\ \A i \in 1..Len(r) : i # 1 => i - 1 \in 1..Len(rows) /\ r[i] = rows[i - 1]
  BY <1>15, Zenon DEF Prepended
<1>18. \A v : \A i \in 1..Len(rows) : rows[i] \notin TopRows(v)
  <2>1. Len(below) \in 1..Len(below) /\ below[Len(below)][1] = "agent"
    BY <1>4, <1>6, <1>8
  <2> QED
    BY <1>12, <1>13, <2>1 DEF TopRows
<1>19. ASSUME NEW v \in S \ {s}
       PROVE  None(r, TopRows(v))
  <2>1. x \notin TopRows(v)
    BY <1>10 DEF TopRows
  <2>2. None(rows, TopRows(v))
    BY <1>18 DEF None
  <2> QED
    BY <1>17, <2>1, <2>2, Zenon DEF None
<1>20. Only(r, TopRows(s), TopRowsAt(s, at[s]))
  <2>1. x \in TopRowsAt(s, at[s])
    BY <1>6, <1>10, Zenon DEF TopRowsAt, TopRows
  <2>2. 1 \in 1..Len(r)
    BY <1>13, <1>17
  <2>3. \A j \in 1..Len(r) : r[j] \in TopRows(s) => j = 1
    BY <1>17, <1>18, Zenon
  <2> QED
    BY <1>17, <2>1, <2>2, <2>3, Zenon DEF Only
<1>21. ASSUME NEW v \in S, v.id \in ToSet(s.children)
       PROVE  Some(r, RowsUnder(v, s))
  <2>1. PICK i \in 1..Len(kids) : kids[i] = v
    BY <1>1, <1>21 DEF Some
  <2>2. rows[i] \in RowsUnder(v, s)
    BY <1>8, <1>12, <2>1 DEF RowsUnder, Last, a
  <2>3. i + 1 \in 1..Len(r) /\ r[i + 1] = rows[i]
    BY <1>13, <1>17
  <2> QED
    BY <2>2, <2>3 DEF Some
<1> QED
  BY <1>2, <1>15, <1>16, <1>19, <1>20, <1>21 DEF Grown

\* The rows of a group show each of its agents, newest first.
LEMMA GroupRowsGrown ==
    ASSUME NEW S \in Tables, NEW G \in SUBSET S, NEW path, GroupPath(path),
           NEW at, \A v \in G : at[v] = path
    PROVE  Grown(GroupRows(S, G, path), S, G, path, at)
<1> DEFINE key == [s \in G |-> -s.started]
           agents == SortedBy(G, key)
           n == Len(agents)
           ss == [i \in 1..n |-> AgentRows(S, agents[i], path)]
           Gs == [i \in 1..n |-> {agents[i]}]
<1>1. IsFiniteSet(G)
  BY FS_Subset DEF Tables
<1>2. \A s \in G : key[s] \in Int
  BY TuiAssumption DEF Tables
<1> HIDE DEF key
<1>3. /\ agents \in Seq(G)
      /\ \A i, j \in 1..n : agents[i] = agents[j] => i = j
      /\ \A x \in G : \E i \in 1..n : agents[i] = x
  <2>1. Lists(agents, G)
    BY <1>1, <1>2, SortedByIs, Zenon
  <2> HIDE DEF agents
  <2> QED
    BY <2>1, Zenon DEF Lists
<1>4. GroupRows(S, G, path) = FlattenSeq(ss)
  <2>1. DOMAIN agents = 1..n
    BY <1>3
  <2> QED
    BY <2>1, Zenon DEF GroupRows, key
<1> HIDE DEF agents
<1>5. n \in Nat /\ \A i \in 1..n : agents[i] \in G
  BY <1>3
<1> HIDE DEF n
<1>6. ASSUME NEW i \in 1..n
      PROVE  Grown(ss[i], S, Gs[i], path, at) /\ Gs[i] \subseteq S
  <2>1. agents[i] \in S /\ at[agents[i]] = path
    BY <1>5
  <2>2. ss[i] = AgentRows(S, agents[i], path) /\ Gs[i] = {agents[i]}
    OBVIOUS
  <2> HIDE DEF ss, Gs
  <2> QED
    BY <2>1, <2>2, AgentRowsGrown
<1>7. \A i, j \in 1..n : i # j => Gs[i] \intersect Gs[j] = {}
  BY <1>3 DEF n
<1>8. UNION {Gs[i] : i \in 1..n} = G
  <2>1. \A i \in 1..n : Gs[i] = {agents[i]} /\ agents[i] \in G
    BY <1>5
  <2>2. \A x \in G : \E i \in 1..n : agents[i] = x
    BY <1>3, Zenon DEF n
  <2> HIDE DEF Gs
  <2> QED
    BY <2>1, <2>2
<1>9. ss = [i \in 1..n |-> ss[i]]
  OBVIOUS
<1> HIDE DEF ss, Gs
<1>10. path \in Seq(NodeIds)
  BY DEF GroupPath
<1>11. Parts(n, ss, Gs, S, G, path, at)
  BY <1>5, <1>6, <1>7, <1>8, <1>9, <1>10, Zenon DEF Parts
<1> QED
  BY <1>4, <1>11, GrownTogether, Zenon

\* The path to the agents of a project.
LEMMA ProjectPath ==
    ASSUME NEW p, ProjectId(p) \in NodeIds
    PROVE  GroupPath(<<ProjectId(p)>>) /\ <<ProjectId(p)>> = Append(<<>>, ProjectId(p))
<1> DEFINE P == ProjectId(p)
<1>1. P[1] # "agent" /\ P \in NodeIds
  BY TagsDiffer
<1> HIDE DEF P
<1>2. GroupPath(<<P>>) /\ <<P>> = Append(<<>>, P)
  BY <1>1 DEF GroupPath
<1> QED
  BY <1>2 DEF P

\* The path to the agents of a worktree.
LEMMA WorktreePath ==
    ASSUME NEW p, NEW w, ProjectId(p) \in NodeIds, WorktreeId(w) \in NodeIds
    PROVE  /\ GroupPath(<<ProjectId(p), WorktreeId(w)>>)
           /\ <<ProjectId(p), WorktreeId(w)>> = Append(<<ProjectId(p)>>, WorktreeId(w))
<1> DEFINE P == ProjectId(p)
           W == WorktreeId(w)
<1>1. P[1] # "agent" /\ W[1] # "agent" /\ P # W /\ P \in NodeIds /\ W \in NodeIds
  BY TagsDiffer
<1> HIDE DEF P, W
<1>2. GroupPath(<<P, W>>) /\ <<P, W>> = Append(<<P>>, W)
  BY <1>1 DEF GroupPath
<1> QED
  BY <1>2 DEF P, W

\* The row of a node that is not an agent.
LEMMA HeadRow ==
    ASSUME NEW id \in NodeIds, NEW path, GroupPath(path), \A m \in 1..Len(path) : path[m] # id
    PROVE  /\ Node(id, path, {}, TRUE) \in TidyRow
           /\ Node(id, path, {}, TRUE).path = path /\ Node(id, path, {}, TRUE).id = id
           /\ Node(id, path, {}, TRUE).shows = {}
<1> DEFINE none == {}
           yes == TRUE
           x == Node(id, path, none, yes)
<1>1. path \in Seq(NodeIds) /\ none \in SUBSET Views /\ yes \in BOOLEAN
  BY DEF GroupPath
<1> HIDE DEF none, yes
<1>2. x \in Row /\ x.id = id /\ x.path = path /\ x.shows = none
  BY <1>1, NodeIs
<1> HIDE DEF x
<1>3. /\ \A m, n \in 1..Len(x.path) : x.path[m] = x.path[n] => m = n
      /\ \A m \in 1..Len(x.path) : x.path[m] # x.id
  BY <1>2 DEF GroupPath
<1>4. x \in TidyRow
  BY <1>2, <1>3, Zenon DEF TidyRow, Tidy
<1> QED
  BY <1>2, <1>4, Zenon DEF x, none, yes

\* The rows of a worktree show its agents.
LEMMA WorktreeRowsGrown ==
    ASSUME NEW S \in Tables, NEW G \in SUBSET S, NEW p, NEW w,
           ProjectId(p) \in NodeIds, WorktreeId(w) \in NodeIds,
           NEW at, \A v \in G : v.worktree = w => at[v] = <<ProjectId(p), WorktreeId(w)>>
    PROVE  Grown(WorktreeRows(S, G, p, w), S, {s \in G : s.worktree = w}, <<ProjectId(p)>>, at)
<1> DEFINE H == {s \in G : s.worktree = w}
           x == Node(WorktreeId(w), <<ProjectId(p)>>, {}, TRUE)
           base == <<ProjectId(p), WorktreeId(w)>>
           rows == GroupRows(S, H, base)
<1>1. x \in TidyRow /\ x.path = <<ProjectId(p)>> /\ x.id = WorktreeId(w) /\ x.shows = {}
  <2>1. GroupPath(<<ProjectId(p)>>)
    BY ProjectPath
  <2>2. \A m \in 1..Len(<<ProjectId(p)>>) : <<ProjectId(p)>>[m] # WorktreeId(w)
    BY TagsDiffer
  <2> QED
    BY <2>1, <2>2, HeadRow
<1>2. GroupPath(base) /\ base = Append(<<ProjectId(p)>>, WorktreeId(w))
  BY WorktreePath
<1>3. H \in SUBSET S /\ \A v \in H : at[v] = base
  OBVIOUS
<1>4. WorktreeRows(S, G, p, w) = <<x>> \o rows
  BY Zenon DEF WorktreeRows
<1> HIDE DEF H, x, base
<1>5. Grown(rows, S, H, base, at)
  BY <1>2, <1>3, GroupRowsGrown
<1> HIDE DEF rows
<1>6. base = Append(x.path, x.id)
  BY <1>1, <1>2
<1>7. Grown(<<x>> \o rows, S, H, x.path, at)
  BY <1>1, <1>5, <1>6, GrownUnderRoot
<1>8. Grown(WorktreeRows(S, G, p, w), S, H, <<ProjectId(p)>>, at)
  BY <1>1, <1>4, <1>7
<1> QED
  BY <1>8 DEF H

\* Where the agents at the top are to be.
Places(S) ==
    [v \in S |-> IF \A w \in TopLevel(S) : w.project = v.project => w.worktree = v.worktree
                 THEN <<ProjectId(v.project)>>
                 ELSE <<ProjectId(v.project), WorktreeId(v.worktree)>>]

\* A sequence of the ranks that occur, in order.
LEMMA AscendingIs ==
    ASSUME NEW N, N \subseteq Nat, IsFiniteSet(N)
    PROVE  Lists(Ascending(N), N)
<1> DEFINE key == [y \in N |-> y]
<1>1. \A x \in N : key[x] \in Int
  OBVIOUS
<1>2. Ascending(N) = SortedBy(N, key)
  BY DEF Ascending
<1> HIDE DEF key
<1>3. Lists(SortedBy(N, key), N)
  BY <1>1, SortedByIs, Zenon
<1> QED
  BY <1>2, <1>3, Zenon

\* The rows of a project show its agents, under worktrees where it has several.
LEMMA ProjectRowsGrown ==
    ASSUME NEW S \in Tables, NEW p, ProjectId(p) \in NodeIds
    PROVE  Grown(ProjectRows(S, p), S, {s \in TopLevel(S) : s.project = p}, <<>>, Places(S))
<1> DEFINE G == {s \in TopLevel(S) : s.project = p}
           at == Places(S)
           Ws == {s.worktree : s \in G}
           worktrees == Ascending(Ws)
           n == Len(worktrees)
           x == Node(ProjectId(p), <<>>, {}, TRUE)
           base == <<ProjectId(p)>>
           ss == [i \in 1..n |-> WorktreeRows(S, G, p, worktrees[i])]
           Gs == [i \in 1..n |-> {s \in G : s.worktree = worktrees[i]}]
           rows == IF n <= 1 THEN GroupRows(S, G, base) ELSE FlattenSeq(ss)
<1>1. G \subseteq S /\ IsFiniteSet(G) /\ S \subseteq Views
  <2>1. G \in SUBSET S /\ IsFiniteSet(S)
    BY DEF TopLevel, Tables
  <2> QED
    BY <2>1, FS_Subset DEF Tables
<1>2. IsFiniteSet(Ws) /\ Ws \subseteq Nat
  <2> DEFINE f == [s \in G |-> s.worktree]
  <2>1. f \in Surjection(G, Ws)
    BY DEF Surjection
  <2>2. IsFiniteSet(Ws)
    BY <1>1, <2>1, FS_Surjection
  <2> QED
    BY <1>1, <2>2, TuiAssumption
<1>3. /\ worktrees \in Seq(Ws)
      /\ \A i, j \in 1..n : worktrees[i] = worktrees[j] => i = j
      /\ \A w \in Ws : \E i \in 1..n : worktrees[i] = w
  <2>1. Lists(worktrees, Ws)
    BY <1>2, AscendingIs, Zenon
  <2> HIDE DEF worktrees, Ws
  <2> QED
    BY <2>1, Zenon DEF Lists
<1>4. ProjectRows(S, p) = <<x>> \o rows
  <2>1. DOMAIN worktrees = 1..n
    BY <1>3
  <2> QED
    BY <2>1 DEF ProjectRows
<1>5. n \in Nat /\ \A i \in 1..n : worktrees[i] \in Ws
  <2> HIDE DEF worktrees, Ws
  <2> QED
    BY <1>3
<1>6. \A w \in Ws : WorktreeId(w) \in NodeIds
  BY <1>1 DEF NodeIds
<1>7. \A v \in G : v \in S /\ v.project = p /\ v.worktree \in Ws
  BY <1>1
<1>8. \A v \in G : at[v] = IF \A w \in G : w.worktree = v.worktree
                           THEN base ELSE <<ProjectId(p), WorktreeId(v.worktree)>>
  BY <1>1 DEF Places
<1>9. base = Append(<<>>, ProjectId(p)) /\ GroupPath(base) /\ base \in Seq(NodeIds)
  BY ProjectPath DEF GroupPath
<1>10. x \in TidyRow /\ x.path = <<>> /\ x.id = ProjectId(p) /\ x.shows = {}
  <2> DEFINE e == <<>>
  <2>1. GroupPath(e) /\ \A m \in 1..Len(e) : e[m] # ProjectId(p)
    BY DEF GroupPath
  <2> QED
    BY <2>1, HeadRow
<1>11. \A v \in G : \E i \in 1..n : worktrees[i] = v.worktree
  BY <1>3, <1>7, Zenon
<1>12. ASSUME NEW i \in 1..n PROVE \E v \in G : v.worktree = worktrees[i]
  BY <1>5
<1> HIDE DEF G, at, Ws, worktrees, n, base, x
<1>13. ASSUME n <= 1 PROVE Grown(rows, S, G, base, at)
  <2>1. \A i, j \in 1..n : i = j
    BY <1>5, <1>13
  <2>2. \A v, w \in G : v.worktree = w.worktree
    BY <1>11, <2>1
  <2>3. ASSUME NEW v \in G PROVE at[v] = base
    <3>1. \A w \in G : w.worktree = v.worktree
      BY <2>2
    <3> QED
      BY <1>8, <3>1
  <2>4. Grown(GroupRows(S, G, base), S, G, base, at)
    BY <1>1, <1>9, <2>3, GroupRowsGrown
  <2>5. rows = GroupRows(S, G, base)
    BY <1>13
  <2> HIDE DEF rows
  <2> QED
    BY <2>4, <2>5
<1>14. ASSUME ~(n <= 1) PROVE Grown(rows, S, G, base, at)
  <2>1. 1 \in 1..n /\ 2 \in 1..n
    BY <1>5, <1>14
  <2>2. worktrees[1] # worktrees[2]
    BY <1>3, <2>1
  <2>3. ASSUME NEW v \in G
        PROVE  at[v] = <<ProjectId(p), WorktreeId(v.worktree)>>
    <3>1. PICK v1 \in G : v1.worktree = worktrees[1]
      BY <1>12, <2>1
    <3>2. PICK v2 \in G : v2.worktree = worktrees[2]
      BY <1>12, <2>1
    <3>3. ~(\A w \in G : w.worktree = v.worktree)
      BY <2>2, <3>1, <3>2
    <3> QED
      BY <1>8, <3>3
  <2>4. ASSUME NEW i \in 1..n
        PROVE  Grown(ss[i], S, Gs[i], base, at) /\ Gs[i] \subseteq S
    <3> DEFINE w == worktrees[i]
    <3>1. \A v \in G : v.worktree = w => at[v] = <<ProjectId(p), WorktreeId(w)>>
      BY <2>3
    <3>2. WorktreeId(w) \in NodeIds
      BY <1>5, <1>6
    <3>3. ss[i] = WorktreeRows(S, G, p, w) /\ Gs[i] = {s \in G : s.worktree = w}
      OBVIOUS
    <3> HIDE DEF ss, Gs, w
    <3>4. Grown(WorktreeRows(S, G, p, w), S, {s \in G : s.worktree = w}, base, at)
      BY <1>1, <3>1, <3>2, WorktreeRowsGrown DEF base
    <3> QED
      BY <1>1, <3>3, <3>4
  <2>5. \A i, j \in 1..n : i # j => Gs[i] \intersect Gs[j] = {}
    BY <1>3
  <2>6. UNION {Gs[i] : i \in 1..n} = G
    BY <1>11
  <2>7. ss = [i \in 1..n |-> ss[i]]
    OBVIOUS
  <2> HIDE DEF ss, Gs
  <2>8. n \in Nat
    BY <1>5
  <2>9. Parts(n, ss, Gs, S, G, base, at)
    BY <1>9, <2>4, <2>5, <2>6, <2>7, <2>8, Zenon DEF Parts
  <2>10. Grown(FlattenSeq(ss), S, G, base, at)
    BY <2>9, GrownTogether, Zenon
  <2>11. rows = FlattenSeq(ss)
    BY <1>14 DEF ss
  <2> HIDE DEF rows
  <2> QED
    BY <2>10, <2>11
<1> HIDE DEF rows
<1>15. Grown(rows, S, G, base, at)
  BY <1>13, <1>14
<1>16. base = Append(x.path, x.id)
  BY <1>9, <1>10
<1>17. Grown(<<x>> \o rows, S, G, x.path, at)
  BY <1>10, <1>15, <1>16, GrownUnderRoot
<1> QED
  BY <1>4, <1>10, <1>17 DEF G, at

\* What build_tree shows of a table and where.
LEMMA TreeGrown ==
    ASSUME NEW S \in Tables
    PROVE  Grown(BuildTree(S), S, TopLevel(S), <<>>, Places(S))
<1> DEFINE Ps == {s.project : s \in TopLevel(S)}
           projects == Ascending(Ps)
           n == Len(projects)
           ss == [i \in 1..n |-> ProjectRows(S, projects[i])]
           Gs == [i \in 1..n |-> {s \in TopLevel(S) : s.project = projects[i]}]
<1>1. TopLevel(S) \subseteq S /\ IsFiniteSet(TopLevel(S)) /\ S \subseteq Views
  <2>1. TopLevel(S) \in SUBSET S /\ IsFiniteSet(S)
    BY DEF TopLevel, Tables
  <2> QED
    BY <2>1, FS_Subset DEF Tables
<1>2. IsFiniteSet(Ps) /\ Ps \subseteq Nat
  <2> DEFINE f == [s \in TopLevel(S) |-> s.project]
  <2>1. f \in Surjection(TopLevel(S), Ps)
    BY DEF Surjection
  <2>2. IsFiniteSet(Ps)
    BY <1>1, <2>1, FS_Surjection
  <2> QED
    BY <1>1, <2>2, TuiAssumption
<1>3. \A p \in Ps : ProjectId(p) \in NodeIds
  BY <1>1 DEF NodeIds
<1>4. \A s \in TopLevel(S) : s.project \in Ps
  OBVIOUS
<1> HIDE DEF Ps
<1>5. /\ projects \in Seq(Ps)
      /\ \A i, j \in 1..n : projects[i] = projects[j] => i = j
      /\ \A p \in Ps : \E i \in 1..n : projects[i] = p
  <2>1. Lists(projects, Ps)
    BY <1>2, AscendingIs, Zenon
  <2> HIDE DEF projects
  <2> QED
    BY <2>1, Zenon DEF Lists
<1>6. BuildTree(S) = FlattenSeq(ss)
  <2>1. DOMAIN projects = 1..n
    BY <1>5
  <2> QED
    BY <2>1 DEF BuildTree, Ps
<1> HIDE DEF projects
<1>7. n \in Nat /\ \A i \in 1..n : projects[i] \in Ps
  BY <1>5
<1>8. ASSUME NEW i \in 1..n
      PROVE  Grown(ss[i], S, Gs[i], <<>>, Places(S)) /\ Gs[i] \subseteq S
  <2> DEFINE p == projects[i]
  <2>1. ProjectId(p) \in NodeIds
    BY <1>3, <1>7
  <2>2. ss[i] = ProjectRows(S, p) /\ Gs[i] = {s \in TopLevel(S) : s.project = p}
    OBVIOUS
  <2> HIDE DEF ss, Gs, p
  <2> QED
    BY <1>1, <2>1, <2>2, ProjectRowsGrown
<1>9. \A i, j \in 1..n : i # j => Gs[i] \intersect Gs[j] = {}
  BY <1>5
<1>10. UNION {Gs[i] : i \in 1..n} = TopLevel(S)
  BY <1>4, <1>5
<1>11. ss = [i \in 1..n |-> ss[i]]
  OBVIOUS
<1> HIDE DEF ss, Gs
<1>12. <<>> \in Seq(NodeIds) /\ n \in Nat
  BY <1>7
<1>13. Parts(n, ss, Gs, S, TopLevel(S), <<>>, Places(S))
  BY <1>8, <1>9, <1>10, <1>11, <1>12, Zenon DEF Parts
<1> QED
  BY <1>6, <1>13, GrownTogether, Zenon

-----------------------------------------------------------------------------
(* Lemmas about folds *)

Seen(row, e) == ToSet(row.path) \subseteq e

\* r is what is seen of tree t when the nodes e are unfolded; off[j] is how many
\* of its first j rows are.
Sifted(r, t, e, off) ==
    /\ off \in [0..Len(t) -> Nat] /\ off[0] = 0
    /\ \A j \in 1..Len(t) : off[j] = off[j - 1] + IF Seen(t[j], e) THEN 1 ELSE 0
    /\ Len(r) = off[Len(t)]
    /\ \A j \in 1..Len(t) : Seen(t[j], e) => off[j] \in 1..Len(r) /\ r[off[j]] = t[j]
    /\ \A i \in 1..Len(r) : \E j \in 1..Len(t) : Seen(t[j], e) /\ i = off[j]
    /\ \A j, l \in 0..Len(t) : j <= l => off[j] <= off[l]

\* FlattenTree keeps, in order, the rows of the tree that are seen.
LEMMA TreeSifted ==
    ASSUME NEW X, NEW t \in Seq(X), NEW e
    PROVE  FlattenTree(t, e) \in Seq(X) /\ \E off : Sifted(FlattenTree(t, e), t, e, off)
<1> DEFINE n == Len(t)
           ss == [i \in 1..n |-> IF Seen(t[i], e) THEN <<t[i]>> ELSE <<>>]
           r == FlattenSeq(ss)
<1>1. FlattenTree(t, e) = r
  <2>1. DOMAIN t = 1..n
    OBVIOUS
  <2> QED
    BY <2>1 DEF FlattenTree, Seen
<1>2. n \in Nat /\ \A i \in 1..n : t[i] \in X
  OBVIOUS
<1>3. \A i \in 1..n : /\ ss[i] \in Seq(X)
                      /\ Len(ss[i]) = IF Seen(t[i], e) THEN 1 ELSE 0
                      /\ Seen(t[i], e) => ss[i][1] = t[i]
  <2>1. ASSUME NEW i \in 1..n, Seen(t[i], e)
        PROVE  ss[i] \in Seq(X) /\ Len(ss[i]) = 1 /\ ss[i][1] = t[i]
    <3>1. ss[i] = <<t[i]>>
      BY <2>1
    <3> HIDE DEF ss
    <3> QED
      BY <1>2, <3>1
  <2>2. ASSUME NEW i \in 1..n, ~Seen(t[i], e)
        PROVE  ss[i] \in Seq(X) /\ Len(ss[i]) = 0
    <3>1. ss[i] = <<>>
      BY <2>2
    <3> HIDE DEF ss
    <3> QED
      BY <3>1
  <2> HIDE DEF ss, n
  <2> QED
    BY <2>1, <2>2
<1>4. ss \in Seq(Seq(X)) /\ Len(ss) = n
  <2>1. ss \in [1..n -> Seq(X)]
    BY <1>3
  <2> HIDE DEF ss
  <2> QED
    BY <1>2, <2>1, FunctionIsSeq
<1> HIDE DEF ss
<1>5. r \in Seq(X) /\ \E off : Layout(r, ss, off)
  BY <1>4, FlattenLaysOut
<1> HIDE DEF r
<1>6. PICK off : Layout(r, ss, off)
  BY <1>5
<1>7. Rises(r, ss, off)
  BY <1>4, <1>5, <1>6, LayoutRises, Zenon
<1> HIDE DEF n
<1>8. /\ off \in [0..n -> Nat] /\ off[0] = 0 /\ Len(r) = off[n]
      /\ \A j \in 1..n : off[j] = off[j - 1] + Len(ss[j])
      /\ \A j \in 1..n : \A k \in 1..Len(ss[j]) : r[off[j - 1] + k] = ss[j][k]
  BY <1>4, <1>6 DEF Layout
<1>9. /\ \A j, l \in 0..n : j <= l => off[j] <= off[l]
      /\ \A j \in 1..n : \A k \in 1..Len(ss[j]) : off[j - 1] + k \in 1..Len(r)
      /\ \A i \in 1..Len(r) : \E j \in 1..n : \E k \in 1..Len(ss[j]) : i = off[j - 1] + k
  BY <1>4, <1>7 DEF Rises
<1>10. \A j \in 1..n : off[j] = off[j - 1] + IF Seen(t[j], e) THEN 1 ELSE 0
  BY <1>3, <1>8
<1>11. ASSUME NEW j \in 1..n, Seen(t[j], e)
       PROVE  off[j] \in 1..Len(r) /\ r[off[j]] = t[j]
  <2>1. 1 \in 1..Len(ss[j]) /\ off[j - 1] + 1 = off[j]
    BY <1>3, <1>10, <1>11
  <2> QED
    BY <1>3, <1>8, <1>9, <1>11, <2>1
<1>12. ASSUME NEW i \in 1..Len(r)
       PROVE  \E j \in 1..n : Seen(t[j], e) /\ i = off[j]
  <2>1. PICK j \in 1..n : \E k \in 1..Len(ss[j]) : i = off[j - 1] + k
    BY <1>9
  <2>2. PICK k \in 1..Len(ss[j]) : i = off[j - 1] + k
    BY <2>1
  <2>3. Seen(t[j], e) /\ k = 1
    BY <1>3
  <2> QED
    BY <1>10, <2>2, <2>3
<1>13. Sifted(r, t, e, off)
  BY <1>8, <1>9, <1>10, <1>11, <1>12 DEF Sifted, n
<1> QED
  BY <1>1, <1>5, <1>13

\* The rows seen are rows of the tree.
LEMMA RowsOfTree ==
    ASSUME NEW X, NEW t \in Seq(X), NEW e
    PROVE  /\ FlattenTree(t, e) \in Seq(X)
           /\ \A i \in 1..Len(FlattenTree(t, e)) :
                 \E j \in 1..Len(t) : FlattenTree(t, e)[i] = t[j] /\ Seen(t[j], e)
           /\ \A j \in 1..Len(t) : Seen(t[j], e) => Some(FlattenTree(t, e), {t[j]})
<1> DEFINE r == FlattenTree(t, e)
<1>1. r \in Seq(X) /\ \E off : Sifted(r, t, e, off)
  BY TreeSifted
<1> HIDE DEF r
<1>2. PICK off : Sifted(r, t, e, off)
  BY <1>1
<1>3. \A j \in 1..Len(t) : Seen(t[j], e) => off[j] \in 1..Len(r) /\ r[off[j]] = t[j]
  BY <1>2, Zenon DEF Sifted
<1>4. \A i \in 1..Len(r) : \E j \in 1..Len(t) : Seen(t[j], e) /\ i = off[j]
  BY <1>2, Zenon DEF Sifted
<1>5. ASSUME NEW i \in 1..Len(r)
      PROVE  \E j \in 1..Len(t) : r[i] = t[j] /\ Seen(t[j], e)
  <2>1. PICK j \in 1..Len(t) : Seen(t[j], e) /\ i = off[j]
    BY <1>4, Zenon
  <2> QED
    BY <1>3, <2>1, Zenon
<1>6. \A j \in 1..Len(t) : Seen(t[j], e) => Some(r, {t[j]})
  BY <1>3, Zenon DEF Some
<1> QED
  BY <1>1, <1>5, <1>6, Zenon DEF r

\* Unfolding more never makes rows fewer.
LEMMA UnfoldedHasMore ==
    ASSUME NEW X, NEW t \in Seq(X), NEW e, NEW f,
           \A j \in 1..Len(t) : Seen(t[j], e) => Seen(t[j], f)
    PROVE  Len(FlattenTree(t, e)) <= Len(FlattenTree(t, f))
<1> DEFINE r == FlattenTree(t, e)
           s == FlattenTree(t, f)
           n == Len(t)
<1>1. /\ r \in Seq(X) /\ \E off : Sifted(r, t, e, off)
      /\ s \in Seq(X) /\ \E off : Sifted(s, t, f, off)
  BY TreeSifted
<1> HIDE DEF r, s
<1>2. PICK o : Sifted(r, t, e, o)
  BY <1>1
<1>3. PICK q : Sifted(s, t, f, q)
  BY <1>1
<1>4. n \in Nat
  OBVIOUS
<1> HIDE DEF n
<1>5. /\ o \in [0..n -> Nat] /\ o[0] = 0 /\ Len(r) = o[n]
      /\ \A j \in 1..n : o[j] = o[j - 1] + IF Seen(t[j], e) THEN 1 ELSE 0
  BY <1>2, Zenon DEF Sifted, n
<1>6. /\ q \in [0..n -> Nat] /\ q[0] = 0 /\ Len(s) = q[n]
      /\ \A j \in 1..n : q[j] = q[j - 1] + IF Seen(t[j], f) THEN 1 ELSE 0
  BY <1>3, Zenon DEF Sifted, n
<1> DEFINE P == {j \in Nat : o[j] <= q[j]}
<1>7. 0 \in P
  BY <1>5, <1>6
<1>8. ASSUME NEW j \in 0..(n - 1), j \in P
      PROVE  j + 1 \in P
  <2>1. j + 1 \in 1..n /\ (j + 1) - 1 = j /\ j \in 0..n /\ j + 1 \in Nat
    BY <1>4
  <2>2. Seen(t[j + 1], e) => Seen(t[j + 1], f)
    BY <2>1 DEF n
  <2>3. o[j + 1] = o[j] + IF Seen(t[j + 1], e) THEN 1 ELSE 0
    BY <1>5, <2>1
  <2>4. q[j + 1] = q[j] + IF Seen(t[j + 1], f) THEN 1 ELSE 0
    BY <1>6, <2>1
  <2>5. o[j] \in Nat /\ q[j] \in Nat /\ o[j] <= q[j]
    BY <1>5, <1>6, <1>8, <2>1
  <2>6. o[j + 1] <= q[j + 1]
    BY <2>2, <2>3, <2>4, <2>5
  <2> QED
    BY <2>1, <2>6
<1> HIDE DEF P
<1>9. n \in P
  <2>1. 0..n \subseteq P
    BY <1>4, <1>7, <1>8, UpToInductive
  <2> QED
    BY <1>4, <2>1
<1> QED
  BY <1>5, <1>6, <1>9 DEF P, r, s

\* What is seen of a tree is in preorder too.
LEMMA PreorderSeen ==
    ASSUME NEW t \in Seq(TidyRow), NEW e, Preorder(t, <<>>)
    PROVE  Preorder(FlattenTree(t, e), <<>>)
<1> DEFINE r == FlattenTree(t, e)
           n == Len(t)
<1>1. r \in Seq(TidyRow) /\ \E off : Sifted(r, t, e, off)
  BY TreeSifted
<1> HIDE DEF r
<1>2. PICK off : Sifted(r, t, e, off)
  BY <1>1
<1>3. n \in Nat /\ \A j \in 1..n : t[j] \in TidyRow
  OBVIOUS
<1> HIDE DEF n
<1>4. /\ off \in [0..n -> Nat]
      /\ \A j \in 1..n : off[j] = off[j - 1] + IF Seen(t[j], e) THEN 1 ELSE 0
      /\ \A j \in 1..n : Seen(t[j], e) => off[j] \in 1..Len(r) /\ r[off[j]] = t[j]
      /\ \A i \in 1..Len(r) : \E j \in 1..n : Seen(t[j], e) /\ i = off[j]
      /\ \A j, l \in 0..n : j <= l => off[j] <= off[l]
  BY <1>2, Zenon DEF Sifted, n
<1>5. ASSUME NEW j \in 1..n, NEW l \in 1..n, j < l, Seen(t[l], e)
      PROVE  off[j] < off[l]
  <2>1. j \in 0..n /\ l - 1 \in 0..n /\ l \in 0..n /\ j <= l - 1
    BY <1>3, <1>5
  <2>2. off[j] <= off[l - 1] /\ off[l] = off[l - 1] + 1
    BY <1>4, <1>5, <2>1
  <2>3. off[j] \in Nat /\ off[l - 1] \in Nat
    BY <1>4, <2>1
  <2> QED
    BY <2>2, <2>3
<1>6. ASSUME NEW i \in 1..Len(r), NEW d \in 0..(Len(r[i].path) - 1)
      PROVE  \E h \in 1..(i - 1) : IsAbove(r, i, h, d)
  <2>1. PICK j \in 1..n : Seen(t[j], e) /\ i = off[j]
    BY <1>4
  <2>2. r[i] = t[j]
    BY <1>4, <2>1
  <2>3. PICK a \in 1..(j - 1) : IsAbove(t, j, a, d)
    <3>1. d \in Len(<<>>)..(Len(t[j].path) - 1)
      BY <2>2
    <3> QED
      BY <3>1, Zenon DEF Preorder, n
  <2>4. a \in 1..n /\ a < j
    BY <1>3
  <2>5. t[a].path \in Seq(NodeIds) /\ t[j].path \in Seq(NodeIds) /\ d \in Nat
    BY <1>3, <2>2, <2>4, RowsHavePaths
  <2>6. /\ Len(t[a].path) = d /\ t[a].id = t[j].path[d + 1]
        /\ \A m \in 1..d : t[a].path[m] = t[j].path[m]
        /\ \A k \in (a + 1)..(j - 1) : Len(t[k].path) > d
    BY <2>3, Zenon DEF IsAbove
  <2>7. Seen(t[a], e)
    <3>1. \A m \in 1..d : t[a].path[m] \in ToSet(t[j].path)
      <4>1. \A m \in 1..d : m \in DOMAIN t[j].path
        BY <2>2, <2>5
      <4> QED
        BY <2>6, <4>1 DEF ToSet
    <3>2. DOMAIN t[a].path = 1..d
      BY <2>5, <2>6
    <3> QED
      BY <2>1, <3>1, <3>2 DEF Seen, ToSet
  <2> DEFINE h == off[a]
  <2>8. h \in 1..Len(r) /\ r[h] = t[a] /\ h < i
    BY <1>4, <1>5, <2>1, <2>4, <2>7
  <2>9. ASSUME NEW k \in (h + 1)..(i - 1)
        PROVE  Len(r[k].path) > d
    <3>1. k \in 1..Len(r)
      BY <2>8
    <3>2. PICK l \in 1..n : Seen(t[l], e) /\ k = off[l]
      BY <1>4, <3>1
    <3>3. r[k] = t[l]
      BY <1>4, <3>2
    <3>4. ~(l < a) /\ l # a
      <4>1. l < a => off[l] < off[a]
        BY <1>5, <2>4, <2>7
      <4> QED
        BY <2>8, <3>2, <4>1
    <3>5. ~(j < l) /\ l # j
      <4>1. j < l => off[j] < off[l]
        BY <1>5, <3>2
      <4> QED
        BY <2>1, <2>8, <3>2, <4>1
    <3>6. l \in (a + 1)..(j - 1)
      BY <3>4, <3>5
    <3> QED
      BY <2>6, <3>3, <3>6
  <2> HIDE DEF h
  <2>10. IsAbove(r, i, h, d)
    BY <2>2, <2>6, <2>8, <2>9, Zenon DEF IsAbove
  <2>11. h \in 1..(i - 1)
    BY <2>8
  <2> QED
    BY <2>10, <2>11
<1>7. \A i \in 1..Len(r) : r[i].path \in Seq(NodeIds)
  BY <1>1, RowsHavePaths
<1>8. \A i \in 1..Len(r) : Len(r[i].path) >= 0
  BY <1>7
<1>9. Len(<<>>) = 0
  OBVIOUS
<1> QED
  BY <1>6, <1>8, <1>9 DEF Preorder, r

-----------------------------------------------------------------------------
(* Lemmas about the rows that keys look for *)

\* The first and the last of some numbers up to n.
LEMMA Extremes ==
    ASSUME NEW n \in Nat, NEW I, I \subseteq 1..n, I # {}
    PROVE  /\ Min(I) \in I /\ \A i \in I : Min(I) <= i
           /\ Max(I) \in I /\ \A i \in I : i <= Max(I)
<1>1. I \subseteq Nat /\ \A i \in I : i <= n
  OBVIOUS
<1>2. \E m \in I : \A i \in I : m <= i
  <2>1. PICK m \in I : \A i \in I : ~(<<i, m>> \in OpToRel(<, Nat))
    BY <1>1, NatLessThanWellFounded, WFMin
  <2>2. \A i \in I : ~(i < m)
    BY <1>1, <2>1, Zenon DEF OpToRel
  <2> QED
    BY <1>1, <2>2
<1>3. \E m \in I : \A i \in I : i <= m
  <2> DEFINE D == {n - i : i \in I}
  <2>1. D \subseteq Nat /\ D # {}
    <3>1. \A i \in I : n - i \in Nat
      BY <1>1
    <3> QED
      BY <3>1
  <2>2. PICK d \in D : \A e \in D : ~(<<e, d>> \in OpToRel(<, Nat))
    BY <2>1, NatLessThanWellFounded, WFMin
  <2>3. PICK m \in I : d = n - m
    OBVIOUS
  <2>4. ASSUME NEW i \in I
        PROVE  i <= m
    <3>1. n - i \in D /\ n - i \in Nat /\ d \in Nat
      BY <2>1
    <3>2. ~(n - i < d)
      BY <2>2, <3>1, Zenon DEF OpToRel
    <3> QED
      BY <1>1, <2>3, <3>2
  <2> QED
    BY <2>4
<1>4. Min(I) \in I /\ \A i \in I : Min(I) <= i
  BY <1>2 DEF Min
<1>5. Max(I) \in I /\ \A i \in I : i <= Max(I)
  <2>1. \E m \in I : \A i \in I : m >= i
    BY <1>1, <1>3
  <2>2. Max(I) \in I /\ \A i \in I : Max(I) >= i
    BY <2>1 DEF Max
  <2> QED
    BY <1>1, <2>2
<1> QED
  BY <1>4, <1>5

\* At finds a row with the id if there is one.
LEMMA AtIs ==
    ASSUME NEW X, NEW rows \in Seq(X), NEW id, NEW otherwise \in Nat
    PROVE  /\ At(rows, id, otherwise) \in Nat
           /\ \A i \in 1..Len(rows) : rows[i].id = id =>
                 At(rows, id, otherwise) < Len(rows) /\ rows[At(rows, id, otherwise) + 1].id = id
<1> DEFINE I == {i \in 1..Len(rows) : rows[i].id = id}
           at == At(rows, id, otherwise)
<1>1. Len(rows) \in Nat
  OBVIOUS
<1>2. at = IF I = {} THEN otherwise ELSE Min(I) - 1
  <2>1. SelectInSeq(rows, LAMBDA row : row.id = id) = IF I # {} THEN Min(I) ELSE 0
    BY DEF SelectInSeq
  <2>2. I # {} => Min(I) \in 1..Len(rows)
    BY <1>1, Extremes
  <2> QED
    BY <2>1, <2>2 DEF At
<1>3. I # {} => Min(I) \in I /\ Min(I) - 1 \in Nat /\ Min(I) - 1 < Len(rows) /\ (Min(I) - 1) + 1 = Min(I)
  <2>1. I # {} => Min(I) \in I
    BY <1>1, Extremes
  <2> QED
    BY <1>1, <2>1
<1>4. at \in Nat
  BY <1>2, <1>3
<1>5. ASSUME NEW i \in 1..Len(rows), rows[i].id = id
      PROVE  at < Len(rows) /\ rows[at + 1].id = id
  <2>1. I # {}
    BY <1>5
  <2>2. at = Min(I) - 1
    BY <1>2, <2>1
  <2>3. \A j \in I : rows[j].id = id
    OBVIOUS
  <2> HIDE DEF I
  <2> HIDE DEF at
  <2> QED
    BY <1>3, <2>1, <2>2, <2>3
<1> QED
  BY <1>4, <1>5

\* The row that Above finds, at index h.
LEMMA AboveIs ==
    ASSUME NEW X, tree_rows \in Seq(X), NEW i \in Nat, i <= Len(tree_rows), NEW depth
    PROVE  /\ \A id \in Above(i, depth) :
                 \E h \in 1..i : id = tree_rows[h].id /\ Len(tree_rows[h].path) < depth
           /\ \A h \in 1..i : /\ Len(tree_rows[h].path) < depth
                              /\ \A k \in (h + 1)..i : ~(Len(tree_rows[k].path) < depth)
                              => Above(i, depth) = {tree_rows[h].id}
<1> DEFINE I == {h \in 1..i : Depth(tree_rows[h]) < depth}
<1>1. Above(i, depth) = IF I = {} THEN {} ELSE {tree_rows[Max(I)].id}
  <2>1. SelectLastInSubSeq(tree_rows, 1, i, LAMBDA row : Depth(row) < depth)
          = IF I # {} THEN Max(I) ELSE 0
    BY DEF SelectLastInSubSeq
  <2>2. I # {} => Max(I) \in 1..i
    BY Extremes
  <2> HIDE DEF I
  <2>3. I # {} => Max(I) # 0
    BY <2>2
  <2> QED
    BY <2>1, <2>3 DEF Above
<1>2. \A id \in Above(i, depth) :
          \E h \in 1..i : id = tree_rows[h].id /\ Len(tree_rows[h].path) < depth
  <2>1. I # {} => Max(I) \in I
    BY Extremes
  <2> QED
    BY <1>1, <2>1 DEF Depth
<1>3. ASSUME NEW h \in 1..i, Len(tree_rows[h].path) < depth,
             \A k \in (h + 1)..i : ~(Len(tree_rows[k].path) < depth)
      PROVE  Above(i, depth) = {tree_rows[h].id}
  <2>1. h \in I
    BY <1>3 DEF Depth
  <2>2. Max(I) \in I /\ h <= Max(I)
    BY <2>1, Extremes
  <2>3. Max(I) = h
    BY <1>3, <2>2 DEF Depth
  <2> QED
    BY <1>1, <2>1, <2>3
<1> QED
  BY <1>2, <1>3

-----------------------------------------------------------------------------
(* Lemmas about keys *)

\* Only a d that follows no prefix makes one pending, and it is no action.
LEMMA PendingDOpens ==
    ASSUME NEW in, NEW k, NextInput(in, k).mode = "PendingD"
    PROVE  in.mode # "PendingD" /\ Output(in, k) = NoAction
<1>1. in.mode \in {"Ready", "Count"} /\ k \in {"d", "o", "z"} /\ PendingAfter(k) = "PendingD"
  BY DEF NextInput, Mode, Ready
<1>2. k = "d"
  BY <1>1 DEF PendingAfter
<1>3. Output(in, k) = Simple(k)
  BY <1>1, <1>2 DEF Output, MotionKeys, Ready, Mode
<1> QED
  BY <1>1, <1>2, <1>3 DEF Simple

\* Help is displayed by a key that leaves nothing pending.
LEMMA HelpLeavesNothingPending ==
    ASSUME NEW in, NEW k, Output(in, k).do = "ToggleHelp"
    PROVE  NextInput(in, k).mode # "PendingD"
BY PendingDOpens DEF NoAction, Do

\* What follows a pending d kills or does nothing.
LEMMA PendingDEnds ==
    ASSUME NEW in, NEW k, in.mode = "PendingD"
    PROVE  Output(in, k) = IF k = "d" THEN Do("KillAgent", 0) ELSE NoAction
BY DEF Output, Ready, Mode

-----------------------------------------------------------------------------
(* Lemmas about counts *)

\* A count that has been typed is not 0.
Counting(in) == in \in InputStates /\ (in.mode = "Count" => in.count # 0)

\* A count grows only up to the limit, and never back to 0.
LEMMA AccumulateIs ==
    ASSUME NEW n \in Nat, NEW k \in DigitKeys, n # 0 \/ k # "0"
    PROVE  Accumulate(n, k) \in 0..MaxCount /\ Accumulate(n, k) # 0
<1>1. MaxCount \in Nat /\ MaxCount # 0
  BY CountAssumption
<1>2. DigitOf(k) \in Nat /\ (k # "0" => DigitOf(k) # 0)
  BY DEF DigitOf, DigitKeys
<1>3. 10 * n + DigitOf(k) \in Nat /\ 10 * n + DigitOf(k) # 0
  BY <1>2
<1> QED
  BY <1>1, <1>3 DEF Accumulate

\* No key sequence gives a row number below 0.
LEMMA CountsAreTyped ==
    ASSUME NEW in, Counting(in), NEW k \in Keys
    PROVE  Counting(NextInput(in, k)) /\ Output(in, k).n \in Nat
<1>1. /\ in.mode \in Modes /\ in.count \in 0..MaxCount /\ in.count \in Nat
      /\ in = [mode |-> in.mode, count |-> in.count]
      /\ 0 \in 0..MaxCount
  BY CountAssumption DEF Counting, InputStates
<1>2. \A m \in Modes, n \in 0..MaxCount :
        /\ Mode(m, n) \in InputStates /\ Mode(m, n).mode = m /\ Mode(m, n).count = n
  BY DEF Mode, InputStates
<1>3. Counting(Ready)
  BY <1>1, <1>2 DEF Counting, Ready, Mode, Modes
<1>4. Counting(NextInput(in, k))
  <2>1. CASE in.mode \in {"Ready", "Count"} /\ k \in DigitKeys /\ ~(in = Ready /\ k = "0")
    <3>1. in.count # 0 \/ k # "0"
      BY <1>1, <2>1 DEF Counting, Ready, Mode
    <3>2. Accumulate(in.count, k) \in 0..MaxCount /\ Accumulate(in.count, k) # 0
      BY <1>1, <2>1, <3>1, AccumulateIs
    <3>3. NextInput(in, k) = Mode("Count", Accumulate(in.count, k))
      BY <2>1 DEF NextInput, DigitKeys
    <3>4. "Count" \in Modes
      BY DEF Modes
    <3> QED
      BY <1>2, <3>2, <3>3, <3>4 DEF Counting
  <2>2. CASE in.mode \in {"Ready", "Count"} /\ k = "g"
    <3>1. NextInput(in, k) = Mode("PendingG", in.count)
      BY <2>2 DEF NextInput, DigitKeys
    <3> QED
      BY <1>1, <1>2, <3>1 DEF Counting, Modes
  <2>3. CASE in.mode \in {"Ready", "Count"} /\ k \in {"d", "o", "z"}
    <3>1. NextInput(in, k) = Mode(PendingAfter(k), 0)
      BY <2>3 DEF NextInput, DigitKeys
    <3>2. PendingAfter(k) \in {"PendingD", "PendingO", "PendingZ"}
      BY <2>3 DEF PendingAfter
    <3>3. PendingAfter(k) \in Modes /\ PendingAfter(k) # "Count"
      BY <3>2 DEF Modes
    <3> QED
      BY <1>1, <1>2, <3>1, <3>3 DEF Counting
  <2>4. CASE /\ ~(in.mode \in {"Ready", "Count"} /\ k \in DigitKeys /\ ~(in = Ready /\ k = "0"))
             /\ ~(in.mode \in {"Ready", "Count"} /\ k = "g")
             /\ ~(in.mode \in {"Ready", "Count"} /\ k \in {"d", "o", "z"})
    <3>1. NextInput(in, k) = Ready
      BY <2>4 DEF NextInput
    <3> QED
      BY <1>3, <3>1
  <2> QED
    BY <2>1, <2>2, <2>3, <2>4
<1>5. \A a, n : Do(a, n).n = n
  BY DEF Do
<1>6. NoAction.n \in Nat /\ Simple(k).n \in Nat /\ FoldChord(k).n \in Nat
  BY <1>5 DEF NoAction, Simple, FoldChord
<1>7. ASSUME NEW n \in Nat, n # 0, k \in MotionKeys
      PROVE  Motion(k, n).n \in Nat
  <2>1. n - 1 \in Nat
    BY <1>7
  <2> QED
    BY <1>5, <1>7, <2>1 DEF Motion, MotionKeys
<1>8. Output(in, k).n \in Nat
  <2>1. CASE in.mode = "PendingG"
    <3>1. in.count # 0 => in.count - 1 \in Nat
      BY <1>1
    <3>2. Output(in, k) = IF k # "g" THEN Simple(k)
                          ELSE IF in.count = 0 THEN Do("GoToRow", 0)
                          ELSE Do("GoToRow", in.count - 1)
      BY <2>1 DEF Output, Ready, Mode
    <3> QED
      BY <1>5, <1>6, <3>1, <3>2
  <2>2. CASE in.mode = "PendingD"
    BY <1>5, <1>6, <2>2, PendingDEnds
  <2>3. CASE in.mode = "PendingO"
    BY <1>5, <1>6, <2>3 DEF Output
  <2>4. CASE in.mode = "PendingZ"
    BY <1>6, <2>4 DEF Output, Ready, Mode
  <2>5. CASE in.mode \in {"Ready", "Count"}
    <3>1. CASE in = Ready /\ k = "0"
      BY <1>5, <3>1 DEF Output, MotionKeys, Ready, Mode
    <3>2. CASE ~(in = Ready /\ k = "0") /\ k \in MotionKeys
      <4> DEFINE n == IF in.mode = "Ready" THEN 1 ELSE in.count
      <4>1. Output(in, k) = Motion(k, n)
        BY <2>5, <3>2 DEF Output
      <4>2. n \in Nat /\ n # 0
        BY <1>1, <2>5 DEF Counting
      <4> HIDE DEF n
      <4> QED
        BY <1>7, <3>2, <4>1, <4>2
    <3>3. CASE ~(in = Ready /\ k = "0") /\ k \notin MotionKeys
      BY <1>6, <2>5, <3>3 DEF Output
    <3> QED
      BY <3>1, <3>2, <3>3
  <2> QED
    BY <1>1, <2>1, <2>2, <2>3, <2>4, <2>5 DEF Modes
<1> QED
  BY <1>4, <1>8

-----------------------------------------------------------------------------
(* Lemmas about steps *)

\* The capture task touches neither rows nor keys.
LEMMA Captures ==
    ASSUME CaptureTick \/ CaptureFailed \/ CaptureUpdate
    PROVE  /\ killed' = {}
           /\ UNCHANGED <<display, folds, capture_pane_id, show_help, input, armed, lagging>>
           /\ captured_output' \in {captured_output, capture_pane_id}
BY DEF CaptureTick, CaptureFailed, CaptureUpdate, UpdateCapture, capture, display, folds

Messages ==
    \/ \E v \in Views : SessionUpdate(v)
    \/ \E S \in Tables : SessionListReplace(S)
    \/ \E id \in Ids : SessionRemoved(id)
    \/ \E F \in PaneSets : FilterUpdate(F)

\* A message kills nobody and aims a pending d at what is under the cursor.
LEMMA MessageSteps ==
    ASSUME Messages
    PROVE  /\ killed' = {} /\ UNCHANGED <<show_help, input, running, capturing>>
           /\ armed' = Aim(input.mode, tree_rows', selected_index')
           /\ RefreshCapture \/ (lagging' = TRUE /\ UNCHANGED capture)
<1>1. ASSUME NEW S, NEW F, RebuildTree(S, F)
      PROVE  armed' = Aim(input.mode, tree_rows', selected_index')
  BY <1>1 DEF RebuildTree
<1>2. ASSUME NEW v \in Views, SessionUpdate(v)
      PROVE  /\ armed' = Aim(input.mode, tree_rows', selected_index')
             /\ RefreshCapture /\ FromDaemon
  BY <1>1, <1>2 DEF SessionUpdate
<1>3. ASSUME NEW S \in Tables, SessionListReplace(S)
      PROVE  /\ armed' = Aim(input.mode, tree_rows', selected_index')
             /\ RefreshCapture /\ FromDaemon
  BY <1>1, <1>3 DEF SessionListReplace
<1>4. ASSUME NEW id \in Ids, SessionRemoved(id)
      PROVE  /\ armed' = Aim(input.mode, tree_rows', selected_index')
             /\ lagging' = TRUE /\ UNCHANGED capture /\ FromDaemon
  BY <1>1, <1>4 DEF SessionRemoved
<1>5. ASSUME NEW F \in PaneSets, FilterUpdate(F)
      PROVE  /\ armed' = Aim(input.mode, tree_rows', selected_index')
             /\ lagging' = TRUE /\ UNCHANGED capture /\ FromDaemon
  BY <1>1, <1>5 DEF FilterUpdate
<1> QED
  BY <1>2, <1>3, <1>4, <1>5 DEF Messages, FromDaemon

SameRows == UNCHANGED <<expanded, tree_rows, selected_index>>
SameCapture == UNCHANGED <<capture_pane_id, captured_output, lagging>>

\* A key leaves the rows, the cursor and the capture as they are, or the capture
\* follows them; what is no action leaves them.
LEMMA KeySteps ==
    ASSUME NEW k \in Keys, Key(k)
    PROVE  /\ (SameRows /\ SameCapture) \/ RefreshCapture
           /\ show_help \/ Output(input, k) = NoAction => SameRows
<1>1. running
  BY DEF Key
<1>2. ASSUME NEW act, Perform(act)
      PROVE  (SameRows /\ SameCapture) \/ RefreshCapture
  <2>1. UNCHANGED running \/ SameRows
    BY <1>2 DEF Perform, JumpToSession, folds, SameRows
  <2>2. CASE running'
    BY <1>2, <2>2 DEF Perform
  <2>3. CASE ~running'
    BY <1>1, <1>2, <2>1, <2>3 DEF Perform, SameCapture, capture
  <2> QED
    BY <2>2, <2>3
<1>3. CASE KeyToApp(k)
  <2> DEFINE act == Output(input, k)
  <2>1. ~show_help /\ CASE act = NoAction -> SameRows /\ SameCapture
                        [] act.do = "Quit" -> Quit
                        [] OTHER -> Perform(act)
    BY <1>3 DEF KeyToApp, folds, capture, SameRows, SameCapture
  <2>2. CASE act = NoAction
    <3>1. act.do # "Quit"
      BY <2>2 DEF NoAction, Do
    <3> QED
      BY <2>1, <2>2, <3>1
  <2>3. CASE act # NoAction /\ act.do = "Quit"
    BY <2>1, <2>3 DEF Quit, folds, capture, SameRows, SameCapture
  <2>4. CASE act # NoAction /\ act.do # "Quit"
    BY <1>2, <2>1, <2>4
  <2> QED
    BY <2>2, <2>3, <2>4
<1>4. CASE KeyToHelp(k)
  BY <1>4 DEF KeyToHelp, folds, capture, SameRows, SameCapture
<1> QED
  BY <1>3, <1>4 DEF Key

-----------------------------------------------------------------------------
(* Lemmas about the display *)

\* The cursor is on a row as long as there is one.
OnARow(rows, i) == i \in Nat /\ IF rows = <<>> THEN i = 0 ELSE i < Len(rows)

RowsInv ==
    /\ sessions \in Tables /\ filter_pane_ids \subseteq Panes /\ expanded \subseteq NodeIds
    /\ tree = BuildTree(Shown(sessions, filter_pane_ids))
    /\ tree_rows = FlattenTree(tree, expanded)
    /\ OnARow(tree_rows, selected_index)

\* What the filter lets through is a table too.
LEMMA ShownIsTable ==
    ASSUME NEW S \in Tables, NEW F
    PROVE  Shown(S, F) \in Tables
<1>1. \A T \in SUBSET S : T \in Tables
  BY FS_Subset DEF Tables
<1> QED
  BY <1>1 DEF Shown

\* In preorder, every node on a path is a node of the tree.
LEMMA PathsAreOfTree ==
    ASSUME NEW t \in Seq(TidyRow), Preorder(t, <<>>), NEW j \in 1..Len(t)
    PROVE  Seen(t[j], AllNodeIds(t))
<1>1. t[j].path \in Seq(NodeIds) /\ Len(<<>>) = 0
  BY RowsHavePaths
<1>2. ASSUME NEW m \in 1..Len(t[j].path)
      PROVE  t[j].path[m] \in AllNodeIds(t)
  <2>1. m - 1 \in 0..(Len(t[j].path) - 1) /\ (m - 1) + 1 = m
    BY <1>1
  <2>2. PICK a \in 1..(j - 1) : IsAbove(t, j, a, m - 1)
    BY <1>1, <2>1, Zenon DEF Preorder
  <2>3. t[a].id = t[j].path[m]
    BY <2>1, <2>2 DEF IsAbove
  <2>4. t[a] \in ToSet(t)
    BY DEF ToSet
  <2> QED
    BY <2>3, <2>4 DEF AllNodeIds
<1> QED
  BY <1>1, <1>2 DEF Seen, ToSet

\* What is known of rows of a tree in which the nodes e are unfolded.
RowsAre(r, t, e) ==
    /\ r \in Seq(TidyRow) /\ Preorder(r, <<>>) /\ ToSet(r) \subseteq ToSet(t)
    /\ \A row \in ToSet(r) : Seen(row, e)
    /\ \A row \in ToSet(t) : Seen(row, e) => \E i \in 1..Len(r) : r[i] = row
    /\ AllNodeIds(r) \subseteq AllNodeIds(t)

\* What is known of the tree and of what is seen of it.
LEMMA TreeIs ==
    ASSUME NEW S \in Tables
    PROVE  /\ BuildTree(S) \in Seq(TidyRow) /\ Preorder(BuildTree(S), <<>>)
           /\ AllNodeIds(BuildTree(S)) \subseteq NodeIds
           /\ \A e : RowsAre(FlattenTree(BuildTree(S), e), BuildTree(S), e)
<1> DEFINE t == BuildTree(S)
<1>1. t \in Seq(TidyRow) /\ Preorder(t, <<>>)
  BY TreeGrown, Zenon DEF Grown
<1> HIDE DEF t
<1>2. AllNodeIds(t) \subseteq NodeIds
  <2>1. \A row \in ToSet(t) : row \in TidyRow
    BY <1>1 DEF ToSet
  <2> QED
    BY <2>1, RowsHavePaths DEF AllNodeIds
<1>3. ASSUME NEW e
      PROVE  RowsAre(FlattenTree(t, e), t, e)
  <2> DEFINE r == FlattenTree(t, e)
  <2>1. /\ r \in Seq(TidyRow)
        /\ \A i \in 1..Len(r) : \E j \in 1..Len(t) : r[i] = t[j] /\ Seen(t[j], e)
        /\ \A j \in 1..Len(t) : Seen(t[j], e) => Some(r, {t[j]})
    BY <1>1, RowsOfTree
  <2>2. Preorder(r, <<>>)
    BY <1>1, PreorderSeen
  <2> HIDE DEF r
  <2>3. ToSet(r) = {r[i] : i \in 1..Len(r)} /\ ToSet(t) = {t[i] : i \in 1..Len(t)}
    BY <1>1, <2>1 DEF ToSet
  <2>4. ToSet(r) \subseteq ToSet(t)
    BY <2>1, <2>3
  <2>5. \A row \in ToSet(r) : Seen(row, e)
    BY <2>1, <2>3
  <2>6. \A row \in ToSet(t) : Seen(row, e) => \E i \in 1..Len(r) : r[i] = row
    <3>1. \A j \in 1..Len(t) : Seen(t[j], e) => \E i \in 1..Len(r) : r[i] = t[j]
      BY <2>1 DEF Some
    <3>2. \A row \in ToSet(t) : \E j \in 1..Len(t) : row = t[j]
      BY <2>3
    <3> QED
      BY <3>1, <3>2
  <2>7. AllNodeIds(r) \subseteq AllNodeIds(t)
    BY <2>4 DEF AllNodeIds
  <2>8. RowsAre(r, t, e)
    BY <2>1, <2>2, <2>4, <2>5, <2>6, <2>7, Zenon DEF RowsAre
  <2> QED
    BY <2>8 DEF r
<1> QED
  BY <1>1, <1>2, <1>3, Zenon DEF t

\* What is known of the rows on the display.
LEMMA RowsOnDisplay ==
    ASSUME RowsInv
    PROVE  /\ tree \in Seq(TidyRow) /\ Preorder(tree, <<>>) /\ AllNodeIds(tree) \subseteq NodeIds
           /\ \A e : RowsAre(FlattenTree(tree, e), tree, e)
           /\ RowsAre(tree_rows, tree, expanded)
<1>1. Shown(sessions, filter_pane_ids) \in Tables
  BY ShownIsTable DEF RowsInv
<1> QED
  BY <1>1, TreeIs, Zenon DEF RowsInv

\* Fewer rows never leave the cursor without one.
LEMMA Clamped ==
    ASSUME NEW X, NEW rows \in Seq(X), NEW i \in Nat
    PROVE  /\ OnARow(rows, Clamp(i, rows)) /\ OnARow(rows, LastRow(rows))
           /\ \A n \in Nat : OnARow(rows, i) => OnARow(rows, Minus(i, n))
           /\ i < Len(rows) => Clamp(i, rows) = i
<1>1. /\ Len(rows) \in Nat /\ (rows = <<>> => LastRow(rows) = 0)
      /\ rows # <<>> => Len(rows) > 0 /\ LastRow(rows) = Len(rows) - 1
  BY DEF LastRow
<1>2. Clamp(i, rows) = IF i < LastRow(rows) THEN i ELSE LastRow(rows)
  BY DEF Clamp, Least
<1>3. LastRow(rows) \in Nat
  BY <1>1
<1>4. OnARow(rows, Clamp(i, rows)) /\ OnARow(rows, LastRow(rows))
  BY <1>1, <1>2, <1>3 DEF OnARow
<1>5. ASSUME NEW n \in Nat
      PROVE  Minus(i, n) \in Nat /\ Minus(i, n) <= i
  BY DEF Minus, Least
<1>6. ASSUME NEW n \in Nat, OnARow(rows, i)
      PROVE  OnARow(rows, Minus(i, n))
  <2> DEFINE m == Minus(i, n)
  <2>1. m \in Nat /\ m <= i
    BY <1>5
  <2> HIDE DEF m
  <2>2. OnARow(rows, m)
    <3>1. CASE rows = <<>>
      BY <1>6, <2>1, <3>1 DEF OnARow
    <3>2. CASE rows # <<>>
      BY <1>1, <1>6, <2>1, <3>2 DEF OnARow
    <3> QED
      BY <3>1, <3>2
  <2> QED
    BY <2>2 DEF m
<1>7. i < Len(rows) => Clamp(i, rows) = i
  <2>1. i < Len(rows) => rows # <<>>
    OBVIOUS
  <2> QED
    BY <1>1, <1>2, <2>1
<1> QED
  BY <1>4, <1>6, <1>7

-----------------------------------------------------------------------------
(* Lemmas about what actions do to rows *)

\* rebuild_tree makes the rows agree with sessions, filter and folds again.
LEMMA Rebuilt ==
    ASSUME RowsInv, sessions' \in Tables, filter_pane_ids' \subseteq Panes,
           RebuildTree(sessions', filter_pane_ids')
    PROVE  RowsInv'
<1> DEFINE T == Shown(sessions', filter_pane_ids')
           t == BuildTree(T)
           f == IF expanded = {} THEN AllNodeIds(t) ELSE expanded
           r == FlattenTree(t, f)
<1>1. /\ tree' = t /\ expanded' = f /\ tree_rows' = r
      /\ selected_index' = Clamp(selected_index, r)
  BY Zenon DEF RebuildTree
<1>2. T \in Tables
  BY ShownIsTable
<1> HIDE DEF T
<1>3. t \in Seq(TidyRow) /\ AllNodeIds(t) \subseteq NodeIds /\ RowsAre(r, t, f)
  BY <1>2, TreeIs, Zenon
<1> HIDE DEF t
<1>4. f \subseteq NodeIds
  BY <1>3 DEF RowsInv
<1> HIDE DEF f
<1>5. r \in Seq(TidyRow) /\ selected_index \in Nat
  BY <1>3, Zenon DEF RowsAre, RowsInv, OnARow
<1>6. OnARow(r, Clamp(selected_index, r))
  BY <1>5, Clamped
<1>7. RowsInv'
  BY <1>1, <1>4, <1>6, Zenon DEF RowsInv, T, t, r
<1> QED
  BY <1>7

\* The rows under the nodes folded away, with the cursor on a row.
LEMMA FoldsShown ==
    ASSUME RowsInv, UNCHANGED display, NEW opened, opened \subseteq NodeIds,
           NEW id, ShowFolds(opened, id)
    PROVE  RowsInv'
<1> DEFINE r == FlattenTree(tree, opened)
<1>1. r \in Seq(TidyRow) /\ selected_index \in Nat
  BY RowsOnDisplay, Zenon DEF RowsAre, RowsInv, OnARow
<1>2. /\ expanded' = opened /\ tree_rows' = r
      /\ selected_index' = Clamp(At(r, id, selected_index), r)
  BY Zenon DEF ShowFolds
<1> HIDE DEF r
<1>3. At(r, id, selected_index) \in Nat
  BY <1>1, AtIs
<1>4. OnARow(r, selected_index')
  BY <1>1, <1>2, <1>3, Clamped
<1>5. /\ sessions' = sessions /\ filter_pane_ids' = filter_pane_ids /\ tree' = tree
  BY DEF display
<1> QED
  BY <1>2, <1>4, <1>5, Zenon DEF RowsInv, r

\* More nodes unfolded.
LEMMA FoldsOpened ==
    ASSUME RowsInv, UNCHANGED display, NEW nodes, nodes \subseteq NodeIds, Opened(nodes),
           \A j \in 1..Len(tree) : Seen(tree[j], expanded) => Seen(tree[j], nodes)
    PROVE  RowsInv'
<1> DEFINE r == FlattenTree(tree, nodes)
<1>1. tree_rows \in Seq(TidyRow) /\ r \in Seq(TidyRow) /\ tree \in Seq(TidyRow)
  BY RowsOnDisplay, Zenon DEF RowsAre
<1>2. expanded' = nodes /\ tree_rows' = r /\ selected_index' = selected_index
  BY Zenon DEF Opened
<1>3. tree_rows = FlattenTree(tree, expanded)
  BY DEF RowsInv
<1>4. Len(tree_rows) <= Len(r)
  BY <1>1, <1>3, UnfoldedHasMore
<1> HIDE DEF r
<1>5. OnARow(r, selected_index)
  <2>1. OnARow(tree_rows, selected_index)
    BY DEF RowsInv
  <2>2. CASE tree_rows = <<>>
    BY <1>1, <2>1, <2>2 DEF OnARow
  <2>3. CASE tree_rows # <<>>
    <3>1. selected_index \in Nat /\ selected_index < Len(tree_rows)
      BY <2>1, <2>3 DEF OnARow
    <3>2. selected_index < Len(r) /\ r # <<>>
      BY <1>1, <1>4, <3>1
    <3> QED
      BY <3>1, <3>2 DEF OnARow
  <2> QED
    BY <2>2, <2>3
<1>6. /\ sessions' = sessions /\ filter_pane_ids' = filter_pane_ids /\ tree' = tree
  BY DEF display
<1> QED
  BY <1>2, <1>5, <1>6, Zenon DEF RowsInv, r

\* A cursor put on a row of the same rows.
LEMMA RowsKept ==
    ASSUME RowsInv, UNCHANGED display, UNCHANGED <<expanded, tree_rows>>,
           OnARow(tree_rows, selected_index')
    PROVE  RowsInv'
<1>1. /\ sessions' = sessions /\ filter_pane_ids' = filter_pane_ids /\ tree' = tree
      /\ expanded' = expanded /\ tree_rows' = tree_rows
  BY DEF display
<1> QED
  BY <1>1, Zenon DEF RowsInv

\* Moves keep the cursor on the rows, which they leave alone.
LEMMA MoveStep ==
    ASSUME RowsInv, UNCHANGED display, NEW act, act.do \in Moves, act.n \in Nat, Move(act)
    PROVE  RowsInv' /\ UNCHANGED <<expanded, tree_rows>>
<1>1. /\ tree_rows \in Seq(TidyRow) /\ selected_index \in Nat
      /\ OnARow(tree_rows, selected_index)
  BY RowsOnDisplay, Zenon DEF RowsAre, RowsInv, OnARow
<1>2. HalfPage \in Nat /\ act.n * HalfPage \in Nat
  BY TuiAssumption
<1>3. selected_index + act.n \in Nat /\ selected_index + act.n * HalfPage \in Nat
  BY <1>1, <1>2
<1> DEFINE Is == {Clamp(selected_index + act.n, tree_rows),
                  Clamp(selected_index + act.n * HalfPage, tree_rows),
                  Minus(selected_index, act.n), Minus(selected_index, act.n * HalfPage),
                  Clamp(act.n, tree_rows), LastRow(tree_rows)}
<1>4. \E i \in Is : Moved(i)
  <2> DEFINE i1 == Clamp(selected_index + act.n, tree_rows)
             i2 == Clamp(selected_index + act.n * HalfPage, tree_rows)
             i3 == Minus(selected_index, act.n)
             i4 == Minus(selected_index, act.n * HalfPage)
             i5 == Clamp(act.n, tree_rows)
             i6 == LastRow(tree_rows)
  <2>1. (CASE act.do = "MoveDown" -> Moved(i1)
          [] act.do = "HalfPageDown" -> Moved(i2)
          [] act.do = "MoveUp" -> Moved(i3)
          [] act.do = "HalfPageUp" -> Moved(i4)
          [] act.do = "GoToRow" -> Moved(i5)
          [] act.do = "GoToLast" -> Moved(i6))
    BY DEF Move
  <2> HIDE DEF i1, i2, i3, i4, i5, i6
  <2>2. Moved(i1) \/ Moved(i2) \/ Moved(i3) \/ Moved(i4) \/ Moved(i5) \/ Moved(i6)
    BY <2>1 DEF Moves
  <2> QED
    BY <2>2, Zenon DEF i1, i2, i3, i4, i5, i6
<1>5. \A i \in Is : OnARow(tree_rows, i)
  BY <1>1, <1>2, <1>3, Clamped
<1> HIDE DEF Is
<1>6. OnARow(tree_rows, selected_index') /\ UNCHANGED <<expanded, tree_rows>>
  BY <1>4, <1>5 DEF Moved
<1> QED
  BY <1>6, RowsKept

\* What a fold command acts on.
LEMMA FoldStep ==
    ASSUME RowsInv, UNCHANGED display, NEW act, act.do \in FoldActions, Fold(act)
    PROVE  RowsInv'
<1>1. /\ tree_rows \in Seq(TidyRow) /\ tree \in Seq(TidyRow) /\ Preorder(tree, <<>>)
      /\ AllNodeIds(tree) \subseteq NodeIds /\ AllNodeIds(tree_rows) \subseteq NodeIds
      /\ expanded \subseteq NodeIds /\ OnARow(tree_rows, selected_index)
  BY RowsOnDisplay DEF RowsAre, RowsInv
<1>2. CASE act.do = "ExpandAllFolds"
  <2>1. Opened(AllNodeIds(tree))
    BY <1>2 DEF Fold
  <2>2. \A j \in 1..Len(tree) : Seen(tree[j], AllNodeIds(tree))
    BY <1>1, PathsAreOfTree
  <2> QED
    BY <1>1, <2>1, <2>2, FoldsOpened
<1>3. CASE act.do # "ExpandAllFolds" /\ tree_rows = <<>>
  <2>1. /\ expanded' = IF act.do = "CollapseAllFolds" THEN {} ELSE expanded
        /\ tree_rows' = tree_rows /\ selected_index' = selected_index
    BY <1>3 DEF Fold
  <2>2. FlattenTree(tree, {}) = <<>>
    <3>1. \A j \in 1..Len(tree) : Seen(tree[j], {}) => Seen(tree[j], expanded)
      BY DEF Seen
    <3>2. Len(FlattenTree(tree, {})) <= Len(FlattenTree(tree, expanded))
      BY <1>1, <3>1, UnfoldedHasMore
    <3>3. FlattenTree(tree, {}) \in Seq(TidyRow) /\ FlattenTree(tree, expanded) = <<>>
      BY <1>3, RowsOnDisplay DEF RowsAre, RowsInv
    <3> HIDE DEF RowsInv
    <3> QED
      BY <3>2, <3>3
  <2>3. tree_rows' = FlattenTree(tree, expanded') /\ expanded' \subseteq NodeIds
    BY <1>1, <1>3, <2>1, <2>2 DEF RowsInv
  <2>4. /\ sessions' = sessions /\ filter_pane_ids' = filter_pane_ids /\ tree' = tree
    BY DEF display
  <2> QED
    BY <2>1, <2>3, <2>4, Zenon DEF RowsInv
<1>4. CASE act.do # "ExpandAllFolds" /\ tree_rows # <<>>
  <2>1. PICK row \in ToSet(tree_rows) :
          /\ OnRow(row)
          /\ CASE act.do = "ExpandNode" -> OpenFold(row)
               [] act.do = "CloseFold" -> CloseFold(row)
               [] act.do = "ToggleFold" -> ToggleFold(row)
               [] act.do = "CollapseAllFolds" -> CollapseAll(row)
    BY <1>4, Zenon DEF Fold
  <2>2. row.id \in NodeIds
    BY <1>1 DEF AllNodeIds
  <2>3. \A depth : Above(selected_index, depth) \subseteq NodeIds
    <3>1. selected_index \in Nat /\ selected_index <= Len(tree_rows)
      BY <1>1, <1>4 DEF OnARow
    <3>2. \A h \in 1..selected_index : tree_rows[h].id \in NodeIds
      BY <1>1, <3>1 DEF AllNodeIds, ToSet
    <3> QED
      BY <1>1, <3>1, <3>2, AboveIs
  <2>4. OpenFold(row) \/ CloseFold(row) \/ ToggleFold(row) \/ CollapseAll(row)
    BY <1>4, <2>1 DEF FoldActions
  <2>5. CASE UNCHANGED folds
    <3>1. UNCHANGED <<expanded, tree_rows>> /\ selected_index' = selected_index
      BY <2>5 DEF folds
    <3> QED
      BY <1>1, <3>1, RowsKept
  <2>6. ASSUME NEW opened, opened \subseteq NodeIds, NEW id, ShowFolds(opened, id)
        PROVE  RowsInv'
    BY <2>6, FoldsShown
  <2>7. CASE OpenFold(row)
    <3>1. CASE Opened(expanded \union {row.id})
      <4>1. expanded \union {row.id} \subseteq NodeIds
        BY <1>1, <2>2
      <4>2. \A j \in 1..Len(tree) :
              Seen(tree[j], expanded) => Seen(tree[j], expanded \union {row.id})
        BY DEF Seen
      <4> QED
        BY <3>1, <4>1, <4>2, FoldsOpened
    <3> QED
      BY <2>5, <2>7, <3>1 DEF OpenFold
  <2>8. FoldOf(row) \subseteq NodeIds
    BY <2>2, <2>3 DEF FoldOf
  <2>9. CASE CloseFold(row)
    <3>1. UNCHANGED folds \/ \E id : ShowFolds(expanded \ {id}, id)
      BY <2>9 DEF CloseFold, SetFolds
    <3> QED
      BY <1>1, <2>5, <2>6, <3>1
  <2>10. CASE ToggleFold(row)
    <3>1. UNCHANGED folds \/ \E id \in FoldOf(row) :
             ShowFolds(IF id \in expanded THEN expanded \ {id} ELSE expanded \union {id}, id)
      BY <2>10 DEF ToggleFold, SetFolds
    <3> QED
      BY <1>1, <2>5, <2>6, <2>8, <3>1
  <2>11. CASE CollapseAll(row)
    <3>1. \E id : ShowFolds({}, id)
      BY <2>11, Zenon DEF CollapseAll
    <3> QED
      BY <2>6, <3>1
  <2> QED
    BY <2>4, <2>7, <2>9, <2>10, <2>11
<1> QED
  BY <1>2, <1>3, <1>4

-----------------------------------------------------------------------------
(* Every value of its type, the cursor on a row *)

\* What keys and captures leave in the other variables.
RestInv ==
    /\ Counting(input)
    /\ show_help \in BOOLEAN /\ running \in BOOLEAN /\ lagging \in BOOLEAN
    /\ {capture_pane_id, captured_output, capturing} \subseteq Panes \union {NoPane}
    /\ killed \subseteq Ids /\ armed \subseteq Ids

\* The agent under the cursor is one of the views.
LEMMA SelectedIs ==
    ASSUME NEW rows \in Seq(TidyRow), NEW i \in Nat
    PROVE  /\ Selected(rows, i) \subseteq Views
           /\ SelectedPane(rows, i) \in Panes \union {NoPane}
           /\ \A mode : Aim(mode, rows, i) \subseteq Ids
<1> DEFINE sel == Selected(rows, i)
<1>2. sel \subseteq Views
  <2>1. CASE i < Len(rows)
    <3>1. i + 1 \in 1..Len(rows)
      BY <2>1
    <3>2. rows[i + 1] \in TidyRow
      BY <3>1
    <3>3. sel = rows[i + 1].shows
      BY <2>1 DEF Selected
    <3> QED
      BY <3>2, <3>3, RowsHavePaths
  <2>2. CASE ~(i < Len(rows))
    BY <2>2 DEF Selected
  <2> QED
    BY <2>1, <2>2
<1> HIDE DEF sel
<1>3. SelectedPane(rows, i) \in Panes \union {NoPane}
  <2>1. SelectedPane(rows, i) =
           IF sel = {} THEN NoPane ELSE (CHOOSE v \in sel : TRUE).pane
    BY DEF SelectedPane, sel
  <2>2. sel # {} => (CHOOSE v \in sel : TRUE) \in sel
    OBVIOUS
  <2>3. sel # {} => (CHOOSE v \in sel : TRUE).pane \in Panes \union {NoPane}
    BY <1>2, <2>2 DEF Panes
  <2> QED
    BY <2>1, <2>3
<1>4. ASSUME NEW mode
      PROVE  Aim(mode, rows, i) \subseteq Ids
  BY <1>2 DEF Aim, Ids, sel
<1> QED
  BY <1>2, <1>3, <1>4 DEF sel

\* The same after a step.
LEMMA SelectedNext ==
    ASSUME RowsInv'
    PROVE  /\ SelectedPane(tree_rows', selected_index') \in Panes \union {NoPane}
           /\ \A mode : Aim(mode, tree_rows', selected_index') \subseteq Ids
<1>1. Shown(sessions', filter_pane_ids') \in Tables
  BY ShownIsTable DEF RowsInv
<1>2. /\ selected_index' \in Nat
      /\ tree_rows' = FlattenTree(BuildTree(Shown(sessions', filter_pane_ids')), expanded')
  BY DEF RowsInv, OnARow
<1>3. tree_rows' \in Seq(TidyRow)
  BY <1>1, <1>2, TreeIs, Zenon DEF RowsAre
<1> QED
  BY <1>2, <1>3, SelectedIs

\* The capture follows the cursor to a pane of a view.
LEMMA Refreshed ==
    ASSUME RowsInv', RefreshCapture, captured_output \in Panes \union {NoPane}
    PROVE  /\ {capture_pane_id', captured_output'} \subseteq Panes \union {NoPane}
           /\ lagging' \in BOOLEAN
BY SelectedNext DEF RefreshCapture

\* Messages keep the invariant,
LEMMA MessageTyped ==
    ASSUME RowsInv, RestInv, Messages
    PROVE  RowsInv' /\ RestInv'
<1>1. ASSUME NEW S, NEW F, S \in Tables, F \subseteq Panes, RebuildTree(S, F),
             sessions' = S, filter_pane_ids' = F
      PROVE  RowsInv'
  BY <1>1, Rebuilt
<1>2. sessions \in Tables /\ filter_pane_ids \subseteq Panes
  BY DEF RowsInv
<1>3. \A T \in SUBSET sessions : T \in Tables
  BY <1>2, FS_Subset DEF Tables
<1>4. ASSUME NEW v \in Views, SessionUpdate(v)
      PROVE  RowsInv'
  <2> DEFINE T == {s \in sessions : s.id # v.id}
  <2>1. T \union {v} \in Tables
    <3>1. IsFiniteSet(T \union {v}) /\ T \union {v} \subseteq Views
      BY <1>3, FS_AddElement DEF Tables
    <3>2. \A u, w \in T \union {v} : u.id = w.id => u = w
      BY <1>2 DEF Tables
    <3> QED
      BY <3>1, <3>2 DEF Tables
  <2> QED
    BY <1>1, <1>2, <1>4, <2>1 DEF SessionUpdate
<1>5. ASSUME NEW S \in Tables, SessionListReplace(S)
      PROVE  RowsInv'
  BY <1>1, <1>2, <1>5 DEF SessionListReplace
<1>6. ASSUME NEW id \in Ids, SessionRemoved(id)
      PROVE  RowsInv'
  <2>1. {s \in sessions : s.id # id} \in Tables
    BY <1>3
  <2> QED
    BY <1>1, <1>2, <1>6, <2>1 DEF SessionRemoved
<1>7. ASSUME NEW F \in PaneSets, FilterUpdate(F)
      PROVE  RowsInv'
  <2>1. F \subseteq Panes /\ filter_pane_ids' = F /\ sessions' = sessions /\ RebuildTree(sessions, F)
    BY <1>7, TuiAssumption DEF FilterUpdate
  <2> QED
    BY <1>1, <1>2, <2>1
<1>8. RowsInv'
  BY <1>4, <1>5, <1>6, <1>7 DEF Messages
<1>9. RestInv'
  <2>1. /\ killed' = {} /\ UNCHANGED <<show_help, input, running, capturing>>
        /\ armed' = Aim(input.mode, tree_rows', selected_index')
        /\ RefreshCapture \/ (lagging' = TRUE /\ UNCHANGED capture)
    BY MessageSteps
  <2>2. armed' \subseteq Ids
    BY <1>8, <2>1, SelectedNext
  <2>3. {capture_pane_id', captured_output'} \subseteq Panes \union {NoPane} /\ lagging' \in BOOLEAN
    <3>1. CASE RefreshCapture
      BY <1>8, <3>1, Refreshed DEF RestInv
    <3>2. CASE lagging' = TRUE /\ UNCHANGED capture
      BY <3>2 DEF RestInv, capture
    <3> QED
      BY <2>1, <3>1, <3>2
  <2> QED
    BY <2>1, <2>2, <2>3 DEF RestInv
<1> QED
  BY <1>8, <1>9

\* A key moves the cursor, folds nodes or leaves the rows alone.
LEMMA KeyFolds ==
    ASSUME Counting(input), NEW k \in Keys, Key(k)
    PROVE  /\ UNCHANGED display
           /\ \/ SameRows
              \/ \E act : act.do \in Moves /\ act.n \in Nat /\ Move(act)
              \/ \E act : act.do \in FoldActions /\ Fold(act)
<1> DEFINE Folding == \/ SameRows
                      \/ \E act : act.do \in Moves /\ act.n \in Nat /\ Move(act)
                      \/ \E act : act.do \in FoldActions /\ Fold(act)
<1>1. UNCHANGED display
  BY DEF Key, display
<1>2. ASSUME NEW act, act.n \in Nat, Perform(act)
      PROVE  Folding
  <2>1. CASE act.do \in Moves
    BY <1>2, <2>1 DEF Perform, Moves, FoldActions
  <2>2. CASE act.do \in FoldActions
    <3>1. Fold(act)
      BY <1>2, <2>2, Zenon DEF Perform, Moves, FoldActions
    <3> QED
      BY <2>2, <3>1
  <2>3. CASE act.do = "JumpToSession"
    <3>1. JumpToSession
      BY <1>2, <2>3 DEF Perform, Moves, FoldActions
    <3>2. Do("ToggleFold", 0).do \in FoldActions
      BY DEF Do, FoldActions
    <3>3. Fold(Do("ToggleFold", 0)) \/ UNCHANGED folds
      BY <3>1 DEF JumpToSession
    <3> QED
      BY <3>2, <3>3 DEF folds, SameRows
  <2>4. CASE act.do \notin Moves /\ act.do \notin FoldActions /\ act.do # "JumpToSession"
    BY <1>2, <2>4 DEF Perform, folds, SameRows
  <2> QED
    BY <2>1, <2>2, <2>3, <2>4
<1>5. SameRows => Folding
  BY Zenon
<1> HIDE DEF Folding
<1>3. ASSUME KeyToApp(k) PROVE Folding
  <2> DEFINE act == Output(input, k)
  <2>1. act.n \in Nat
    BY CountsAreTyped
  <2>2. CASE act = NoAction
    BY <1>5, <2>2, KeySteps
  <2>3. CASE act # NoAction /\ act.do = "Quit"
    <3>1. UNCHANGED folds
      BY <1>3, <2>3 DEF KeyToApp, Quit
    <3> QED
      BY <1>5, <3>1 DEF folds, SameRows
  <2>4. CASE act # NoAction /\ act.do # "Quit"
    <3>1. Perform(act)
      BY <1>3, <2>4 DEF KeyToApp
    <3> QED
      BY <1>2, <2>1, <3>1
  <2> QED
    BY <2>2, <2>3, <2>4
<1>4. ASSUME KeyToHelp(k) PROVE Folding
  <2>1. UNCHANGED folds
    BY <1>4 DEF KeyToHelp
  <2> QED
    BY <1>5, <2>1 DEF folds, SameRows
<1>6. Folding
  BY <1>3, <1>4 DEF Key
<1> QED
  BY <1>1, <1>6, Zenon DEF Folding

\* and so do keys.
LEMMA KeyTyped ==
    ASSUME RowsInv, RestInv, NEW k \in Keys, Key(k)
    PROVE  RowsInv' /\ RestInv'
<1>1. RowsInv'
  <2>1. UNCHANGED display
    BY KeyFolds DEF RestInv
  <2>2. CASE SameRows
    <3>1. OnARow(tree_rows, selected_index') /\ UNCHANGED <<expanded, tree_rows>>
      BY <2>2 DEF SameRows, RowsInv
    <3> QED
      BY <2>1, <3>1, RowsKept
  <2> QED
    BY <2>1, <2>2, KeyFolds, MoveStep, FoldStep DEF RestInv
<1>2. {capture_pane_id', captured_output'} \subseteq Panes \union {NoPane} /\ lagging' \in BOOLEAN
  <2>1. CASE SameCapture
    BY <2>1 DEF SameCapture, RestInv
  <2> QED
    BY <1>1, <2>1, KeySteps, Refreshed DEF RestInv
<1>3. capturing' = capturing
  BY DEF Key
<1>4. selected_index \in Nat /\ tree_rows \in Seq(TidyRow)
  BY RowsOnDisplay, Zenon DEF RowsAre, RowsInv, OnARow
<1>5. /\ Selected(tree_rows, selected_index) \subseteq Views
      /\ \A mode : Aim(mode, tree_rows, selected_index) \subseteq Ids
  BY <1>4, SelectedIs
<1>6. ASSUME NEW act, Perform(act)
      PROVE  killed' \subseteq Ids /\ show_help' \in BOOLEAN /\ running' \in BOOLEAN
  <2>1. killed' \subseteq Ids
    <3>1. killed' = {} \/ KillAgent
      BY <1>6 DEF Perform
    <3> QED
      BY <1>5, <3>1 DEF KillAgent, Ids
  <2>2. show_help' = ~show_help \/ show_help' = show_help
    BY <1>6 DEF Perform
  <2>3. UNCHANGED running \/ running' = FALSE
    BY <1>6 DEF Perform, JumpToSession
  <2> QED
    BY <2>1, <2>2, <2>3 DEF RestInv
<1>7. /\ Counting(input') /\ killed' \subseteq Ids /\ armed' \subseteq Ids
      /\ show_help' \in BOOLEAN /\ running' \in BOOLEAN
  <2>1. CASE KeyToApp(k)
    <3> DEFINE act == Output(input, k)
    <3>1. /\ input' = NextInput(input, k)
          /\ armed' = IF input.mode = "PendingD" THEN {}
                      ELSE Aim(input'.mode, tree_rows, selected_index)
      BY <2>1 DEF KeyToApp
    <3>2. Counting(input')
      BY <3>1, CountsAreTyped DEF RestInv
    <3>3. armed' \subseteq Ids
      BY <1>5, <3>1
    <3>4. CASE act = NoAction
      <4>1. act.do # "Quit"
        BY <3>4 DEF NoAction, Do
      <4>2. killed' = {} /\ show_help' = show_help /\ running' = running
        BY <2>1, <3>4, <4>1 DEF KeyToApp
      <4> QED
        BY <3>2, <3>3, <4>2 DEF RestInv
    <3>5. CASE act # NoAction /\ act.do = "Quit"
      <4>1. killed' = {} /\ show_help' = show_help /\ running' = FALSE
        BY <2>1, <3>5 DEF KeyToApp, Quit
      <4> QED
        BY <3>2, <3>3, <4>1 DEF RestInv
    <3>6. CASE act # NoAction /\ act.do # "Quit"
      <4>1. Perform(act)
        BY <2>1, <3>6 DEF KeyToApp
      <4> QED
        BY <1>6, <3>2, <3>3, <4>1
    <3> QED
      BY <3>4, <3>5, <3>6
  <2>2. CASE KeyToHelp(k)
    <3>1. Counting(Ready)
      BY CountAssumption DEF Counting, Ready, Mode, InputStates, Modes
    <3>2. /\ killed' = {} /\ armed' = {}
          /\ \/ show_help' = FALSE /\ input' = Ready /\ running' = running
             \/ running' = FALSE /\ show_help' = show_help /\ input' = input
      BY <2>2 DEF KeyToHelp
    <3> QED
      BY <3>1, <3>2 DEF RestInv
  <2> QED
    BY <2>1, <2>2 DEF Key
<1> QED
  BY <1>1, <1>2, <1>3, <1>7 DEF RestInv

\* No sessions have no tree and no rows.
LEMMA EmptyTree ==
    /\ {} \in Tables /\ BuildTree({}) = <<>>
    /\ \A e : FlattenTree(<<>>, e) = <<>>
<1>1. {} \in Tables
  BY FS_EmptySet DEF Tables
<1>2. BuildTree({}) = <<>>
  <2>1. {s.project : s \in TopLevel({})} = {}
    BY DEF TopLevel
  <2>2. Ascending({}) \in Seq({})
    BY FS_EmptySet, AscendingIs DEF Lists
  <2>3. Len(Ascending({})) = 0
    <3>1. ASSUME NEW s \in Seq({}), Len(s) # 0 PROVE FALSE
      <4>1. 1 \in 1..Len(s)
        BY <3>1
      <4> QED
        BY <4>1
    <3> QED
      BY <2>2, <3>1
  <2> DEFINE ss == [i \in 1..0 |-> ProjectRows({}, Ascending({})[i])]
  <2>4. BuildTree({}) = FlattenSeq(ss)
    <3>1. DOMAIN Ascending({}) = 1..0
      BY <2>2, <2>3
    <3> QED
      BY <2>1, <3>1 DEF BuildTree
  <2>5. ss = <<>>
    OBVIOUS
  <2> HIDE DEF ss
  <2>6. <<>> \in Seq(Seq({}))
    OBVIOUS
  <2>7. FlattenSeq(<<>>) \in Seq({})
    BY <2>6, FlattenLaysOut
  <2>8. \A s \in Seq({}) : s = <<>>
    <3>1. ASSUME NEW s \in Seq({}), s # <<>> PROVE FALSE
      <4>1. 1 \in 1..Len(s)
        BY <3>1
      <4> QED
        BY <4>1
    <3> QED
      BY <3>1
  <2> QED
    BY <2>4, <2>5, <2>7, <2>8
<1>3. ASSUME NEW e
      PROVE  FlattenTree(<<>>, e) = <<>>
  <2> DEFINE r == FlattenTree(<<>>, e)
  <2>1. <<>> \in Seq({})
    OBVIOUS
  <2>2. r \in Seq({})
    BY <2>1, TreeSifted
  <2> HIDE DEF r
  <2>3. r # <<>> => 1 \in 1..Len(r)
    BY <2>2
  <2>4. r = <<>>
    BY <2>2, <2>3
  <2> QED
    BY <2>4 DEF r
<1> QED
  BY <1>1, <1>2, <1>3

\* The invariant holds at first,
LEMMA TypedFromTheStart ==
    ASSUME Init
    PROVE  RowsInv /\ RestInv
<1>1. Shown({}, {}) = {}
  BY DEF Shown
<1>2. tree = BuildTree(Shown(sessions, filter_pane_ids)) /\ tree_rows = FlattenTree(tree, expanded)
  BY <1>1, EmptyTree DEF Init
<1>3. RowsInv
  BY <1>2, EmptyTree DEF Init, RowsInv, OnARow
<1>4. Counting(Ready)
  BY CountAssumption DEF Counting, Ready, Mode, InputStates, Modes
<1>5. RestInv
  BY <1>4 DEF Init, RestInv
<1> QED
  BY <1>3, <1>5

\* is kept by every step,
LEMMA TypedStep ==
    ASSUME RowsInv, RestInv, [Next]_vars
    PROVE  RowsInv' /\ RestInv'
<1>1. ASSUME NEW k \in Keys, Key(k)
      PROVE  RowsInv' /\ RestInv'
  BY <1>1, KeyTyped
<1>2. CASE CaptureTick \/ CaptureFailed \/ CaptureUpdate
  <2>1. UNCHANGED <<display, folds>>
    BY <1>2, Captures
  <2>2. RowsInv'
    BY <2>1 DEF RowsInv, display, folds
  <2>3. /\ killed' = {} /\ capturing' \in {NoPane, capture_pane_id} /\ running' = running
        /\ UNCHANGED <<capture_pane_id, show_help, input, armed, lagging>>
        /\ captured_output' \in {captured_output, capture_pane_id}
    BY <1>2, Captures DEF CaptureTick, CaptureFailed, CaptureUpdate
  <2> QED
    BY <2>2, <2>3 DEF RestInv
<1>3. CASE UNCHANGED vars
  BY <1>3 DEF RowsInv, RestInv, vars, display, folds, capture
<1> QED
  BY <1>1, <1>2, <1>3, MessageTyped DEF Next, Messages

\* and so always.
LEMMA TypedInvariant == Spec => [](RowsInv /\ RestInv)
<1>1. RowsInv /\ RestInv /\ [Next]_vars => (RowsInv /\ RestInv)'
  BY TypedStep
<1> QED
  BY <1>1, TypedFromTheStart, PTL DEF Spec

\* Whatever keys and messages come in whatever order, every variable keeps to
\* its values; above all no key sequence gives a row number below 0 and every
\* row displayed is a row of the tree.
THEOREM TuiTyped == Spec => []TypeOK
<1>1. RowsInv /\ RestInv => TypeOK
  <2> SUFFICES ASSUME RowsInv, RestInv PROVE TypeOK
    OBVIOUS
  <2>1. tree \in Seq(TidyRow) /\ RowsAre(tree_rows, tree, expanded)
    BY RowsOnDisplay
  <2>2. ToSet(tree_rows) \subseteq ToSet(tree)
    BY <2>1 DEF RowsAre
  <2>3. ASSUME NEW row \in ToSet(tree)
        PROVE  row.id \in NodeIds /\ ToSet(row.path) \subseteq NodeIds /\ row.shows \subseteq Views
    <3>1. row \in TidyRow
      BY <2>1 DEF ToSet
    <3>2. row.path \in Seq(NodeIds) /\ row.id \in NodeIds /\ row.shows \subseteq Views
      BY <3>1, RowsHavePaths
    <3>3. \A p \in Seq(NodeIds) : ToSet(p) \subseteq NodeIds
      BY DEF ToSet
    <3> QED
      BY <3>2, <3>3
  <2> QED
    BY <2>2, <2>3 DEF TypeOK, RowsInv, RestInv, OnARow, Counting
<1> QED
  BY <1>1, TypedInvariant, PTL

\* The rows displayed are always those of the sessions, the filter and the folds
\* as they are, and the cursor is on one of them as long as there is one: also
\* after open_fold and expand_all, which do not clamp it.
THEOREM CursorOnRow == Spec => []SelectionOnRow
<1>1. RowsInv => SelectionOnRow
  BY DEF RowsInv, SelectionOnRow, OnARow
<1> QED
  BY <1>1, TypedInvariant, PTL

-----------------------------------------------------------------------------
(* The place of each session *)

\* A session without a parent is shown once at the top of its own project, under
\* a worktree only if the project has several; a subagent is not, but under the
\* agent at the top that lists it: whatever is listed, as a child or not, and in
\* whatever order sessions start.
THEOREM SessionsArePlaced == Spec => []Placed
<1>1. RowsInv => Placed
  <2> SUFFICES ASSUME RowsInv PROVE Placed
    OBVIOUS
  <2> DEFINE S == Shown(sessions, filter_pane_ids)
             Top(v) == {i \in DOMAIN tree :
                           v \in tree[i].shows /\ \A id \in ToSet(tree[i].path) : id[1] # "agent"}
             Branches(p) == {v.worktree : v \in {w \in S : w.parent = NoParent /\ w.project = p}}
  <2>1. S \in Tables /\ tree = BuildTree(S)
    BY ShownIsTable DEF RowsInv
  <2> HIDE DEF S
  <2>2. Grown(tree, S, TopLevel(S), <<>>, Places(S))
    BY <2>1, TreeGrown
  <2>3. /\ tree \in Seq(TidyRow)
        /\ \A v \in S \ TopLevel(S) : None(tree, TopRows(v))
        /\ \A v \in TopLevel(S) : Only(tree, TopRows(v), TopRowsAt(v, Places(S)[v]))
        /\ \A w \in TopLevel(S), v \in S : v.id \in ToSet(w.children) => Some(tree, RowsUnder(v, w))
    BY <2>2, Zenon DEF Grown
  <2>4. TopLevel(S) = {s \in S : s.parent = NoParent}
    BY DEF TopLevel
  <2>5. DOMAIN tree = 1..Len(tree)
    BY <2>3
  <2>6. ASSUME NEW v, NEW i \in 1..Len(tree)
        PROVE  tree[i] \in TopRows(v) <=> i \in Top(v)
    <3>1. tree[i] \in Row /\ tree[i].path \in Seq(NodeIds)
      BY <2>3, RowsHavePaths
    <3>2. ToSet(tree[i].path) = {tree[i].path[m] : m \in 1..Len(tree[i].path)}
      BY <3>1 DEF ToSet
    <3> QED
      BY <2>5, <3>1, <3>2 DEF TopRows
  <2>7. ASSUME NEW v \in S, v.parent = NoParent
        PROVE  \E i \in Top(v) :
                  /\ Top(v) = {i}
                  /\ tree[i].path = IF \A w \in Branches(v.project) : w = v.worktree
                                    THEN <<ProjectId(v.project)>>
                                    ELSE <<ProjectId(v.project), WorktreeId(v.worktree)>>
    <3>1. v \in TopLevel(S)
      BY <2>4, <2>7
    <3>2. PICK i \in 1..Len(tree) :
             /\ tree[i] \in TopRowsAt(v, Places(S)[v])
             /\ \A j \in 1..Len(tree) : tree[j] \in TopRows(v) => j = i
      BY <2>3, <3>1, Zenon DEF Only
    <3>3. tree[i] \in TopRows(v) /\ tree[i].path = Places(S)[v]
      BY <3>2, Zenon DEF TopRowsAt
    <3>4. i \in Top(v) /\ \A j \in Top(v) : j = i
      BY <2>5, <2>6, <3>2, <3>3
    <3> HIDE DEF Top
    <3>5. Top(v) = {i}
      BY <3>4
    <3>6. (\A w \in Branches(v.project) : w = v.worktree)
             <=> \A w \in TopLevel(S) : w.project = v.project => w.worktree = v.worktree
      BY <2>4
    <3> HIDE DEF Branches
    <3>7. Places(S)[v] = IF \A w \in Branches(v.project) : w = v.worktree
                         THEN <<ProjectId(v.project)>>
                         ELSE <<ProjectId(v.project), WorktreeId(v.worktree)>>
      BY <2>7, <3>6, Zenon DEF Places
    <3> QED
      BY <3>3, <3>4, <3>5, <3>7, Zenon
  <2>8. ASSUME NEW v \in S, v.parent # NoParent
        PROVE  Top(v) = {}
    <3>1. None(tree, TopRows(v))
      BY <2>3, <2>4, <2>8
    <3>2. \A i \in 1..Len(tree) : i \notin Top(v)
      BY <2>6, <3>1 DEF None
    <3> QED
      BY <2>5, <3>2
  <2>9. ASSUME NEW v \in S, NEW w \in S, w.parent = NoParent, v.id \in ToSet(w.children)
        PROVE  \E row \in ToSet(tree) : v \in row.shows /\ Last(row.path) = AgentId(w.id)
    <3>1. Some(tree, RowsUnder(v, w))
      BY <2>3, <2>4, <2>9
    <3>2. PICK i \in 1..Len(tree) : tree[i] \in RowsUnder(v, w)
      BY <3>1, Zenon DEF Some
    <3>3. tree[i] \in ToSet(tree)
      BY <2>5 DEF ToSet
    <3>4. v \in tree[i].shows /\ Last(tree[i].path) = AgentId(w.id)
      BY <3>2 DEF RowsUnder
    <3> QED
      BY <3>3, <3>4
  <2> HIDE DEF Top
  <2> HIDE DEF Branches
  <2> QED
    BY <2>7, <2>8, <2>9, Zenon DEF Placed, S, Top, Branches
<1> QED
  BY <1>1, TypedInvariant, PTL

-----------------------------------------------------------------------------
(* The cursor when a fold closes *)

\* The cursor goes to the node that is asked for, where it is seen.
LEMMA CursorLands ==
    ASSUME RowsInv, NEW opened, NEW x \in ToSet(tree), Seen(x, opened), ShowFolds(opened, x.id)
    PROVE  tree_rows'[selected_index' + 1].id = x.id
<1> DEFINE r == FlattenTree(tree, opened)
           at == At(r, x.id, selected_index)
<1>1. r \in Seq(TidyRow) /\ selected_index \in Nat /\ \E i \in 1..Len(r) : r[i] = x
  <2>1. RowsAre(r, tree, opened) /\ selected_index \in Nat
    BY RowsOnDisplay, Zenon DEF RowsInv, OnARow
  <2> HIDE DEF r
  <2> QED
    BY <2>1, Zenon DEF RowsAre
<1>2. tree_rows' = r /\ selected_index' = Clamp(at, r)
  BY Zenon DEF ShowFolds
<1> HIDE DEF r
<1>3. at \in Nat /\ at < Len(r) /\ r[at + 1].id = x.id
  BY <1>1, AtIs
<1> HIDE DEF at
<1>4. Clamp(at, r) = at
  BY <1>1, <1>3, Clamped
<1> QED
  BY <1>2, <1>3, <1>4

\* The row above the cursor's at a depth less than its own, which Above finds.
LEMMA AncestorFound ==
    ASSUME RowsInv, NEW row, OnRow(row), NEW d \in 0..(Len(row.path) - 1)
    PROVE  \E a \in ToSet(tree_rows) :
              /\ Above(selected_index, d + 1) = {a.id} /\ a.id = row.path[d + 1]
              /\ Len(a.path) = d /\ \A m \in 1..d : a.path[m] = row.path[m]
<1> DEFINE i == selected_index + 1
<1>1. /\ tree_rows \in Seq(TidyRow) /\ Preorder(tree_rows, <<>>)
      /\ selected_index \in Nat
  BY RowsOnDisplay, Zenon DEF RowsAre, RowsInv, OnARow
<1>2. /\ i \in 1..Len(tree_rows) /\ row = tree_rows[i] /\ i - 1 = selected_index
      /\ selected_index <= Len(tree_rows)
  BY <1>1 DEF OnRow
<1> HIDE DEF i
<1>3. Len(<<>>) = 0 /\ d \in Nat
  OBVIOUS
<1>4. PICK h \in 1..(i - 1) : IsAbove(tree_rows, i, h, d)
  BY <1>1, <1>2, <1>3 DEF Preorder
<1>5. /\ Len(tree_rows[h].path) = d /\ tree_rows[h].id = row.path[d + 1]
      /\ \A m \in 1..d : tree_rows[h].path[m] = row.path[m]
      /\ \A k \in (h + 1)..(i - 1) : Len(tree_rows[k].path) > d
  BY <1>2, <1>4, Zenon DEF IsAbove
<1>6. ASSUME NEW k \in (h + 1)..selected_index
      PROVE  ~(Len(tree_rows[k].path) < d + 1)
  <2>1. k \in 1..Len(tree_rows) /\ k \in (h + 1)..(i - 1)
    BY <1>1, <1>2
  <2>2. tree_rows[k] \in TidyRow
    BY <1>1, <2>1
  <2>3. Len(tree_rows[k].path) \in Nat
    BY <2>2, RowsHavePaths
  <2> QED
    BY <1>3, <1>5, <2>1, <2>3
<1>7. Len(tree_rows[h].path) < d + 1 /\ h \in 1..selected_index
  BY <1>2, <1>3, <1>5
<1>8. Above(selected_index, d + 1) = {tree_rows[h].id}
  BY <1>1, <1>2, <1>6, <1>7, AboveIs
<1>9. tree_rows[h] \in ToSet(tree_rows)
  BY <1>1, <1>2 DEF ToSet
<1> QED
  BY <1>5, <1>8, <1>9, Zenon

\* A fold that closes the node x leaves x in sight.
LEMMA ClosedStaysSeen ==
    ASSUME NEW x, NEW e, Seen(x, e), x.path \in Seq(NodeIds), NEW id,
           \A m \in 1..Len(x.path) : x.path[m] # id
    PROVE  Seen(x, e \ {id})
BY DEF Seen, ToSet

\* Where the cursor is after the folds change: on the node it was on or above it.
Follows(row) == tree_rows'[selected_index' + 1].id \in ToSet(row.path) \union {row.id}

\* A fold command that closes nodes keeps the cursor on its node or above it.
LEMMA CursorFollows ==
    ASSUME RowsInv, NEW act, act.do \in FoldActions, Fold(act), UNCHANGED display,
           expanded' # expanded, expanded' \subseteq expanded, tree_rows # <<>>
    PROVE  Follows(tree_rows[selected_index + 1])
<1>1. /\ tree_rows \in Seq(TidyRow) /\ tree \in Seq(TidyRow) /\ Preorder(tree, <<>>)
      /\ ToSet(tree_rows) \subseteq ToSet(tree)
      /\ \A row \in ToSet(tree_rows) : Seen(row, expanded)
      /\ tree_rows = FlattenTree(tree, expanded)
      /\ selected_index \in Nat /\ selected_index < Len(tree_rows)
  BY RowsOnDisplay DEF RowsAre, RowsInv, OnARow
<1>2. ASSUME Opened(AllNodeIds(tree))
      PROVE  Follows(tree_rows[selected_index + 1])
  <2>1. /\ expanded' = AllNodeIds(tree) /\ tree_rows' = FlattenTree(tree, AllNodeIds(tree))
        /\ selected_index' = selected_index
    BY <1>2, Zenon DEF Opened
  <2>2. \A j \in 1..Len(tree) : Seen(tree[j], AllNodeIds(tree)) /\ Seen(tree[j], expanded)
    <3>1. \A j \in 1..Len(tree) : Seen(tree[j], AllNodeIds(tree))
      BY <1>1, PathsAreOfTree
    <3> QED
      BY <2>1, <3>1 DEF Seen
  <2>3. FlattenTree(tree, AllNodeIds(tree)) = FlattenTree(tree, expanded)
    <3> DEFINE All == [j \in DOMAIN tree |-> <<tree[j]>>]
    <3>1. DOMAIN tree = 1..Len(tree)
      BY <1>1
    <3>2. FlattenTree(tree, AllNodeIds(tree)) = FlattenSeq(All)
      BY <2>2, <3>1 DEF FlattenTree, Seen
    <3>3. FlattenTree(tree, expanded) = FlattenSeq(All)
      BY <2>2, <3>1 DEF FlattenTree, Seen
    <3> QED
      BY <3>2, <3>3
  <2>4. tree_rows' = tree_rows
    BY <1>1, <2>1, <2>3
  <2> QED
    BY <2>1, <2>4 DEF Follows
<1>3. CASE act.do = "ExpandAllFolds"
  BY <1>2, <1>3 DEF Fold
<1>4. CASE act.do # "ExpandAllFolds"
  <2>1. PICK row \in ToSet(tree_rows) :
          /\ OnRow(row)
          /\ CASE act.do = "ExpandNode" -> OpenFold(row)
               [] act.do = "CloseFold" -> CloseFold(row)
               [] act.do = "ToggleFold" -> ToggleFold(row)
               [] act.do = "CollapseAllFolds" -> CollapseAll(row)
    BY <1>4, Zenon DEF Fold
  <2>2. OpenFold(row) \/ CloseFold(row) \/ ToggleFold(row) \/ CollapseAll(row)
    BY <1>4, <2>1 DEF FoldActions
  <2>3. /\ row = tree_rows[selected_index + 1] /\ row \in TidyRow /\ row \in ToSet(tree)
        /\ Seen(row, expanded)
    <3>1. row = tree_rows[selected_index + 1]
      BY <2>1 DEF OnRow
    <3>2. \A x \in ToSet(tree_rows) : x \in TidyRow
      BY <1>1 DEF ToSet
    <3> QED
      BY <1>1, <2>1, <3>1, <3>2
  <2>4. /\ row.path \in Seq(NodeIds) /\ Len(row.path) \in Nat
        /\ \A m, n \in 1..Len(row.path) : row.path[m] = row.path[n] => m = n
        /\ row.has_children => \A m \in 1..Len(row.path) : row.path[m] # row.id
        /\ \A d \in 0..(Len(row.path) - 1) : row.path[d + 1] \in ToSet(row.path)
    <3>1. row.path \in Seq(NodeIds) /\ Len(row.path) \in Nat
      BY <2>3, RowsHavePaths
    <3>2. \A d \in 0..(Len(row.path) - 1) : d + 1 \in DOMAIN row.path
      BY <3>1
    <3>3. Tidy(row)
      BY <2>3 DEF TidyRow
    <3> QED
      BY <3>1, <3>2, <3>3, Zenon DEF Tidy, ToSet
  <2>6. expanded' # expanded /\ folds' # folds
    BY DEF folds
  <2>7. ASSUME NEW id \in FoldOf(row), ShowFolds(expanded \ {id}, id)
        PROVE  Follows(row)
    <3>1. CASE row.has_children
      <4>1. id = row.id
        BY <2>7, <3>1 DEF FoldOf
      <4>2. Seen(row, expanded \ {id})
        BY <2>3, <2>4, <3>1, <4>1, ClosedStaysSeen
      <4> QED
        BY <2>3, <2>7, <4>1, <4>2, CursorLands DEF Follows
    <3>2. CASE ~row.has_children
      <4>1. id \in Above(selected_index, Len(row.path))
        BY <2>7, <3>2, Zenon DEF FoldOf, Depth
      <4>2. Len(row.path) # 0
        <5>1. PICK h \in 1..selected_index : Len(tree_rows[h].path) < Len(row.path)
          BY <1>1, <4>1, AboveIs
        <5>2. tree_rows[h] \in TidyRow
          BY <1>1
        <5>3. Len(tree_rows[h].path) \in Nat
          BY <5>2, RowsHavePaths
        <5> QED
          BY <2>4, <5>1, <5>3
      <4> DEFINE d == Len(row.path) - 1
      <4>3. d \in 0..(Len(row.path) - 1) /\ d + 1 = Len(row.path) /\ d \in Nat
        BY <2>4, <4>2
      <4> HIDE DEF d
      <4>4. PICK a \in ToSet(tree_rows) :
              /\ Above(selected_index, d + 1) = {a.id} /\ a.id = row.path[d + 1]
              /\ Len(a.path) = d /\ \A m \in 1..d : a.path[m] = row.path[m]
        BY <2>1, <4>3, AncestorFound
      <4>5. id = a.id /\ id \in ToSet(row.path)
        BY <2>4, <4>1, <4>3, <4>4
      <4>6. a \in ToSet(tree) /\ Seen(a, expanded) /\ a.path \in Seq(NodeIds)
        <5>1. a \in TidyRow
          BY <1>1 DEF ToSet
        <5> QED
          BY <1>1, <5>1, RowsHavePaths
      <4>7. \A m \in 1..Len(a.path) : a.path[m] # id
        <5>1. ASSUME NEW m \in 1..d
              PROVE  row.path[m] # row.path[d + 1]
          <6>1. m \in 1..Len(row.path) /\ d + 1 \in 1..Len(row.path) /\ m # d + 1
            BY <4>3
          <6> QED
            BY <2>4, <6>1
        <5> QED
          BY <4>4, <4>5, <5>1
      <4>8. Seen(a, expanded \ {id})
        BY <4>6, <4>7, ClosedStaysSeen
      <4>9. tree_rows'[selected_index' + 1].id = id
        BY <2>7, <4>5, <4>6, <4>8, CursorLands
      <4> QED
        BY <4>5, <4>9 DEF Follows
    <3> QED
      BY <3>1, <3>2
  <2>8. CASE OpenFold(row)
    <3>1. Opened(expanded \union {row.id})
      BY <2>6, <2>8 DEF OpenFold
    <3> QED
      BY <3>1 DEF Opened
  <2>9. CASE CloseFold(row)
    <3>1. \E id \in FoldOf(row) : ShowFolds(expanded \ {id}, id)
      <4>1. \E id \in IF row.has_children THEN {row.id} \intersect expanded ELSE FoldOf(row) :
               ShowFolds(expanded \ {id}, id)
        BY <2>6, <2>9 DEF CloseFold, SetFolds
      <4>2. row.has_children => FoldOf(row) = {row.id}
        BY DEF FoldOf
      <4> QED
        BY <4>1, <4>2
    <3> QED
      BY <2>3, <2>7, <3>1
  <2>10. CASE ToggleFold(row)
    <3>1. PICK id \in FoldOf(row) :
             ShowFolds(IF id \in expanded THEN expanded \ {id} ELSE expanded \union {id}, id)
      BY <2>6, <2>10 DEF ToggleFold, SetFolds
    <3>2. id \in expanded
      BY <3>1 DEF ShowFolds
    <3> QED
      BY <2>3, <2>7, <3>1, <3>2
  <2>11. CASE CollapseAll(row)
    <3>1. PICK id \in IF Len(row.path) = 0 THEN {row.id} ELSE Above(selected_index, 1) :
             ShowFolds({}, id)
      BY <2>11, Zenon DEF CollapseAll, Depth
    <3>2. \A x : x.path \in Seq(NodeIds) /\ Len(x.path) = 0 => Seen(x, {})
      BY DEF Seen, ToSet
    <3>3. CASE Len(row.path) = 0
      BY <2>3, <2>4, <3>1, <3>2, <3>3, CursorLands DEF Follows
    <3>4. CASE Len(row.path) # 0
      <4>1. 0 \in 0..(Len(row.path) - 1) /\ 0 + 1 = 1
        BY <2>4, <3>4
      <4>2. PICK a \in ToSet(tree_rows) :
              /\ Above(selected_index, 1) = {a.id} /\ a.id = row.path[1] /\ Len(a.path) = 0
        BY <2>1, <4>1, AncestorFound
      <4>3. id = a.id /\ id \in ToSet(row.path)
        BY <2>4, <3>1, <3>4, <4>1, <4>2
      <4>4. a \in ToSet(tree) /\ Seen(a, {})
        <5>1. a \in TidyRow
          BY <1>1 DEF ToSet
        <5> QED
          BY <1>1, <3>2, <4>2, <5>1, RowsHavePaths
      <4>5. tree_rows'[selected_index' + 1].id = id
        BY <3>1, <4>3, <4>4, CursorLands
      <4> QED
        BY <2>3, <4>3, <4>5 DEF Follows
    <3> QED
      BY <3>3, <3>4
  <2> QED
    BY <2>2, <2>8, <2>9, <2>10, <2>11
<1> QED
  BY <1>3, <1>4

\* A command that closes folds leaves the cursor on the node it was on or on one
\* above it: on the fold around a leaf for zc and za there, on the top for zM.
THEOREM CursorStaysWithFold == Spec => CursorFollowsFold
<1> DEFINE A == UNCHANGED display /\ expanded' # expanded /\ expanded' \subseteq expanded /\ tree_rows # <<>>
           B == LET was == tree_rows[selected_index + 1]
                IN  tree_rows'[selected_index' + 1].id \in ToSet(was.path) \union {was.id}
<1>1. ASSUME RowsInv, RestInv, Next, A
      PROVE  B
  <2>1. Follows(tree_rows[selected_index + 1]) => B
    BY DEF Follows
  <2>2. ASSUME NEW k \in Keys, Key(k)
        PROVE  B
    <3>1. PICK act : act.do \in FoldActions /\ Fold(act)
      <4>1. ~SameRows
        BY <1>1 DEF SameRows
      <4>2. ASSUME NEW act, act.do \in Moves, act.n \in Nat, Move(act)
            PROVE  FALSE
        BY <1>1, <4>2, MoveStep
      <4> QED
        BY <1>1, <2>2, <4>1, <4>2, KeyFolds DEF RestInv
    <3> QED
      BY <1>1, <2>1, <3>1, CursorFollows
  <2>3. CASE Messages
    <3>1. ASSUME NEW S, NEW F, RebuildTree(S, F)
          PROVE  FALSE
      BY <1>1, <3>1 DEF RebuildTree
    <3> QED
      BY <2>3, <3>1 DEF Messages, SessionUpdate, SessionListReplace, SessionRemoved, FilterUpdate
  <2>4. CASE CaptureTick \/ CaptureFailed \/ CaptureUpdate
    BY <1>1, <2>4, Captures DEF folds
  <2> QED
    BY <1>1, <2>2, <2>3, <2>4 DEF Next, Messages
<1>2. RowsInv /\ RestInv /\ [Next]_vars => [A => B]_vars
  BY <1>1
<1> QED
  BY <1>2, TypedInvariant, PTL DEF Spec, CursorFollowsFold

-----------------------------------------------------------------------------
(* The agent that dd kills *)

\* A pending d stays aimed at what is under the cursor.
LEMMA ArmedStep ==
    ASSUME ArmedInv, [Next]_vars
    PROVE  ArmedInv'
<1>1. ASSUME NEW k \in Keys, Key(k)
      PROVE  ArmedInv'
  <2>1. CASE KeyToApp(k)
    <3> DEFINE act == Output(input, k)
    <3>1. /\ ~show_help /\ input' = NextInput(input, k)
          /\ armed' = IF input.mode = "PendingD" THEN {}
                      ELSE Aim(input'.mode, tree_rows, selected_index)
      BY <2>1 DEF KeyToApp
    <3>2. show_help' => act.do = "ToggleHelp"
      <4>1. CASE act = NoAction
        <5>1. act.do # "Quit"
          BY <4>1 DEF NoAction, Do
        <5>2. show_help' = show_help
          BY <2>1, <4>1, <5>1 DEF KeyToApp, folds, capture
        <5> QED
          BY <3>1, <5>2
      <4>2. CASE act # NoAction /\ act.do = "Quit"
        BY <2>1, <3>1, <4>2 DEF KeyToApp, Quit
      <4>3. CASE act # NoAction /\ act.do # "Quit"
        <5>1. Perform(act)
          BY <2>1, <4>3 DEF KeyToApp
        <5> QED
          BY <3>1, <5>1 DEF Perform
      <4> QED
        BY <4>1, <4>2, <4>3
    <3>3. show_help' => input'.mode # "PendingD"
      BY <3>1, <3>2, HelpLeavesNothingPending
    <3>4. ASSUME input'.mode = "PendingD"
          PROVE  armed' = Aim("PendingD", tree_rows', selected_index')
      <4>1. input.mode # "PendingD" /\ act = NoAction
        BY <3>1, <3>4, PendingDOpens
      <4>2. tree_rows' = tree_rows /\ selected_index' = selected_index
        BY <1>1, <4>1, KeySteps DEF SameRows
      <4> QED
        BY <3>1, <3>4, <4>1, <4>2
    <3> QED
      BY <3>3, <3>4 DEF ArmedInv
  <2>2. CASE KeyToHelp(k)
    <3>1. show_help /\ (input' = Ready \/ input' = input)
      BY <2>2, Zenon DEF KeyToHelp
    <3>2. input'.mode # "PendingD"
      BY <3>1 DEF ArmedInv, Ready, Mode
    <3> QED
      BY <3>2 DEF ArmedInv
  <2> QED
    BY <1>1, <2>1, <2>2 DEF Key
<1>2. CASE Messages
  BY <1>2, MessageSteps DEF ArmedInv
<1>3. CASE CaptureTick \/ CaptureFailed \/ CaptureUpdate
  BY <1>3, Captures DEF ArmedInv, folds
<1>4. CASE UNCHANGED vars
  BY <1>4 DEF ArmedInv, vars, folds
<1> QED
  BY <1>1, <1>2, <1>3, <1>4 DEF Next, Messages

\* The second d of dd kills the agent the first one was pressed on or, when a
\* message has changed the display between them, the one it has put under the
\* cursor; whatever else follows a d kills nobody.
THEOREM KillsTheAgentAimedAt == Spec => KillsWhatWasArmed
<1>1. Init => ArmedInv
  BY DEF Init, ArmedInv, Ready, Mode
<1>2. ArmedInv /\ [Next]_vars => ArmedInv'
  BY ArmedStep
<1>3. ArmedInv /\ [Next]_vars => [input.mode = "PendingD" => killed' \subseteq armed]_vars
  <2> SUFFICES ASSUME ArmedInv, Next, input.mode = "PendingD"
               PROVE  killed' \subseteq armed
    OBVIOUS
  <2>1. ASSUME NEW k \in Keys, Key(k)
        PROVE  killed' \subseteq armed
    <3> DEFINE act == Output(input, k)
    <3>1. KeyToApp(k)
      BY <2>1 DEF Key, KeyToHelp, ArmedInv
    <3>2. act = IF k = "d" THEN Do("KillAgent", 0) ELSE NoAction
      BY PendingDEnds
    <3>3. CASE act = NoAction
      <4>1. act.do # "Quit"
        BY <3>3 DEF NoAction, Do
      <4>2. killed' = {}
        BY <3>1, <3>3, <4>1 DEF KeyToApp, folds, capture
      <4> QED
        BY <4>2
    <3>4. CASE act = Do("KillAgent", 0)
      <4>1. act # NoAction /\ act.do = "KillAgent"
        BY <3>4 DEF Do, NoAction
      <4>2. Perform(act)
        BY <3>1, <4>1 DEF KeyToApp
      <4>3. KillAgent
        BY <4>1, <4>2 DEF Perform
      <4> QED
        BY <4>3 DEF KillAgent, ArmedInv, Aim
    <3> QED
      BY <3>2, <3>3, <3>4
  <2>2. CASE Messages
    BY <2>2, MessageSteps
  <2>3. CASE CaptureTick \/ CaptureFailed \/ CaptureUpdate
    BY <2>3, Captures
  <2> QED
    BY <2>1, <2>2, <2>3 DEF Next, Messages
<1> QED
  BY <1>1, <1>2, <1>3, PTL DEF Spec, KillsWhatWasArmed

-----------------------------------------------------------------------------
(* The pane whose output is displayed *)

\* refresh_capture makes the wanted pane the selected one again.
LEMMA RefreshCaptures ==
    ASSUME CaptureInv, RefreshCapture
    PROVE  CaptureInv'
BY DEF CaptureInv, RefreshCapture

\* What is displayed as the terminal of the selected agent comes from its pane,
\* also when a capture that was begun for another one arrives late.
THEOREM OutputIsOfSelected == Spec => []OutputOfSelected
<1>1. Init => CaptureInv
  BY DEF Init, CaptureInv, SelectedPane, Selected
<1>2. CaptureInv /\ [Next]_vars => CaptureInv'
  <2> SUFFICES ASSUME CaptureInv, [Next]_vars
               PROVE  CaptureInv'
    OBVIOUS
  <2>1. ASSUME NEW k \in Keys, Key(k)
        PROVE  CaptureInv'
    <3>1. CASE SameRows /\ SameCapture
      BY <3>1 DEF CaptureInv, SameRows, SameCapture
    <3> QED
      BY <2>1, <3>1, KeySteps, RefreshCaptures
  <2>2. CASE Messages
    <3>1. CASE lagging' = TRUE /\ UNCHANGED capture
      BY <3>1 DEF CaptureInv, capture
    <3> QED
      BY <2>2, <3>1, MessageSteps, RefreshCaptures
  <2>3. CASE CaptureTick \/ CaptureFailed \/ CaptureUpdate
    BY <2>3, Captures DEF CaptureInv, folds
  <2>4. CASE UNCHANGED vars
    BY <2>4 DEF CaptureInv, vars, folds, capture
  <2> QED
    BY <2>1, <2>2, <2>3, <2>4 DEF Next, Messages
<1>3. CaptureInv => OutputOfSelected
  BY DEF CaptureInv, OutputOfSelected
<1> QED
  BY <1>1, <1>2, <1>3, PTL DEF Spec

-----------------------------------------------------------------------------
(* Help *)

\* Where the hints apply: at rest, or after a count n has been typed.
Typing(in, n) ==
    \/ in = Ready /\ n = 1
    \/ in = Mode("Count", n) /\ n \in 1 .. MaxCount

\* A key that needs no prefix does what help says.
LEMMA KeyHints ==
    ASSUME NEW in, NEW n, Typing(in, n)
    PROVE  /\ Output(in, "j") = Do("MoveDown", n) /\ Output(in, "k") = Do("MoveUp", n)
           /\ Output(in, "^d") = Do("HalfPageDown", n) /\ Output(in, "^u") = Do("HalfPageUp", n)
           /\ Output(in, "h") = Do("ExpandNode", 0) /\ Output(in, "Enter") = Do("JumpToSession", 0)
           /\ Output(in, "R") = Do("Refresh", 0) /\ Output(in, "?") = Do("ToggleHelp", 0)
           /\ Output(in, "Esc") = Do("Quit", 0) /\ Output(in, "^c") = Do("Quit", 0)
           /\ Output(in, "x") = Do("KillAgent", 0) /\ Output(in, "I") = Do("InterruptAgent", 0)
<1>1. in.mode \in {"Ready", "Count"} /\ (in.mode = "Ready" => n = 1)
      /\ (in.mode = "Count" => n = in.count)
  BY DEF Typing, Ready, Mode
<1>2. \A k : k \notin MotionKeys /\ k # "0" => Output(in, k) = Simple(k)
  BY <1>1 DEF Output, Ready, Mode
<1>3. \A k \in MotionKeys : Output(in, k) = Motion(k, n)
  BY <1>1 DEF Output, MotionKeys, Ready, Mode
<1>4. /\ Output(in, "j") = Motion("j", n) /\ Output(in, "k") = Motion("k", n)
      /\ Output(in, "^d") = Motion("^d", n) /\ Output(in, "^u") = Motion("^u", n)
  BY <1>3 DEF MotionKeys
<1>5. \A k \in {"h", "Enter", "R", "?", "Esc", "^c", "x", "I"} : Output(in, k) = Simple(k)
  BY <1>2 DEF MotionKeys
<1> QED
  BY <1>4, <1>5 DEF Motion, Simple

\* So does a key after the prefix that help names.
LEMMA ChordHints ==
    ASSUME NEW in, NEW n, Typing(in, n)
    PROVE  /\ Output(NextInput(in, "g"), "g") = Do("GoToRow", n - 1)
           /\ Output(NextInput(in, "d"), "d") = Do("KillAgent", 0)
           /\ \A way \in {"o", "h", "j", "k"} :
                 Output(NextInput(in, "o"), way) = Do("SpawnAgent", 0)
           /\ \A k : Output(NextInput(in, "z"), k) = FoldChord(k)
<1>1. in.mode \in {"Ready", "Count"}
      /\ \/ in.count = 0 /\ n = 1
         \/ in.count = n /\ n # 0
  BY CountAssumption DEF Typing, Ready, Mode
<1>2. NextInput(in, "g") = Mode("PendingG", in.count)
  BY <1>1 DEF NextInput, DigitKeys
<1>3. \A k \in {"d", "o", "z"} : NextInput(in, k) = Mode(PendingAfter(k), 0)
  BY <1>1 DEF NextInput, DigitKeys
<1>4. /\ NextInput(in, "d") = Mode("PendingD", 0) /\ NextInput(in, "o") = Mode("PendingO", 0)
      /\ NextInput(in, "z") = Mode("PendingZ", 0)
  BY <1>3 DEF PendingAfter
<1>5. Output(NextInput(in, "g"), "g") = Do("GoToRow", n - 1)
  BY <1>1, <1>2 DEF Output, Mode
<1>6. /\ Output(NextInput(in, "d"), "d") = Do("KillAgent", 0)
      /\ \A way \in {"o", "h", "j", "k"} :
            Output(NextInput(in, "o"), way) = Do("SpawnAgent", 0)
  BY <1>4 DEF Output, Mode
<1>7. ASSUME NEW k
      PROVE  Output(NextInput(in, "z"), k) = FoldChord(k)
  <2>1. NextInput(in, "z").mode = "PendingZ" /\ NextInput(in, "z") # Ready
    BY <1>4 DEF Mode, Ready
  <2> QED
    BY <2>1 DEF Output
<1> QED
  BY <1>5, <1>6, <1>7

\* "This is the single source of truth consumed by both the help popup and the
\* footer status bar": whatever help promises of keys, the automaton does, at
\* rest and after any count; the two hints that know no count it keeps at rest.
THEOREM HelpIsTrue ==
    /\ \A in, n : Typing(in, n) => \A hint \in Hints(n) : Typed(in, hint[1]) = hint[2]
    /\ \A hint \in BareHints : Typed(Ready, hint[1]) = hint[2]
<1>1. ASSUME NEW in, NEW n, Typing(in, n), NEW hint \in Hints(n)
      PROVE  Typed(in, hint[1]) = hint[2]
  <2>1. \A k : Typed(in, <<k>>) = Output(in, k)
    BY DEF Typed
  <2>2. \A p, k : Typed(in, <<p, k>>) = Output(NextInput(in, p), k)
    BY DEF Typed
  <2>3. /\ FoldChord("c") = Do("CloseFold", 0) /\ FoldChord("o") = Do("ExpandNode", 0)
        /\ FoldChord("a") = Do("ToggleFold", 0) /\ FoldChord("M") = Do("CollapseAllFolds", 0)
        /\ FoldChord("R") = Do("ExpandAllFolds", 0)
    BY DEF FoldChord
  <2>4. CASE \E way \in {"o", "h", "j", "k"} : hint = <<<<"o", way>>, Do("SpawnAgent", 0)>>
    BY <1>1, <2>2, <2>4, ChordHints
  <2>5. CASE hint \in {<<<<"j">>, Do("MoveDown", n)>>, <<<<"k">>, Do("MoveUp", n)>>,
                       <<<<"^d">>, Do("HalfPageDown", n)>>, <<<<"^u">>, Do("HalfPageUp", n)>>,
                       <<<<"h">>, Do("ExpandNode", 0)>>, <<<<"Enter">>, Do("JumpToSession", 0)>>,
                       <<<<"R">>, Do("Refresh", 0)>>, <<<<"?">>, Do("ToggleHelp", 0)>>,
                       <<<<"Esc">>, Do("Quit", 0)>>, <<<<"^c">>, Do("Quit", 0)>>,
                       <<<<"x">>, Do("KillAgent", 0)>>, <<<<"I">>, Do("InterruptAgent", 0)>>}
    BY <1>1, <2>1, <2>5, KeyHints
  <2>6. CASE hint \in {<<<<"g", "g">>, Do("GoToRow", n - 1)>>, <<<<"d", "d">>, Do("KillAgent", 0)>>,
                       <<<<"z", "c">>, Do("CloseFold", 0)>>, <<<<"z", "o">>, Do("ExpandNode", 0)>>,
                       <<<<"z", "a">>, Do("ToggleFold", 0)>>,
                       <<<<"z", "M">>, Do("CollapseAllFolds", 0)>>,
                       <<<<"z", "R">>, Do("ExpandAllFolds", 0)>>}
    BY <1>1, <2>2, <2>3, <2>6, ChordHints
  <2> QED
    BY <1>1, <2>4, <2>5, <2>6 DEF Hints
<1>2. Typed(Ready, <<"0">>) = Do("GoToRow", 0) /\ Typed(Ready, <<"G">>) = Do("GoToLast", 0)
  BY DEF Typed, Output, Ready, Mode, MotionKeys, Motion
<1> QED
  BY <1>1, <1>2 DEF BareHints

=============================================================================
