----------------------------- MODULE Keybinding -----------------------------
(***************************************************************************)
(* InputHandler of the terminal UI (crates/atm/src/keybinding.rs): the     *)
(* automaton that turns keys into actions, by the grammar                  *)
(* [count] motion | [count] g g | d d | o direction | z fold | action.     *)
(*                                                                         *)
(* Keys with the same effect (j and Down, k and Up, h and l, r and I,      *)
(* which change nothing here, q and Q, which are Esc but when help is      *)
(* displayed, and then any other key) are represented by one of them, the  *)
(* digits 3 to 9 by 1 and 2.  The letters without a meaning of their own   *)
(* are those that z knows: a, c, M.                                        *)
(***************************************************************************)
EXTENDS Naturals, Sequences

CONSTANT MaxCount      \* MAX_COUNT, beyond which a count does not grow

ASSUME CountAssumption == MaxCount \in Nat \ {0}

DigitKeys == {"0", "1", "2"}
Keys == DigitKeys \union
    {"j", "k", "G", "^d", "^u", "g", "d", "o", "z", "h", "x", "I",
     "?", "Enter", "Esc", "^c", "a", "c", "M", "R"}

DigitOf(k) == CASE k = "0" -> 0 [] k = "1" -> 1 [] k = "2" -> 2

\* A state of the automaton.  The count is 0 where the code has None or no count.
Mode(m, n) == [mode |-> m, count |-> n]
Ready == Mode("Ready", 0)
Modes == {"Ready", "Count", "PendingG", "PendingD", "PendingO", "PendingZ"}
InputStates == [mode : Modes, count : 0..MaxCount]

Do(a, n) == [do |-> a, n |-> n]
NoAction == Do("Nothing", 0)

(* A plausible slip: the count is not limited. *)
AccumulateUnlimited(n, k) == 10 * n + DigitOf(k)

\* accumulate_digit
Accumulate(n, k) ==
    LET m == 10 * n + DigitOf(k) IN IF m > MaxCount THEN MaxCount ELSE m

PendingAfter(k) ==
    CASE k = "d" -> "PendingD" [] k = "o" -> "PendingO" [] k = "z" -> "PendingZ"

(* A plausible slip: step does not go back to Ready. *)
NextInputSticky(in, k) ==
    CASE in.mode # "Ready" -> in
      [] k \in DigitKeys \ {"0"} -> Mode("Count", Accumulate(0, k))
      [] k = "g" -> Mode("PendingG", 0)
      [] k \in {"d", "o", "z"} -> Mode(PendingAfter(k), 0)
      [] OTHER -> Ready

\* step: the state after key k.  Whatever a pending prefix does not expect
\* ends it; only g keeps the count.
NextInput(in, k) ==
    CASE in.mode \in {"Ready", "Count"} /\ k \in DigitKeys /\ ~(in = Ready /\ k = "0") ->
            Mode("Count", Accumulate(in.count, k))
      [] in.mode \in {"Ready", "Count"} /\ k = "g" -> Mode("PendingG", in.count)
      [] in.mode \in {"Ready", "Count"} /\ k \in {"d", "o", "z"} ->
            Mode(PendingAfter(k), 0)
      [] OTHER -> Ready

\* A key that is an action of its own: resolve_char, resolve.
Simple(k) ==
    CASE k = "h" -> Do("ExpandNode", 0)
      [] k = "x" -> Do("KillAgent", 0)
      [] k = "I" -> Do("InterruptAgent", 0)
      [] k \in {"Esc", "^c"} -> Do("Quit", 0)
      [] k = "R" -> Do("Refresh", 0)
      [] k = "?" -> Do("ToggleHelp", 0)
      [] k = "Enter" -> Do("JumpToSession", 0)
      [] OTHER -> NoAction

\* motion_with_count; 1G is taken for a bare G.
MotionKeys == {"j", "k", "G", "^d", "^u"}
Motion(k, n) ==
    CASE k = "j" -> Do("MoveDown", n)
      [] k = "k" -> Do("MoveUp", n)
      [] k = "^d" -> Do("HalfPageDown", n)
      [] k = "^u" -> Do("HalfPageUp", n)
      [] k = "G" -> IF n = 1 THEN Do("GoToLast", 0) ELSE Do("GoToRow", n - 1)

\* step_pending_z looks at the character alone, so ^c is the c of zc.
FoldChord(k) ==
    CASE k = "M" -> Do("CollapseAllFolds", 0)
      [] k = "R" -> Do("ExpandAllFolds", 0)
      [] k = "c" \/ k = "^c" -> Do("CloseFold", 0)
      [] k = "o" -> Do("ExpandNode", 0)
      [] k = "a" -> Do("ToggleFold", 0)
      [] OTHER -> NoAction

\* step: the action that key k completes in state in.
Output(in, k) ==
    CASE in.mode = "PendingG" ->
            IF k # "g" THEN Simple(k)
            ELSE IF in.count = 0 THEN Do("GoToRow", 0) ELSE Do("GoToRow", in.count - 1)
      [] in.mode = "PendingD" -> IF k = "d" THEN Do("KillAgent", 0) ELSE NoAction
      [] in.mode = "PendingO" ->
            IF k \in {"h", "j", "k", "o"} THEN Do("SpawnAgent", 0) ELSE NoAction
      [] in.mode = "PendingZ" -> FoldChord(k)
      [] in = Ready /\ k = "0" -> Do("GoToRow", 0)
      [] in.mode \in {"Ready", "Count"} /\ k \in MotionKeys ->
            Motion(k, IF in.mode = "Ready" THEN 1 ELSE in.count)
      [] OTHER -> Simple(k)

-----------------------------------------------------------------------------
(* Help *)

\* The action that one or two keys complete, typed in state in.
Typed(in, keys) ==
    IF Len(keys) = 1 THEN Output(in, keys[1]) ELSE Output(NextInput(in, keys[1]), keys[2])

\* KEYBINDING_HINTS: what help and footer promise of keys typed after a count n,
\* which is 1 where none is typed; "0" and "G" are promised without one only.
\* The key of the rescan, r, is here R, which means the same after no prefix.
Hints(n) ==
    {<<<<"j">>, Do("MoveDown", n)>>, <<<<"k">>, Do("MoveUp", n)>>,
     <<<<"^d">>, Do("HalfPageDown", n)>>, <<<<"^u">>, Do("HalfPageUp", n)>>,
     <<<<"g", "g">>, Do("GoToRow", n - 1)>>, <<<<"h">>, Do("ExpandNode", 0)>>,
     <<<<"z", "c">>, Do("CloseFold", 0)>>, <<<<"z", "o">>, Do("ExpandNode", 0)>>,
     <<<<"z", "a">>, Do("ToggleFold", 0)>>, <<<<"z", "M">>, Do("CollapseAllFolds", 0)>>,
     <<<<"z", "R">>, Do("ExpandAllFolds", 0)>>, <<<<"Enter">>, Do("JumpToSession", 0)>>,
     <<<<"R">>, Do("Refresh", 0)>>, <<<<"?">>, Do("ToggleHelp", 0)>>,
     <<<<"Esc">>, Do("Quit", 0)>>, <<<<"^c">>, Do("Quit", 0)>>,
     <<<<"d", "d">>, Do("KillAgent", 0)>>, <<<<"x">>, Do("KillAgent", 0)>>,
     <<<<"I">>, Do("InterruptAgent", 0)>>}
    \union {<<<<"o", way>>, Do("SpawnAgent", 0)>> : way \in {"o", "h", "j", "k"}}
BareHints == {<<<<"0">>, Do("GoToRow", 0)>>, <<<<"G">>, Do("GoToLast", 0)>>}

=============================================================================
