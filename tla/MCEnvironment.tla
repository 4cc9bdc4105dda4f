---------------------------- MODULE MCEnvironment ----------------------------
(* The instance of Environment and its symmetry. *)
EXTENDS Environment, TLC

\* An agent known by its bare name, and a process that is not taken for one.
TwoLooks == {[harness |-> "claude", shown |-> "name"], [harness |-> "pi", shown |-> "name"]}

\* Output, a numbered list, a cursor and a footer: what may mislead reply and peek.
SomeKinds ==
    {[kind |-> "cursor", number |-> 2], [kind |-> "option", number |-> 1]}
       \union [kind : {"text", "footer"}, number : {0}]

\* Layouts of configuration files: containers that are not the first child of
\* theirs, one with a single child and one with three.
SomeLayouts ==
    {<<>> :> "vertical" @@ <<1>> :> "shell" @@ <<2>> :> "horizontal" @@ <<3>> :> "vertical"
        @@ [p \in {2, 3} \X {1, 2, 3} |-> "agent"],
     <<>> :> "horizontal" @@ <<1>> :> "vertical" @@ <<2>> :> "vertical"
        @@ <<1, 1>> :> "editor" @@ <<2, 1>> :> "horizontal" @@ <<2, 2>> :> "panel"
        @@ <<2, 1, 1>> :> "agent" @@ <<2, 1, 2>> :> "agent"}

\* Windows and terminals are interchangeable.
Symmetry == Permutations(Windows) \union Permutations(Commands)

=============================================================================
