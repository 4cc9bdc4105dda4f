---------------------------- MODULE PromptReply ----------------------------
(***************************************************************************)
(* `atm kill, interrupt, send, reply' and `atm peek' (src/bin/atm.rs): a   *)
(* command asks the daemon for its sessions, finds the pane of the one it  *)
(* names and acts on that by tmux commands, one key at a time.  reply and  *)
(* peek read the pane's screen first, to find where the cursor of the      *)
(* agent's prompt is and where the prompt begins.  Meanwhile the agent     *)
(* prints, asks and withdraws, and the user types into the same pane.      *)
(*                                                                         *)
(* A line of the screen is what the tests of extract_prompt and            *)
(* find_selected_option tell apart.  A target is the set of the session    *)
(* ids that it is a prefix of, or a pane.                                  *)
(***************************************************************************)
EXTENDS Naturals, Sequences, SequencesExt

CONSTANTS
    Ids,            \* sessions: one has the pane with the prompt
    AgentPane, OtherPane, NoPane,
    NoPrompt, NoAnswer,
    OptionCounts,   \* bound: numbers of options of a prompt; 0 for yes or no
    LinesAbove,     \* bound: lines above the prompt
    LineKinds,      \* bound: what they may be
    FallbackLines,  \* what peek shows of a screen without a prompt
    MaxMoves        \* bound: the user's arrow keys that are counted during a reply

VARIABLES
    above,     \* the lines on the agent's screen above its prompt
    prompt,    \* what the agent asks
    answer,    \* what it took from the command: an option, 0 when dismissed
    open,      \* the agent's pane exists
    request    \* the command and how far it is

vars == <<above, prompt, answer, open, request>>

-----------------------------------------------------------------------------
(* The screen *)

Line(kind) == [kind |-> kind, number |-> 0]
Option(n) == [kind |-> "option", number |-> n]
Cursor(n) == [kind |-> "cursor", number |-> n]

MostOptions == CHOOSE n \in OptionCounts : \A m \in OptionCounts : m <= n

Prompts ==
    {p \in [titled : BOOLEAN, options : OptionCounts, cursor : 1..MostOptions] :
        IF p.options = 0 THEN ~p.titled /\ p.cursor = 1 ELSE p.cursor <= p.options}

\* A yes-or-no question is one line, which counts as its own footer.
PromptLines(p) ==
    IF p = NoPrompt THEN <<>>
    ELSE IF p.options = 0 THEN <<Line("footer")>>
    ELSE (IF p.titled THEN <<Line("title")>> ELSE <<>>)
         \o <<Line("question"), Line("blank")>>
         \o [i \in 1..(2 * p.options) |->
               IF i % 2 = 0 THEN Line("indented")
               ELSE IF i = 2 * p.cursor - 1 THEN Cursor(p.cursor) ELSE Option((i + 1) \div 2)]
         \o <<Line("blank"), Line("footer")>>

\* capture_pane, without trailing blank lines.
Captured ==
    LET screen == above \o PromptLines(prompt)
        inked == {i \in DOMAIN screen : screen[i].kind # "blank"}
    IN  SubSeq(screen, 1, Max(inked \union {0}))

\* find_selected_option: the first cursor on the screen, or else 1.
find_selected_option(lines) ==
    LET cursors == {i \in DOMAIN lines : lines[i].kind = "cursor"}
    IN  IF cursors = {} THEN 1 ELSE lines[Min(cursors)].number

\* Options are recognised by "1." to "9.", and the cursor on the first five only.
PartOfPrompt(line) ==
    \/ line.kind \in {"indented", "separator", "blank", "question"}
    \/ line.kind = "option" /\ line.number <= 9
    \/ line.kind = "cursor" /\ line.number <= 5

\* extract_prompt: from the last footer up to a title, or to the first line that
\* is no part of a prompt above one that is.
extract_prompt(lines) ==
    LET footers == {i \in DOMAIN lines : lines[i].kind = "footer"}
        end == IF footers = {} THEN Len(lines) ELSE Max(footers)
        inner == 1..(end - 1)
        stops == {i \in inner :
                    \/ lines[i].kind = "title"
                    \/ ~PartOfPrompt(lines[i]) /\ \E j \in (i + 1)..(end - 1) : PartOfPrompt(lines[j])}
        top == Max(stops \union {0})
        parts == {i \in inner : i >= top /\ (PartOfPrompt(lines[i]) \/ lines[i].kind = "title")}
        start == Min(parts \union {end})
        inked == {i \in start..end : i > 0 /\ lines[i].kind \notin {"blank", "separator"}}
    IN  IF lines = <<>> THEN <<>>
        ELSE IF footers = {} /\ start = end
        THEN SubSeq(lines, Max({Len(lines) - FallbackLines + 1, 1}), Len(lines))
        ELSE SubSeq(lines, Min(inked \union {end + 1}), end)

-----------------------------------------------------------------------------
(* The agent and the user *)

\* Each key as the agent's prompt takes it; text may hold the number of an option.
After(p, key) ==
    IF p = NoPrompt THEN {[prompt |-> NoPrompt, answer |-> answer]} ELSE
    CASE key = "Enter" -> {[prompt |-> NoPrompt, answer |-> p.cursor]}
      [] key \in {"Escape", "C-c"} -> {[prompt |-> NoPrompt, answer |-> 0]}
      [] key = "Down" /\ p.cursor < p.options ->
            {[prompt |-> [p EXCEPT !.cursor = @ + 1], answer |-> answer]}
      [] key = "Up" /\ p.cursor > 1 ->
            {[prompt |-> [p EXCEPT !.cursor = @ - 1], answer |-> answer]}
      [] key = "text" ->
            {[prompt |-> p, answer |-> answer]}
               \union {[prompt |-> NoPrompt, answer |-> n] : n \in 1..p.options}
      [] OTHER -> {[prompt |-> p, answer |-> answer]}

\* What was read of the prompt is no longer so.
Disturb == request' = [request EXCEPT !.saw = NoPrompt, !.moved = 0]

\* The user moves the cursor while reply sends its keys.
Interfere ==
    IF request.at = "keys" /\ request.saw # NoPrompt /\ request.moved < MaxMoves
    THEN request' = [request EXCEPT !.moved = @ + 1]
    ELSE Disturb

Output ==
    /\ open
    /\ \E line \in LineKinds :
          above' = IF Len(above) < LinesAbove THEN Append(above, line)
                   ELSE Append(Tail(above), line)
    /\ UNCHANGED <<prompt, answer, open, request>>

Ask ==
    /\ open /\ prompt = NoPrompt
    /\ prompt' \in {p \in Prompts : p.cursor = 1}
    /\ Disturb
    /\ UNCHANGED <<above, answer, open>>

Withdraw ==
    /\ open /\ prompt # NoPrompt
    /\ prompt' = NoPrompt
    /\ Disturb
    /\ UNCHANGED <<above, answer, open>>

ClosePane ==
    /\ open
    /\ open' = FALSE /\ prompt' = NoPrompt /\ above' = <<>>
    /\ Disturb
    /\ UNCHANGED answer

\* The user types into the pane.
Type ==
    /\ open /\ prompt # NoPrompt
    /\ \E key \in {"Up", "Down", "Enter", "Escape"} :
          /\ \E next \in After(prompt, key) : prompt' = next.prompt
          /\ IF key \in {"Up", "Down"} THEN Interfere ELSE Disturb
    /\ UNCHANGED <<above, answer, open>>

-----------------------------------------------------------------------------
(* The commands *)

Options == 0..(MostOptions + 1)

Does ==
    [what : {"kill", "interrupt", "send", "peek", "no", "yes"}, option : {0}]
       \union [what : {"option"}, option : Options]

NoRequest ==
    [does |-> [what |-> "peek", option |-> 0], at |-> "off", pane |-> NoPane,
     keys |-> <<>>, saw |-> NoPrompt, moved |-> 0, shown |-> <<>>]

Fails == request' = [NoRequest EXCEPT !.at = "failed"]

Begin ==
    /\ request.at \in {"off", "done", "failed"}
    /\ \E does \in Does : request' = [NoRequest EXCEPT !.does = does, !.at = "fetch"]
    /\ answer' = NoAnswer
    /\ UNCHANGED <<above, prompt, open>>

\* What the daemon may list: any of its sessions, each in a pane or in none.
Lists == UNION {[listed -> {AgentPane, OtherPane, NoPane}] : listed \in SUBSET Ids}

\* resolve_pane_id, for a target that is not itself a pane: NoPane where it fails.
Resolved(list, target) ==
    LET matches == target \intersect DOMAIN list
    IN  IF \E i \in matches : matches = {i} THEN list[CHOOSE i \in matches : TRUE] ELSE NoPane

\* The pane a target names; a pane as target is taken as it is.
Named ==
    {Resolved(list, target) : list \in Lists, target \in SUBSET Ids} \union {AgentPane, OtherPane}

\* fetch_sessions, whose list is empty when the daemon closes the connection;
\* it may also fail.
FetchSessions ==
    /\ request.at = "fetch"
    /\ \/ Fails
       \/ \E pane \in Named :
             IF pane = NoPane THEN Fails
             ELSE request' = [request EXCEPT !.at = "act", !.pane = pane]
    /\ UNCHANGED <<above, prompt, answer, open>>

Here == request.pane = AgentPane

\* The other pane is a terminal of its own, of which nothing else is said.
Reachable == Here => open

Kill ==
    /\ request.at = "act" /\ request.does.what = "kill"
    /\ IF Reachable THEN request' = [request EXCEPT !.at = "done"] ELSE Fails
    /\ open' = (open /\ ~Here)
    /\ prompt' = IF Here THEN NoPrompt ELSE prompt
    /\ above' = IF Here THEN <<>> ELSE above
    /\ UNCHANGED answer

KeysOf(what) ==
    CASE what = "interrupt" -> <<"C-c">>
      [] what = "send" -> <<"text", "Enter">>
      [] what = "no" -> <<"Escape">>
      [] what = "yes" -> <<"Enter">>

\* A bug to catch: the cursor is taken to be on the first option.
KeysToFromFirst(wanted, current) == [i \in 1..(wanted - 1) |-> "Down"] \o <<"Enter">>

\* cmd_reply
KeysTo(wanted, current) ==
    (IF wanted > current THEN [i \in 1..(wanted - current) |-> "Down"]
     ELSE [i \in 1..(current - wanted) |-> "Up"]) \o <<"Enter">>

PressWithoutReading ==
    /\ request.at = "act" /\ request.does.what \in {"interrupt", "send", "no", "yes"}
    /\ request' = [request EXCEPT !.at = "keys", !.keys = KeysOf(request.does.what)]
    /\ UNCHANGED <<above, prompt, answer, open>>

Reading == [request EXCEPT !.saw = IF Here THEN prompt ELSE NoPrompt]

\* A prompt below another cursor is not remembered.
OnlyCursor == \A i \in DOMAIN above : above[i].kind # "cursor"

ReadCursor ==
    /\ request.at = "act" /\ request.does.what = "option"
    /\ IF ~Reachable THEN Fails
       ELSE \E current \in IF Here THEN {find_selected_option(Captured)} ELSE {1} :
               request' = [Reading EXCEPT
                              !.at = "keys", !.keys = KeysTo(request.does.option, current),
                              !.saw = IF OnlyCursor THEN @ ELSE NoPrompt]
    /\ UNCHANGED <<above, prompt, answer, open>>

cmd_peek ==
    /\ request.at = "act" /\ request.does.what = "peek"
    /\ IF ~Reachable THEN Fails
       ELSE request' = [Reading EXCEPT
                           !.at = "done", !.shown = IF Here THEN extract_prompt(Captured) ELSE <<>>]
    /\ UNCHANGED <<above, prompt, answer, open>>

\* One tmux command for each key; a pane that is gone ends the command.
Press ==
    /\ request.at = "keys" /\ request.keys # <<>>
    /\ IF ~Reachable THEN Fails /\ UNCHANGED <<prompt, answer>>
       ELSE /\ request' = [request EXCEPT !.keys = Tail(@)]
            /\ IF Here
               THEN \E next \in After(prompt, Head(request.keys)) :
                       prompt' = next.prompt /\ answer' = next.answer
               ELSE UNCHANGED <<prompt, answer>>
    /\ UNCHANGED <<above, open>>

Return ==
    /\ request.at = "keys" /\ request.keys = <<>>
    /\ request' = [request EXCEPT !.at = "done"]
    /\ UNCHANGED <<above, prompt, answer, open>>

-----------------------------------------------------------------------------

Init ==
    /\ above = <<>> /\ prompt = NoPrompt /\ answer = NoAnswer
    /\ open = TRUE
    /\ request = NoRequest

Next ==
    \/ Output \/ Ask \/ Withdraw \/ Type \/ ClosePane
    \/ Begin \/ FetchSessions \/ Kill \/ PressWithoutReading \/ ReadCursor \/ cmd_peek
    \/ Press \/ Return

Spec == Init /\ [][Next]_vars

-----------------------------------------------------------------------------
(* Properties *)

\* The variables keep their types; the cursor is on an option of the prompt.
TypeOK ==
    /\ Len(above) <= LinesAbove /\ \A i \in DOMAIN above : above[i] \in LineKinds
    /\ prompt \in Prompts \union {NoPrompt} /\ request.saw \in Prompts \union {NoPrompt}
    /\ answer \in Options \union {NoAnswer}
    /\ request.does \in Does
    /\ request.at \in {"off", "fetch", "act", "keys", "done", "failed"}
    /\ request.pane \in {AgentPane, OtherPane, NoPane}

\* When reply says it selected an option, the agent took an option of the prompt
\* that was read, no farther from the one asked for than the user has pressed arrow
\* keys since: it is that option if the user pressed none.  Another cursor above
\* the prompt, and a prompt that is answered or withdrawn meanwhile, are excepted.
ReplyAnswers ==
    LET wanted == request.does.option
    IN  /\ request.at = "done" /\ request.does.what = "option" /\ request.saw # NoPrompt
        /\ wanted \in 1..request.saw.options
        => /\ answer \in 1..request.saw.options
           /\ answer \in (wanted - request.moved)..(wanted + request.moved)

\* peek shows the whole prompt that is up, whatever is above it on the screen, if
\* it has at most nine options and the cursor is on one of the first five.
PeekShowsPrompt ==
    request.at = "done" /\ request.does.what = "peek" /\ request.saw # NoPrompt
       /\ request.saw.options <= 9 /\ request.saw.cursor <= 5
    => IsSuffix(PromptLines(request.saw), request.shown)

\* reply and peek serve the prompt that is up.
PromptServed == ReplyAnswers /\ PeekShowsPrompt

=============================================================================
