---------------------------- MODULE SessionStatus ----------------------------
(***************************************************************************)
(* What the daemon shows of one agent (SessionDomain and                   *)
(* SessionInfrastructure of crates/atm-core/src/session.rs), next to what  *)
(* that agent is really doing.                                             *)
(*                                                                         *)
(* The agent is Claude Code, whose hooks are sent by a script that gives   *)
(* up after 100 ms and whose status line is refreshed on its own, or pi,   *)
(* whose extension writes its events to one connection.  Hooks and events  *)
(* reach the daemon in order or not at all; status lines come at any time. *)
(* The daemon may restart and then knows nothing of the agent but what     *)
(* discovery finds.                                                        *)
(*                                                                         *)
(* Abstracted: identity, which is SessionRegistry's; cost, tokens, model,  *)
(* directories, prompts and times.                                         *)
(***************************************************************************)
EXTENDS Lifecycle, Naturals, Sequences, SequencesExt

CONSTANTS
    NoSession,     \* the registry has no entry for the agent
    MaxHistory,    \* MAX_TOOL_HISTORY
    MaxInFlight,   \* bound: hooks or events on their way
    MaxLines,      \* bound: status lines on their way
    Parallel       \* does the agent run several tools at once?

ASSUME StatusAssumption ==
    /\ MaxHistory \in Nat \ {0}
    /\ MaxInFlight \in Nat \ {0}
    /\ MaxLines \in Nat
    /\ Parallel \in BOOLEAN

VARIABLES
    session,   \* the entry of the agent
    agent,     \* the agent itself
    hooks,     \* its messages on their way, oldest first
    lines,     \* number of its status lines on their way
    missed     \* was anything lost since the last turn boundary applied?

vars == <<session, agent, hooks, lines, missed>>

-----------------------------------------------------------------------------
(* The session *)

Statuses == {"Idle", "Working", "AttentionNeeded"}

Contexts == {"Thinking", "Compacting", "Setup", "Permission"}
NoActivity == <<"none", NoTool>>
UsingTool(t) == <<"tool", t>>
Doing(context) == <<context, NoTool>>
Activities == {NoActivity} \union {UsingTool(t) : t \in Tools} \union {Doing(c) : c \in Contexts}

\* SessionDomain, the fields that tell of status, with SessionInfrastructure's tools.
Session == [status : Statuses, activity : Activities, tools : SeqOf(Tools, MaxHistory)]

ASSUME SessionAssumption == NoSession \notin Session

\* SessionDomain::new
NewSession == [status |-> "Idle", activity |-> NoActivity, tools |-> <<>>]

StatusOf ==
    [SessionStart |-> "Idle", SessionEnd |-> "Idle", WorkingStart |-> "Working",
     WorkingEnd |-> "Idle", Idle |-> "Idle", PromptSubmit |-> "Working",
     NeedsInput |-> "AttentionNeeded", ToolCallStart |-> "Working", ToolCallEnd |-> "Working",
     ContextCompactStart |-> "Working", Setup |-> "Working",
     ChildSessionStart |-> "Working", ChildSessionEnd |-> "Working"]

\* activity_for_needs_input for NeedsInput
ActivityOf(e) ==
    CASE e.type \in {"SessionStart", "SessionEnd", "WorkingStart", "WorkingEnd", "Idle",
                     "PromptSubmit"} -> NoActivity
      [] e.type \in {"ToolCallStart", "NeedsInput"} /\ e.tool # NoTool -> UsingTool(e.tool)
      [] e.type = "NeedsInput" /\ e.tool = NoTool -> Doing("Permission")
      [] e.type = "ToolCallEnd" -> Doing("Thinking")
      [] e.type = "ContextCompactStart" -> Doing("Compacting")
      [] e.type = "Setup" -> Doing("Setup")

\* Bugs to catch: no bound; the newest record is dropped instead of the oldest.
RecordToolUseUnbounded(tools, t) == Append(tools, t)
RecordToolUseDroppingNewest(tools, t) ==
    IF Len(tools) = MaxHistory THEN tools ELSE Append(tools, t)

RecordToolUse(tools, t) ==
    LET all == Append(tools, t)
    IN  IF Len(all) > MaxHistory THEN Tail(all) ELSE all

\* apply_lifecycle_event, and the tool record the registry adds: calls and
\* their ends are recorded alike, as are tools the user is asked about.
Apply(s, e) ==
    [status   |-> IF e.type \in DOMAIN StatusOf THEN StatusOf[e.type] ELSE s.status,
     activity |-> IF e.type \in {"ContextUpdate", "ProviderModelChange", "Notification",
                                 "ChildSessionStart", "ChildSessionEnd"}
                  THEN s.activity ELSE ActivityOf(e),
     tools    |-> IF e.tool = NoTool THEN s.tools ELSE RecordToolUse(s.tools, e.tool)]

\* A bug to catch: a status line overrides any status.
FromStatusLineAlways(s) == IF s = NoSession THEN NewSession ELSE [s EXCEPT !.status = "Working"]

\* update_from_status_line for an entry, from_status_line where there is none.
FromStatusLine(s) ==
    IF s = NoSession THEN NewSession
    ELSE [s EXCEPT !.status = IF @ = "AttentionNeeded" THEN @ ELSE "Working"]

\* The entry after an event: the end of the session removes it, any other
\* event creates it where it is missing.
Heard(s, e) ==
    IF e.type = "SessionEnd" THEN NoSession
    ELSE Apply(IF s = NoSession THEN NewSession ELSE s, e)

-----------------------------------------------------------------------------
(* The agent *)

Agent ==
    [vendor   : {"claude", "pi"},
     phase    : {"off", "idle", "working"},
     running  : SUBSET Tools,
     asking   : SUBSET Tools,   \* tools that wait for the user's decision
     silent   : BOOLEAN,        \* did the last turn end without a hook?
     reminded : BOOLEAN]        \* has idle_prompt been sent since?

Claude == agent.vendor = "claude"
Busy == agent.running \union agent.asking

\* The agent sends ms, in this order.
Send(ms) ==
    /\ Len(hooks) + Len(ms) <= MaxInFlight
    /\ hooks' = hooks \o ms

\* One word of each vendor for the same thing.
Say(claudeName, piName, t) ==
    Send(<<Hook(IF Claude THEN claudeName ELSE piName, t, "other")>>)

Becomes(changed) ==
    /\ agent' = changed
    /\ UNCHANGED <<session, lines, missed>>

\* Another process has another pid and with it an entry of its own.
StartAgent ==
    /\ agent.phase = "off"
    /\ session = NoSession /\ hooks = <<>> /\ lines = 0
    /\ Say("SessionStart", "session_start", NoTool)
    /\ Becomes([agent EXCEPT !.phase = "idle", !.silent = FALSE, !.reminded = FALSE])

\* /clear ends the session and starts the next in the same process.
Clear ==
    /\ Claude /\ agent.phase = "idle"
    /\ Send(<<Hook("SessionEnd", NoTool, "other"), Hook("SessionStart", NoTool, "other")>>)
    /\ Becomes([agent EXCEPT !.silent = FALSE, !.reminded = FALSE])

\* The one-time Setup of Claude.
SetUp ==
    /\ Claude /\ agent.phase = "working" /\ Busy = {}
    /\ Say("Setup", "", NoTool)
    /\ Becomes(agent)

Prompt ==
    /\ agent.phase = "idle"
    /\ IF Claude THEN Say("UserPromptSubmit", "", NoTool)
       ELSE Send(<<Hook("input", NoTool, "interactive"), Hook("agent_start", NoTool, "other")>>)
    /\ Becomes([agent EXCEPT !.phase = "working", !.silent = FALSE])

\* Claude's interactive tools wait for the user as soon as they are called.
CallTool(t) ==
    /\ agent.phase = "working"
    /\ t \notin Busy
    /\ Parallel \/ Busy = {}
    /\ Say("PreToolUse", "tool_call", t)
    /\ Becomes(IF Claude /\ t \in InteractiveTools
               THEN [agent EXCEPT !.asking = @ \union {t}]
               ELSE [agent EXCEPT !.running = @ \union {t}])

\* Permission is asked for: Claude notifies, pi's wrapped ui.select tells.
AskPermission(t) ==
    /\ t \in agent.running
    /\ IF Claude THEN Send(<<Hook("Notification", NoTool, "permission_prompt")>>)
       ELSE Say("", "atm_needs_input_open", NoTool)
    /\ Becomes([agent EXCEPT !.running = @ \ {t}, !.asking = @ \union {t}])

\* Claude says nothing when the user answers.
Approve(t) ==
    /\ t \in agent.asking
    /\ IF Claude THEN UNCHANGED hooks ELSE Say("", "atm_needs_input_resolved", NoTool)
    /\ Becomes([agent EXCEPT !.asking = @ \ {t}, !.running = @ \union {t}])

ToolEnds(t) ==
    /\ t \in agent.running
    /\ \/ Say("PostToolUse", "tool_execution_end", t)
       \/ Claude /\ Say("PostToolUseFailure", "", t)
    /\ Becomes([agent EXCEPT !.running = @ \ {t}])

\* A subagent begins or ends, a compaction begins.
Interlude ==
    /\ agent.phase = "working"
    /\ Parallel \/ agent.asking = {}
    /\ \/ Claude /\ \E name \in {"SubagentStart", "SubagentStop"} : Say(name, "", NoTool)
       \/ agent.asking = {} /\ Say("PreCompact", "session_before_compact", NoTool)
    /\ Becomes(agent)

EndTurn ==
    /\ agent.phase = "working"
    /\ Busy = {}
    /\ Say("Stop", "agent_end", NoTool)
    /\ Becomes([agent EXCEPT !.phase = "idle", !.reminded = FALSE])

\* The user stops Claude's turn, or refuses a tool: no hook tells.
Interrupt ==
    /\ Claude /\ agent.phase = "working"
    /\ Becomes([agent EXCEPT !.phase = "idle", !.running = {}, !.asking = {},
                             !.silent = TRUE, !.reminded = FALSE])
    /\ UNCHANGED hooks

\* After a minute without input; by then nothing older is on its way.
IdlePrompt ==
    /\ Claude /\ agent.phase = "idle" /\ ~agent.reminded
    /\ hooks = <<>> /\ lines = 0
    /\ Send(<<Hook("Notification", NoTool, "idle_prompt")>>)
    /\ Becomes([agent EXCEPT !.silent = FALSE, !.reminded = TRUE])

\* Messages that mean nothing to the session's status.
Chatter ==
    /\ agent.phase = "working"
    /\ \/ Claude /\ \E m \in {Hook("Notification", NoTool, "info"), Hook("PreToolUse", NoTool, "other"),
                              Hook("LaterHook", NoTool, "other")} : Send(<<m>>)
       \/ ~Claude /\ \E m \in {Hook("context", NoTool, "usage"), Hook("context", NoTool, "empty"),
                               Hook("input", NoTool, "extension"), Hook("model_select", NoTool, "other")} :
                        Send(<<m>>)
       \/ ~Claude /\ \E t \in Busy, name \in {"tool_execution_start", "tool_result"} : Say("", name, t)
    /\ Becomes(agent)

SendStatusLine ==
    /\ Claude /\ agent.phase = "working"
    /\ lines < MaxLines
    /\ lines' = lines + 1
    /\ UNCHANGED <<session, agent, hooks, missed>>

QuitAgent ==
    /\ agent.phase # "off"
    /\ \/ Say("SessionEnd", "session_shutdown", NoTool)
       \/ UNCHANGED hooks   \* killed
    /\ Becomes([agent EXCEPT !.phase = "off", !.running = {}, !.asking = {}, !.silent = TRUE])

-----------------------------------------------------------------------------
(* The daemon *)

Translate(m) == IF Claude THEN FromClaude(m) ELSE FromPi(m)

\* A dropped message changes nothing but is heard.
DeliverHook ==
    /\ hooks # <<>>
    /\ hooks' = Tail(hooks)
    /\ LET event == Translate(Head(hooks))
       IN  \/ event = {} /\ UNCHANGED <<session, missed>>
           \/ \E e \in event :
                 /\ session' = Heard(session, e)
                 /\ missed' = (missed /\ ~IsStarting(e) /\ ~IsTerminalForTurn(e))
    /\ UNCHANGED <<agent, lines>>

\* The script's 100 ms are over, or the extension has no connection.
LoseHook ==
    /\ hooks # <<>>
    /\ hooks' = Tail(hooks)
    /\ missed' = TRUE
    /\ UNCHANGED <<session, agent, lines>>

DeliverStatusLine ==
    /\ lines > 0
    /\ lines' = lines - 1
    /\ session' = FromStatusLine(session)
    /\ UNCHANGED <<agent, hooks, missed>>

LoseStatusLine ==
    /\ lines > 0
    /\ lines' = lines - 1
    /\ UNCHANGED <<session, agent, hooks, missed>>

RestartDaemon ==
    /\ session # NoSession
    /\ session' = NoSession
    /\ missed' = TRUE
    /\ UNCHANGED <<agent, hooks, lines>>

\* register_discovered
Discover ==
    /\ agent.phase # "off"
    /\ session = NoSession
    /\ session' = NewSession
    /\ UNCHANGED <<agent, hooks, lines, missed>>

\* cleanup_stale
CleanupStale ==
    /\ agent.phase = "off"
    /\ session # NoSession
    /\ session' = NoSession
    /\ UNCHANGED <<agent, hooks, lines, missed>>

-----------------------------------------------------------------------------

Init ==
    /\ session = NoSession
    /\ agent \in {[vendor |-> v, phase |-> "off", running |-> {}, asking |-> {},
                   silent |-> FALSE, reminded |-> FALSE] : v \in {"claude", "pi"}}
    /\ hooks = <<>>
    /\ lines = 0
    /\ missed = FALSE

Daemon == \/ DeliverHook \/ LoseHook \/ DeliverStatusLine \/ LoseStatusLine
          \/ RestartDaemon \/ Discover \/ CleanupStale

Life == StartAgent \/ Clear \/ SetUp \/ Prompt \/ EndTurn \/ Interrupt \/ IdlePrompt \/ QuitAgent

Work ==
    \/ \E t \in Tools : CallTool(t) \/ AskPermission(t) \/ Approve(t) \/ ToolEnds(t)
    \/ Interlude \/ Chatter \/ SendStatusLine

Next == Life \/ Work \/ Daemon

Spec == Init /\ [][Next]_vars

\* What is on its way arrives or is lost; an idle Claude sends its reminder.
FairSpec ==
    /\ Spec
    /\ WF_vars(DeliverHook \/ LoseHook)
    /\ WF_vars(DeliverStatusLine \/ LoseStatusLine)
    /\ WF_vars(IdlePrompt)

-----------------------------------------------------------------------------
(* Properties *)

\* The variables stay within their types, the tool history within its bound.
TypeOK ==
    /\ session \in Session \union {NoSession}
    /\ agent \in Agent
    /\ Len(hooks) <= MaxInFlight
    /\ lines \in 0 .. MaxLines
    /\ missed \in BOOLEAN

\* What a session is shown to do with a tool is what its tool history ends
\* with, whatever is lost, repeated or overtaken.
ActivityRecorded ==
    session # NoSession =>
        \A t \in Tools :
            session.activity = UsingTool(t) =>
                session.tools # <<>> /\ Last(session.tools) = t

\* Everything the agent said since a turn boundary has been applied.
UpToDate == hooks = <<>> /\ ~missed /\ ~agent.silent

\* Of an agent that calls one tool at a time the daemon knows better than any
\* status line: once a turn boundary has been heard and no hook lost since, a
\* wait for the user is shown, none is shown when the agent is idle, and work
\* without a pending tool is shown as work.
QuietStatus ==
    UpToDate /\ agent.phase # "off" =>
        /\ session # NoSession
        /\ agent.asking # {} => session.status = "AttentionNeeded"
        /\ agent.phase = "idle" => session.status # "AttentionNeeded"
        /\ agent.phase = "working" /\ Busy = {} => session.status = "Working"

\* An agent that stays idle is in the end shown idle for good, although a user's
\* interrupt fires no hook and a late status line makes it look busy, provided
\* that its reminder is not lost.
IdleAtLast ==
    <>[](Claude /\ agent.phase = "idle" /\ ~missed)
        => <>[](session = NoSession \/ session.status = "Idle")

=============================================================================
