------------------------------ MODULE Lifecycle ------------------------------
(***************************************************************************)
(* The vendor-neutral events every adapter translates into                 *)
(* (crates/atm-core/src/lifecycle.rs, tool.rs), and the two translations:  *)
(* of Claude Code's hooks (crates/atm-claude-adapter) and of pi's extension*)
(* events (crates/atm-pi-adapter).                                         *)
(*                                                                         *)
(* Abstracted: what events carry only to be displayed (sources, reasons,   *)
(* tool inputs, prompts, token counts, models).  Kept: which event arises, *)
(* the tool it names and which messages are dropped.                       *)
(***************************************************************************)
CONSTANTS
    Tools,              \* names of tools agents call
    InteractiveTools,   \* AskUserQuestion, EnterPlanMode, ExitPlanMode
    NoTool              \* no tool_name, or an empty one

ASSUME ToolAssumption ==
    /\ InteractiveTools \subseteq Tools
    /\ NoTool \notin Tools

\* Notification with kind Setup is the one notification the session heeds.
EventTypes ==
    {"SessionStart", "SessionEnd", "WorkingStart", "WorkingEnd", "Idle", "PromptSubmit",
     "NeedsInput", "ToolCallStart", "ToolCallEnd", "ContextCompactStart", "ContextUpdate",
     "ProviderModelChange", "Setup", "Notification", "ChildSessionStart", "ChildSessionEnd"}

LifecycleEvent == [type : EventTypes, tool : Tools \union {NoTool}]

Plain(type) == [type |-> type, tool |-> NoTool]
OfTool(type, t) == [type |-> type, tool |-> t]

IsTerminalForTurn(e) == e.type \in {"WorkingEnd", "Idle", "SessionEnd"}
IsStarting(e) == e.type \in {"SessionStart", "WorkingStart", "PromptSubmit"}

\* The translations yield a set of at most one event: {} is Rust's None, the
\* message is dropped.

-----------------------------------------------------------------------------
(* Claude Code hooks.  kind is the notification_type of a Notification and *)
(* irrelevant otherwise.                                                   *)

Hook(name, t, kind) == [name |-> name, tool |-> t, kind |-> kind]

NotificationKinds ==
    {"permission_prompt", "elicitation_dialog", "idle_prompt", "setup", "info", "other"}

PreToolUse(t) ==
    IF t \in InteractiveTools THEN OfTool("NeedsInput", t) ELSE OfTool("ToolCallStart", t)

NotificationMeaning ==
    [permission_prompt |-> "NeedsInput", elicitation_dialog |-> "NeedsInput",
     idle_prompt |-> "Idle", setup |-> "Setup", info |-> "Notification", other |-> "Notification"]

HookMeaning ==
    [UserPromptSubmit |-> "PromptSubmit", Stop |-> "WorkingEnd",
     SubagentStart |-> "ChildSessionStart", SubagentStop |-> "ChildSessionEnd",
     SessionStart |-> "SessionStart", SessionEnd |-> "SessionEnd",
     PreCompact |-> "ContextCompactStart", Setup |-> "Setup"]

ToolHooks == {"PreToolUse", "PostToolUse", "PostToolUseFailure"}

\* A bug to catch: the reminder that Claude is idle is one more notification.
FromClaudeIgnoringIdle(h) ==
    IF h.name = "Notification"
    THEN {Plain(IF h.kind = "idle_prompt" THEN "Notification" ELSE NotificationMeaning[h.kind])}
    ELSE IF h.name \in DOMAIN HookMeaning THEN {Plain(HookMeaning[h.name])}
    ELSE IF h.name \notin ToolHooks \/ h.tool = NoTool THEN {}
    ELSE IF h.name = "PreToolUse" THEN {PreToolUse(h.tool)}
    ELSE {OfTool("ToolCallEnd", h.tool)}

\* A tool hook without a tool, and a hook of a later version, are dropped.
FromClaude(h) ==
    IF h.name = "Notification" THEN {Plain(NotificationMeaning[h.kind])}
    ELSE IF h.name \in DOMAIN HookMeaning THEN {Plain(HookMeaning[h.name])}
    ELSE IF h.name \notin ToolHooks \/ h.tool = NoTool THEN {}
    ELSE IF h.name = "PreToolUse" THEN {PreToolUse(h.tool)}
    ELSE {OfTool("ToolCallEnd", h.tool)}

-----------------------------------------------------------------------------
(* pi's events.  kind is "asks" for a tool_call with needs_user_input, the *)
(* source of an input, "empty" for a context without usage.                *)

PiMeaning ==
    [session_start |-> "SessionStart", session_shutdown |-> "SessionEnd",
     agent_start |-> "WorkingStart", agent_end |-> "WorkingEnd",
     session_before_compact |-> "ContextCompactStart", model_select |-> "ProviderModelChange",
     atm_needs_input_open |-> "NeedsInput", atm_needs_input_resolved |-> "WorkingStart"]

\* Of the two events pi fires for the start and the end of a tool one is
\* suppressed, as is everything without a meaning to the daemon.
FromPi(e) ==
    IF e.name \in DOMAIN PiMeaning THEN {Plain(PiMeaning[e.name])}
    ELSE IF e.name = "input" /\ e.kind = "interactive" THEN {Plain("PromptSubmit")}
    ELSE IF e.name = "context" /\ e.kind # "empty" THEN {Plain("ContextUpdate")}
    ELSE IF e.tool = NoTool THEN {}
    ELSE IF e.name = "tool_call"
    THEN {OfTool(IF e.kind = "asks" THEN "NeedsInput" ELSE "ToolCallStart", e.tool)}
    ELSE IF e.name = "tool_execution_end" THEN {OfTool("ToolCallEnd", e.tool)}
    ELSE {}

=============================================================================
