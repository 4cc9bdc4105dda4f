------------------------- MODULE SessionStatusProofs -------------------------
(***************************************************************************)
(* Theorems about what the daemon shows of an agent, for any tools, any    *)
(* length of the tool history and any number of messages on their way.     *)
(***************************************************************************)
EXTENDS SessionStatus, SequenceTheorems, TLAPS

\* What the two senders write: a notification names one of the known kinds.
ClaudeNames ==
    {"SessionStart", "SessionEnd", "Setup", "UserPromptSubmit", "PreToolUse", "PostToolUse",
     "PostToolUseFailure", "Notification", "SubagentStart", "SubagentStop", "PreCompact",
     "Stop", "LaterHook"}
PiNames ==
    {"session_start", "session_shutdown", "input", "agent_start", "agent_end", "tool_call",
     "tool_execution_start", "tool_execution_end", "tool_result", "atm_needs_input_open",
     "atm_needs_input_resolved", "session_before_compact", "context", "model_select"}
Kinds == NotificationKinds \union {"usage", "empty", "extension", "interactive"}
Message ==
    {m \in [name : ClaudeNames \union PiNames, tool : Tools \union {NoTool}, kind : Kinds] :
        m.name = "Notification" => m.kind \in NotificationKinds}

Unheeded == {"ContextUpdate", "ProviderModelChange", "Notification",
             "ChildSessionStart", "ChildSessionEnd"}

\* What the translations make of them: the start of a call names its tool, an
\* event that leaves the activity alone names none.
WellFormed ==
    {e \in LifecycleEvent :
        /\ e.type = "ToolCallStart" => e.tool # NoTool
        /\ e.type \in Unheeded => e.tool = NoTool}

MessagesOK == hooks \in Seq(Message)

\* Only an agent at work has tools, each runs or waits, and one at a time.
AgentOK ==
    /\ agent.phase # "working" => Busy = {}
    /\ agent.running \intersect agent.asking = {}
    /\ ~Parallel => \A s, t \in Busy : s = t

\* A status that tells the truth about an agent.
Right(a, status) ==
    /\ a.asking # {} => status = "AttentionNeeded"
    /\ a.phase = "idle" => status # "AttentionNeeded"
    /\ a.phase = "working" /\ a.running \union a.asking = {} => status = "Working"

\* The event a message of a vendor changes the status with, if it does.
Speech(vendor, m) ==
    {e \in IF vendor = "claude" THEN FromClaude(m) ELSE FromPi(m) : e.type \in DOMAIN StatusOf}
LastWord(vendor, queue, i) ==
    /\ Speech(vendor, queue[i]) # {}
    /\ \A j \in DOMAIN queue : Speech(vendor, queue[j]) # {} => j <= i

\* The last message on its way that changes the status makes it right.  When
\* there is none and nothing was lost since a turn boundary, it is right now.
QuietInv ==
    agent.phase # "off" /\ ~agent.silent =>
        /\ \A i \in DOMAIN hooks : LastWord(agent.vendor, hooks, i) =>
              \A e \in Speech(agent.vendor, hooks[i]) :
                 e.type # "SessionEnd" /\ Right(agent, StatusOf[e.type])
        /\ ~missed /\ (\A i \in DOMAIN hooks : Speech(agent.vendor, hooks[i]) = {}) =>
              session # NoSession /\ Right(agent, session.status)

-----------------------------------------------------------------------------
(* Lemmas about the translations *)

LEMMA HooksWellFormed ==
    ASSUME NEW m \in Message
    PROVE  FromClaude(m) \subseteq WellFormed
<1>1. CASE m.name = "Notification"
  <2>1. NotificationMeaning[m.kind] \in {"NeedsInput", "Idle", "Setup", "Notification"}
    BY <1>1 DEF Message, NotificationKinds, NotificationMeaning
  <2> QED
    BY <1>1, <2>1, ToolAssumption
    DEF FromClaude, WellFormed, LifecycleEvent, EventTypes, Plain, Unheeded
<1>2. CASE m.name # "Notification" /\ m.name \in DOMAIN HookMeaning
  <2>1. HookMeaning[m.name] \in EventTypes \ {"ToolCallStart"}
    BY <1>2 DEF HookMeaning, EventTypes
  <2> QED
    BY <1>2, <2>1 DEF FromClaude, WellFormed, LifecycleEvent, Plain
<1>3. CASE m.name # "Notification" /\ m.name \notin DOMAIN HookMeaning
  BY <1>3
  DEF FromClaude, Message, WellFormed, LifecycleEvent, EventTypes, OfTool, PreToolUse, Unheeded
<1> QED
  BY <1>1, <1>2, <1>3

LEMMA PiEventsWellFormed ==
    ASSUME NEW m \in Message
    PROVE  FromPi(m) \subseteq WellFormed
<1>1. CASE m.name \in DOMAIN PiMeaning
  <2>1. PiMeaning[m.name] \in EventTypes \ {"ToolCallStart"}
    BY <1>1 DEF PiMeaning, EventTypes
  <2> QED
    BY <1>1, <2>1 DEF FromPi, WellFormed, LifecycleEvent, Plain
<1>2. CASE m.name \notin DOMAIN PiMeaning
  BY <1>2 DEF FromPi, Message, WellFormed, LifecycleEvent, EventTypes, OfTool, Plain, Unheeded
<1> QED
  BY <1>1, <1>2

LEMMA TranslateWellFormed ==
    ASSUME NEW m \in Message
    PROVE  Translate(m) \subseteq WellFormed
BY HooksWellFormed, PiEventsWellFormed DEF Translate

-----------------------------------------------------------------------------
(* Lemmas about the session *)

LEMMA RecordToolUseProperties ==
    ASSUME NEW tools \in SeqOf(Tools, MaxHistory), NEW t \in Tools
    PROVE  /\ RecordToolUse(tools, t) \in SeqOf(Tools, MaxHistory)
           /\ RecordToolUse(tools, t) # <<>>
           /\ Last(RecordToolUse(tools, t)) = t
<1> DEFINE all == Append(tools, t)
<1> USE StatusAssumption
<1>1. PICK m \in 0 .. MaxHistory : tools \in [1 .. m -> Tools]
  BY DEF SeqOf
<1>2. tools \in Seq(Tools) /\ Len(tools) = m /\ m \in Nat
  BY <1>1
<1>3. all \in Seq(Tools) /\ Len(all) = m + 1 /\ all[m + 1] = t
  BY <1>2
<1> HIDE DEF all
<1>4. \A s \in Seq(Tools) : Len(s) <= MaxHistory => s \in SeqOf(Tools, MaxHistory)
  BY DEF SeqOf
<1>5. CASE m = MaxHistory
  <2>1. RecordToolUse(tools, t) = Tail(all)
    BY <1>3, <1>5 DEF RecordToolUse, all
  <2>2. Tail(all) \in Seq(Tools) /\ Len(Tail(all)) = m /\ Tail(all)[m] = all[m + 1]
    BY <1>3, <1>5
  <2> DEFINE rest == Tail(all)
  <2> HIDE DEF rest
  <2>3. rest \in Seq(Tools) /\ Len(rest) = m /\ rest[m] = t
    BY <1>3, <2>2 DEF rest
  <2>4. rest # <<>>
    BY <1>5, <2>3
  <2>5. rest \in SeqOf(Tools, MaxHistory)
    BY <1>4, <1>5, <2>3
  <2> QED
    BY <2>1, <2>3, <2>4, <2>5 DEF Last, rest
<1>6. CASE m < MaxHistory
  <2>1. RecordToolUse(tools, t) = all
    BY <1>2, <1>3, <1>6 DEF RecordToolUse, all
  <2> QED
    BY <2>1, <1>2, <1>3, <1>4, <1>6 DEF Last
<1> QED
  BY <1>2, <1>5, <1>6

LEMMA NewSessionTyped == NewSession \in Session
<1>1. <<>> \in SeqOf(Tools, MaxHistory)
  <2>1. <<>> \in [1 .. 0 -> Tools]
    OBVIOUS
  <2> QED
    BY <2>1, StatusAssumption DEF SeqOf
<1> QED
  BY <1>1 DEF NewSession, Session, Statuses, Activities

\* What an activity tells of tools is what the history ends with.
Recorded(s) ==
    \A t \in Tools : s.activity = UsingTool(t) => s.tools # <<>> /\ Last(s.tools) = t

LEMMA ActivityTyped ==
    ASSUME NEW e \in WellFormed, e.type \notin Unheeded
    PROVE  /\ ActivityOf(e) \in Activities
           /\ \A t \in Tools : ActivityOf(e) = UsingTool(t) => e.tool = t
<1>1. e.type \in EventTypes /\ e.tool \in Tools \union {NoTool}
  BY DEF WellFormed, LifecycleEvent
<1>2. CASE e.type \in {"SessionStart", "SessionEnd", "WorkingStart", "WorkingEnd", "Idle",
                       "PromptSubmit"}
  <2>1. ActivityOf(e) = NoActivity
    BY <1>2 DEF ActivityOf
  <2> QED
    BY <2>1 DEF NoActivity, UsingTool, Activities
<1>3. CASE e.type \in {"ToolCallStart", "NeedsInput"} /\ e.tool # NoTool
  <2>1. ActivityOf(e) = UsingTool(e.tool)
    BY <1>3 DEF ActivityOf
  <2> QED
    BY <1>1, <1>3, <2>1 DEF UsingTool, Activities
<1>4. CASE \/ e.type = "NeedsInput" /\ e.tool = NoTool
           \/ e.type \in {"ToolCallEnd", "ContextCompactStart", "Setup"}
  <2>1. \E c \in Contexts : ActivityOf(e) = Doing(c)
    BY <1>4 DEF ActivityOf, Contexts
  <2> QED
    BY <2>1 DEF Doing, UsingTool, Activities, Contexts
<1> QED
  BY <1>1, <1>2, <1>3, <1>4 DEF EventTypes, Unheeded, WellFormed

LEMMA ApplyProperties ==
    ASSUME NEW s \in Session, Recorded(s), NEW e \in WellFormed
    PROVE  Apply(s, e) \in Session /\ Recorded(Apply(s, e))
<1> DEFINE new == Apply(s, e)
<1>1. e.type \in EventTypes /\ e.tool \in Tools \union {NoTool}
  BY DEF WellFormed, LifecycleEvent
<1>2. /\ s.status \in Statuses /\ s.activity \in Activities
      /\ s.tools \in SeqOf(Tools, MaxHistory)
  BY DEF Session
<1>3. new.status \in Statuses
  <2>1. e.type \in DOMAIN StatusOf => StatusOf[e.type] \in Statuses
    BY DEF StatusOf, Statuses
  <2> QED
    BY <1>2, <2>1 DEF Apply
<1>4. new.tools = IF e.tool = NoTool THEN s.tools ELSE RecordToolUse(s.tools, e.tool)
  BY DEF Apply
<1>5. new.tools \in SeqOf(Tools, MaxHistory)
  BY <1>1, <1>2, <1>4, RecordToolUseProperties
<1>6. CASE e.type \in Unheeded
  <2>1. new.activity = s.activity /\ new.tools = s.tools
    BY <1>4, <1>6 DEF Apply, Unheeded, WellFormed
  <2>2. Recorded(new)
    BY <2>1 DEF Recorded
  <2>3. new = [status |-> new.status, activity |-> new.activity, tools |-> new.tools]
    BY DEF Apply
  <2> QED
    BY <1>2, <1>3, <2>1, <2>2, <2>3 DEF Session
<1>7. CASE e.type \notin Unheeded
  <2>1. new.activity = ActivityOf(e)
    BY <1>7 DEF Apply, Unheeded
  <2>2. Recorded(new)
    <3> HIDE DEF new
    <3> SUFFICES ASSUME NEW t \in Tools, new.activity = UsingTool(t)
                 PROVE  new.tools # <<>> /\ Last(new.tools) = t
      BY DEF Recorded
    <3>1. e.tool = t
      BY <1>7, <2>1, ActivityTyped
    <3> QED
      BY <1>2, <1>4, <3>1, ToolAssumption, RecordToolUseProperties
  <2>3. new = [status |-> new.status, activity |-> new.activity, tools |-> new.tools]
    BY DEF Apply
  <2>4. new.activity \in Activities
    BY <1>7, <2>1, ActivityTyped
  <2> QED
    BY <1>3, <1>5, <2>2, <2>3, <2>4 DEF Session
<1> QED
  BY <1>6, <1>7

-----------------------------------------------------------------------------
(* What the agent sends *)

LEMMA SendTyped ==
    ASSUME MessagesOK, NEW ms \in Seq(Message), Send(ms)
    PROVE  hooks' \in Seq(Message) /\ Len(hooks') <= MaxInFlight
<1>1. Len(hooks) \in Nat /\ Len(ms) \in Nat /\ Len(hooks \o ms) = Len(hooks) + Len(ms)
  BY DEF MessagesOK
<1> QED
  BY <1>1 DEF Send, MessagesOK

LEMMA SayTyped ==
    ASSUME MessagesOK, NEW claudeName, NEW piName, NEW t \in Tools \union {NoTool},
           IF Claude THEN claudeName \in ClaudeNames \ {"Notification"} ELSE piName \in PiNames,
           Say(claudeName, piName, t)
    PROVE  hooks' \in Seq(Message) /\ Len(hooks') <= MaxInFlight
<1> DEFINE m == Hook(IF Claude THEN claudeName ELSE piName, t, "other")
<1>1. CASE Claude
  <2>1. m = Hook(claudeName, t, "other")
    BY <1>1
  <2>2. m \in Message
    BY <1>1, <2>1 DEF Message, Hook, Kinds, NotificationKinds
  <2> HIDE DEF m
  <2>3. Send(<<m>>) /\ <<m>> \in Seq(Message)
    BY <2>2 DEF Say, m
  <2> QED
    BY <2>3, SendTyped
<1>2. CASE ~Claude
  <2>1. m = Hook(piName, t, "other")
    BY <1>2
  <2>2. m \in Message
    BY <1>2, <2>1 DEF Message, Hook, Kinds, NotificationKinds, PiNames
  <2> HIDE DEF m
  <2>3. Send(<<m>>) /\ <<m>> \in Seq(Message)
    BY <2>2 DEF Say, m
  <2> QED
    BY <2>3, SendTyped
<1> QED
  BY <1>1, <1>2

-----------------------------------------------------------------------------
(* Types *)

Typed ==
    /\ TypeOK
    /\ MessagesOK
    /\ session # NoSession => Recorded(session)

\* The part of Typed that what the agent does can disturb.
AgentTyped ==
    /\ agent' \in Agent
    /\ hooks' \in Seq(Message) /\ Len(hooks') <= MaxInFlight
    /\ lines' \in 0 .. MaxLines
    /\ UNCHANGED <<session, missed>>

LEMMA HeardTyped ==
    ASSUME Typed, NEW e \in WellFormed
    PROVE  /\ Heard(session, e) \in Session \union {NoSession}
           /\ Heard(session, e) # NoSession => Recorded(Heard(session, e))
<1>1. Recorded(NewSession)
  BY DEF Recorded, NewSession, NoActivity, UsingTool
<1> DEFINE s == IF session = NoSession THEN NewSession ELSE session
<1>2. s \in Session /\ Recorded(s)
  BY <1>1, NewSessionTyped DEF Typed, TypeOK
<1> HIDE DEF s
<1>3. Heard(session, e) = IF e.type = "SessionEnd" THEN NoSession ELSE Apply(s, e)
  BY DEF Heard, s
<1> QED
  BY <1>2, <1>3, ApplyProperties

LEMMA StatusLineTyped ==
    ASSUME Typed
    PROVE  FromStatusLine(session) \in Session /\ Recorded(FromStatusLine(session))
<1>1. CASE session = NoSession
  BY <1>1, NewSessionTyped
  DEF FromStatusLine, Recorded, NewSession, NoActivity, UsingTool
<1>2. CASE session # NoSession
  <2> DEFINE new == [session EXCEPT !.status = IF @ = "AttentionNeeded" THEN @ ELSE "Working"]
  <2>1. session \in Session /\ Recorded(session)
    BY <1>2 DEF Typed, TypeOK
  <2>2. new \in Session /\ new.activity = session.activity /\ new.tools = session.tools
    BY <2>1 DEF Session, Statuses
  <2> HIDE DEF new
  <2>3. Recorded(new)
    BY <2>1, <2>2 DEF Recorded
  <2> QED
    BY <1>2, <2>2, <2>3 DEF FromStatusLine, new
<1> QED
  BY <1>1, <1>2

LEMMA LifeTyped ==
    ASSUME Typed, Life
    PROVE  AgentTyped
<1> USE DEF Typed
<1>1. /\ agent \in Agent /\ agent.vendor \in {"claude", "pi"} /\ MessagesOK
      /\ lines \in 0 .. MaxLines
  BY DEF TypeOK, Agent
<1>2. \A changed : Becomes(changed) => agent' = changed /\ UNCHANGED <<session, lines, missed>>
  BY DEF Becomes
<1>3. CASE StartAgent
  <2>1. hooks' \in Seq(Message) /\ Len(hooks') <= MaxInFlight
    BY <1>1, <1>3, SayTyped DEF StartAgent, ClaudeNames, PiNames
  <2> QED
    BY <1>1, <1>3, <2>1 DEF StartAgent, Becomes, AgentTyped, Agent
<1>4. CASE Clear
  <2>1. <<Hook("SessionEnd", NoTool, "other"), Hook("SessionStart", NoTool, "other")>>
           \in Seq(Message)
    BY DEF Hook, Message, ClaudeNames, PiNames, Kinds, NotificationKinds
  <2>2. hooks' \in Seq(Message) /\ Len(hooks') <= MaxInFlight
    BY <1>1, <1>4, <2>1, SendTyped DEF Clear
  <2> QED
    BY <1>1, <1>4, <2>2 DEF Clear, Becomes, AgentTyped, Agent
<1>5. CASE SetUp
  <2>1. hooks' \in Seq(Message) /\ Len(hooks') <= MaxInFlight
    BY <1>1, <1>5, SayTyped DEF SetUp, ClaudeNames, PiNames
  <2> QED
    BY <1>1, <1>5, <2>1 DEF SetUp, Becomes, AgentTyped
<1>6. CASE Prompt
  <2>1. <<Hook("input", NoTool, "interactive"), Hook("agent_start", NoTool, "other")>>
           \in Seq(Message)
    BY DEF Hook, Message, ClaudeNames, PiNames, Kinds, NotificationKinds
  <2>2. hooks' \in Seq(Message) /\ Len(hooks') <= MaxInFlight
    BY <1>1, <1>6, <2>1, SendTyped, SayTyped DEF Prompt, ClaudeNames, PiNames
  <2> QED
    BY <1>1, <1>6, <2>2 DEF Prompt, Becomes, AgentTyped, Agent
<1>7. CASE EndTurn
  <2>1. hooks' \in Seq(Message) /\ Len(hooks') <= MaxInFlight
    BY <1>1, <1>7, SayTyped DEF EndTurn, ClaudeNames, PiNames
  <2> QED
    BY <1>1, <1>7, <2>1 DEF EndTurn, Becomes, AgentTyped, Agent
<1>8. CASE Interrupt
  BY <1>1, <1>8 DEF Interrupt, Becomes, AgentTyped, Agent, TypeOK, MessagesOK
<1>9. CASE IdlePrompt
  <2>1. <<Hook("Notification", NoTool, "idle_prompt")>> \in Seq(Message)
    BY DEF Hook, Message, ClaudeNames, PiNames, Kinds, NotificationKinds
  <2>2. hooks' \in Seq(Message) /\ Len(hooks') <= MaxInFlight
    BY <1>1, <1>9, <2>1, SendTyped DEF IdlePrompt
  <2> QED
    BY <1>1, <1>9, <2>2 DEF IdlePrompt, Becomes, AgentTyped, Agent
<1>10. CASE QuitAgent
  <2>1. hooks' \in Seq(Message) /\ Len(hooks') <= MaxInFlight
    BY <1>1, <1>10, SayTyped DEF QuitAgent, MessagesOK, TypeOK, ClaudeNames, PiNames
  <2> QED
    BY <1>1, <1>10, <2>1 DEF QuitAgent, Becomes, AgentTyped, Agent
<1> QED
  BY <1>3, <1>4, <1>5, <1>6, <1>7, <1>8, <1>9, <1>10 DEF Life

LEMMA WorkTyped ==
    ASSUME Typed, Work
    PROVE  AgentTyped
<1> USE DEF Typed
<1>1. /\ agent \in Agent /\ MessagesOK /\ lines \in 0 .. MaxLines
      /\ agent.running \subseteq Tools /\ agent.asking \subseteq Tools
  BY DEF TypeOK, Agent
<1>2. ASSUME NEW t \in Tools, CallTool(t)
      PROVE  AgentTyped
  <2>1. hooks' \in Seq(Message) /\ Len(hooks') <= MaxInFlight
    BY <1>1, <1>2, SayTyped DEF CallTool, ClaudeNames, PiNames
  <2> QED
    BY <1>1, <1>2, <2>1 DEF CallTool, Becomes, AgentTyped, Agent
<1>3. ASSUME NEW t \in Tools, AskPermission(t)
      PROVE  AgentTyped
  <2>1. <<Hook("Notification", NoTool, "permission_prompt")>> \in Seq(Message)
    BY DEF Hook, Message, ClaudeNames, PiNames, Kinds, NotificationKinds
  <2>2. hooks' \in Seq(Message) /\ Len(hooks') <= MaxInFlight
    BY <1>1, <1>3, <2>1, SendTyped, SayTyped DEF AskPermission, ClaudeNames, PiNames
  <2> QED
    BY <1>1, <1>3, <2>2 DEF AskPermission, Becomes, AgentTyped, Agent
<1>4. ASSUME NEW t \in Tools, Approve(t)
      PROVE  AgentTyped
  <2>1. hooks' \in Seq(Message) /\ Len(hooks') <= MaxInFlight
    BY <1>1, <1>4, SayTyped DEF Approve, MessagesOK, TypeOK, ClaudeNames, PiNames
  <2> QED
    BY <1>1, <1>4, <2>1 DEF Approve, Becomes, AgentTyped, Agent
<1>5. ASSUME NEW t \in Tools, ToolEnds(t)
      PROVE  AgentTyped
  <2>1. hooks' \in Seq(Message) /\ Len(hooks') <= MaxInFlight
    BY <1>1, <1>5, SayTyped DEF ToolEnds, ClaudeNames, PiNames
  <2> QED
    BY <1>1, <1>5, <2>1 DEF ToolEnds, Becomes, AgentTyped, Agent
<1>6. CASE Interlude
  <2>1. hooks' \in Seq(Message) /\ Len(hooks') <= MaxInFlight
    BY <1>1, <1>6, SayTyped DEF Interlude, ClaudeNames, PiNames
  <2> QED
    BY <1>1, <1>6, <2>1 DEF Interlude, Becomes, AgentTyped
<1>7. CASE Chatter
  <2>1. hooks' \in Seq(Message) /\ Len(hooks') <= MaxInFlight
    <3>1. ASSUME NEW m \in {Hook("Notification", NoTool, "info"),
                            Hook("PreToolUse", NoTool, "other"),
                            Hook("LaterHook", NoTool, "other"),
                            Hook("context", NoTool, "usage"), Hook("context", NoTool, "empty"),
                            Hook("input", NoTool, "extension"),
                            Hook("model_select", NoTool, "other")},
                 Send(<<m>>)
          PROVE  hooks' \in Seq(Message) /\ Len(hooks') <= MaxInFlight
      <4>1. m \in Message
        BY DEF Hook, Message, ClaudeNames, PiNames, Kinds, NotificationKinds
      <4>2. <<m>> \in Seq(Message)
        BY <4>1
      <4> QED
        BY <1>1, <3>1, <4>2, SendTyped
    <3>2. ASSUME NEW t \in Busy, NEW name \in {"tool_execution_start", "tool_result"},
                 ~Claude, Say("", name, t)
          PROVE  hooks' \in Seq(Message) /\ Len(hooks') <= MaxInFlight
      <4>1. t \in Tools /\ name \in PiNames
        BY <1>1 DEF Busy, PiNames
      <4> QED
        BY <1>1, <3>2, <4>1, SayTyped
    <3> QED
      BY <1>7, <3>1, <3>2 DEF Chatter
  <2> QED
    BY <1>1, <1>7, <2>1 DEF Chatter, Becomes, AgentTyped
<1>8. CASE SendStatusLine
  BY <1>1, <1>8, StatusAssumption DEF SendStatusLine, AgentTyped, TypeOK, MessagesOK
<1> QED
  BY <1>2, <1>3, <1>4, <1>5, <1>6, <1>7, <1>8 DEF Work

LEMMA DaemonTyped ==
    ASSUME Typed, Daemon
    PROVE  Typed'
<1> USE DEF Typed
<1>1. MessagesOK /\ Len(hooks) <= MaxInFlight /\ session \in Session \union {NoSession}
  BY DEF TypeOK
<1>2. ASSUME hooks # <<>>, hooks' = Tail(hooks)
      PROVE  /\ Head(hooks) \in Message /\ hooks' \in Seq(Message)
             /\ Len(hooks') <= MaxInFlight
  <2>1. Len(hooks) \in Nat /\ Len(Tail(hooks)) = Len(hooks) - 1
    BY <1>1, <1>2 DEF MessagesOK
  <2> QED
    BY <1>1, <1>2, <2>1, StatusAssumption DEF MessagesOK
<1>3. CASE DeliverHook
  <2>1. Head(hooks) \in Message /\ hooks' \in Seq(Message) /\ Len(hooks') <= MaxInFlight
    BY <1>2, <1>3 DEF DeliverHook
  <2>2. /\ session' \in Session \union {NoSession} /\ missed' \in BOOLEAN
        /\ session' # NoSession => Recorded(session')
    <3>1. CASE UNCHANGED <<session, missed>>
      BY <3>1 DEF TypeOK, Recorded
    <3>2. ASSUME NEW e \in Translate(Head(hooks)), session' = Heard(session, e),
                 missed' = (missed /\ ~IsStarting(e) /\ ~IsTerminalForTurn(e))
          PROVE  /\ session' \in Session \union {NoSession} /\ missed' \in BOOLEAN
                 /\ session' # NoSession => Recorded(session')
      <4>1. e \in WellFormed
        BY <2>1, TranslateWellFormed
      <4>2. missed' \in BOOLEAN
        BY <3>2 DEF TypeOK
      <4> QED
        BY <3>2, <4>1, <4>2, HeardTyped
    <3> QED
      BY <1>3, <3>1, <3>2 DEF DeliverHook
  <2> QED
    BY <1>3, <2>1, <2>2 DEF DeliverHook, TypeOK, MessagesOK, Recorded
<1>4. CASE LoseHook
  <2>1. hooks' \in Seq(Message) /\ Len(hooks') <= MaxInFlight
    BY <1>2, <1>4 DEF LoseHook
  <2> QED
    BY <1>4, <2>1 DEF LoseHook, TypeOK, MessagesOK, Recorded
<1>5. CASE DeliverStatusLine
  <2>1. session' \in Session /\ Recorded(session')
    BY <1>5, StatusLineTyped DEF DeliverStatusLine
  <2>2. lines' \in 0 .. MaxLines
    BY <1>5, StatusAssumption DEF DeliverStatusLine, TypeOK
  <2> QED
    BY <1>5, <2>1, <2>2 DEF DeliverStatusLine, TypeOK, MessagesOK, Recorded
<1>6. CASE LoseStatusLine
  BY <1>6, StatusAssumption DEF LoseStatusLine, TypeOK, MessagesOK, Recorded
<1>7. CASE RestartDaemon
  BY <1>7 DEF RestartDaemon, TypeOK, MessagesOK
<1>8. CASE Discover
  <2>1. Recorded(NewSession)
    BY DEF Recorded, NewSession, NoActivity, UsingTool
  <2> QED
    BY <1>8, <2>1, NewSessionTyped DEF Discover, TypeOK, MessagesOK, Recorded
<1>9. CASE CleanupStale
  BY <1>9 DEF CleanupStale, TypeOK, MessagesOK
<1> QED
  BY <1>3, <1>4, <1>5, <1>6, <1>7, <1>8, <1>9 DEF Daemon

LEMMA TypedInv == Spec => []Typed
<1>1. Init => Typed
  <2> SUFFICES ASSUME Init
               PROVE  Typed
    OBVIOUS
  <2>1. agent \in Agent
    <3>1. PICK v \in {"claude", "pi"} :
             agent = [vendor |-> v, phase |-> "off", running |-> {}, asking |-> {},
                      silent |-> FALSE, reminded |-> FALSE]
      BY DEF Init
    <3> QED
      BY <3>1 DEF Agent
  <2>2. hooks \in Seq(Message) /\ Len(hooks) <= MaxInFlight /\ lines \in 0 .. MaxLines
    BY StatusAssumption DEF Init
  <2> QED
    BY <2>1, <2>2 DEF Init, Typed, TypeOK, MessagesOK
<1>2. Typed /\ [Next]_vars => Typed'
  <2> SUFFICES ASSUME Typed, [Next]_vars
               PROVE  Typed'
    OBVIOUS
  <2>1. CASE Life \/ Work
    <3>1. AgentTyped
      BY <2>1, LifeTyped, WorkTyped
    <3> QED
      BY <3>1 DEF AgentTyped, Typed, TypeOK, MessagesOK, Recorded
  <2>2. CASE Daemon
    BY <2>2, DaemonTyped
  <2>3. CASE UNCHANGED vars
    BY <2>3 DEF vars, Typed, TypeOK, MessagesOK, Recorded
  <2> QED
    BY <2>1, <2>2, <2>3 DEF Next
<1> QED
  BY <1>1, <1>2, PTL DEF Spec

\* The variables stay within their types and the tool history within its bound,
\* whatever is lost, repeated or overtaken: record_tool_use drops the oldest.
THEOREM StatusTyped == Spec => []TypeOK
BY TypedInv, PTL DEF Typed

\* A session is shown to use only the tool that its history ends with.
THEOREM ActivityIsRecorded == Spec => []ActivityRecorded
<1>1. Typed => ActivityRecorded
  BY DEF Typed, Recorded, ActivityRecorded
<1> QED
  BY <1>1, TypedInv, PTL

-----------------------------------------------------------------------------
(* The agent's tools *)

LEMMA AgentInv == Spec => []AgentOK
<1>1. Init => AgentOK
  BY DEF Init, AgentOK, Busy
<1>2. Typed /\ AgentOK /\ [Next]_vars => AgentOK'
  <2> SUFFICES ASSUME Typed, AgentOK, [Next]_vars
               PROVE  AgentOK'
    OBVIOUS
  <2>1. agent \in Agent
    BY DEF Typed, TypeOK
  <2>2. ASSUME NEW t \in Tools, CallTool(t) \/ AskPermission(t) \/ Approve(t) \/ ToolEnds(t)
        PROVE  AgentOK'
    <3>1. agent.phase = "working"
      BY <2>2 DEF CallTool, AskPermission, Approve, ToolEnds, AgentOK, Busy
    <3>2. agent'.phase = agent.phase
      BY <2>1, <2>2 DEF CallTool, AskPermission, Approve, ToolEnds, Becomes, Agent
    <3>3. CASE CallTool(t)
      <4>1. /\ t \notin Busy /\ (Parallel \/ Busy = {})
            /\ \/ agent'.running = agent.running /\ agent'.asking = agent.asking \union {t}
               \/ agent'.asking = agent.asking /\ agent'.running = agent.running \union {t}
        BY <2>1, <3>3 DEF CallTool, Becomes, Agent
      <4> QED
        BY <3>1, <3>2, <4>1 DEF AgentOK, Busy
    <3>4. CASE AskPermission(t)
      <4>1. /\ t \in agent.running /\ agent'.running = agent.running \ {t}
            /\ agent'.asking = agent.asking \union {t}
        BY <2>1, <3>4 DEF AskPermission, Becomes, Agent
      <4> QED
        BY <3>1, <3>2, <4>1 DEF AgentOK, Busy
    <3>5. CASE Approve(t)
      <4>1. /\ t \in agent.asking /\ agent'.asking = agent.asking \ {t}
            /\ agent'.running = agent.running \union {t}
        BY <2>1, <3>5 DEF Approve, Becomes, Agent
      <4> QED
        BY <3>1, <3>2, <4>1 DEF AgentOK, Busy
    <3>6. CASE ToolEnds(t)
      <4>1. agent'.running = agent.running \ {t} /\ agent'.asking = agent.asking
        BY <2>1, <3>6 DEF ToolEnds, Becomes, Agent
      <4> QED
        BY <3>1, <3>2, <4>1 DEF AgentOK, Busy
    <3> QED
      BY <2>2, <3>3, <3>4, <3>5, <3>6
  <2>3. CASE Life
    <3>1. CASE StartAgent \/ Clear \/ SetUp \/ EndTurn \/ IdlePrompt \/ Prompt
      <4>1. /\ agent'.running = agent.running /\ agent'.asking = agent.asking
            /\ Busy = {} \/ agent'.phase = agent.phase
        BY <2>1, <3>1
        DEF StartAgent, Clear, SetUp, EndTurn, IdlePrompt, Prompt, Becomes, Agent, AgentOK
      <4> QED
        BY <4>1 DEF AgentOK, Busy
    <3>2. CASE Interrupt \/ QuitAgent
      <4>1. agent'.running = {} /\ agent'.asking = {}
        BY <2>1, <3>2 DEF Interrupt, QuitAgent, Becomes, Agent
      <4> QED
        BY <4>1 DEF AgentOK, Busy
    <3> QED
      BY <2>3, <3>1, <3>2 DEF Life
  <2>4. CASE Interlude \/ Chatter \/ SendStatusLine \/ Daemon \/ UNCHANGED vars
    <3>1. agent' = agent
      BY <2>4
      DEF Interlude, Chatter, SendStatusLine, Becomes, Daemon, DeliverHook, LoseHook,
          DeliverStatusLine, LoseStatusLine, RestartDaemon, Discover, CleanupStale, vars
    <3> QED
      BY <3>1 DEF AgentOK, Busy
  <2> QED
    BY <2>2, <2>3, <2>4 DEF Next, Work
<1> QED
  BY <1>1, <1>2, TypedInv, PTL DEF Spec

-----------------------------------------------------------------------------
(* What messages say of the status *)

LEMMA AtMostOneEvent ==
    ASSUME NEW m, NEW d \in Translate(m), NEW e \in Translate(m)
    PROVE  d = e
BY DEF Translate, FromClaude, FromPi

\* A status that the last of new messages makes right is right in the end.
LEMMA SaidRight ==
    ASSUME MessagesOK, NEW ms \in Seq(Message), ms # <<>>, hooks' = hooks \o ms,
           NEW e, Speech(agent'.vendor, ms[Len(ms)]) = {e},
           e.type # "SessionEnd", Right(agent', StatusOf[e.type])
    PROVE  QuietInv'
<1> DEFINE n == Len(hooks) + Len(ms)
           queue == hooks'
           v == agent'.vendor
<1>1. /\ Len(hooks) \in Nat /\ Len(ms) \in Nat \ {0} /\ DOMAIN queue = 1 .. n
      /\ queue[n] = ms[Len(ms)] /\ n \in 1 .. n
  BY DEF MessagesOK
<1> HIDE DEF n, queue, v
<1>2. Speech(v, queue[n]) = {e}
  BY <1>1 DEF v
<1>3. ASSUME NEW i \in DOMAIN queue, LastWord(v, queue, i)
      PROVE  i = n
  <2>1. n \in DOMAIN queue /\ Speech(v, queue[n]) # {}
    BY <1>1, <1>2
  <2>2. n <= i
    BY <1>3, <2>1 DEF LastWord
  <2>3. i \in 1 .. n /\ n \in Int
    BY <1>1
  <2> QED
    BY <2>2, <2>3
<1> QED
  BY <1>1, <1>2, <1>3 DEF QuietInv, queue, v

\* Messages that say nothing of the status leave it to those before them.
LEMMA SaidNothing ==
    ASSUME MessagesOK, QuietInv, NEW ms \in Seq(Message), hooks' = hooks \o ms,
           \A i \in DOMAIN ms : Speech(agent.vendor, ms[i]) = {},
           agent'.vendor = agent.vendor, agent'.silent = agent.silent,
           agent'.phase # "off" => agent.phase # "off",
           \A status : Right(agent, status) => Right(agent', status),
           UNCHANGED <<session, missed>>
    PROVE  QuietInv'
<1> DEFINE queue == hooks'
           v == agent.vendor
<1>1. /\ Len(hooks) \in Nat /\ Len(ms) \in Nat
      /\ DOMAIN hooks = 1 .. Len(hooks) /\ DOMAIN queue = 1 .. Len(hooks) + Len(ms)
      /\ \A i \in 1 .. Len(hooks) : queue[i] = hooks[i]
  BY DEF MessagesOK
<1>2. \A i \in 1 .. Len(hooks) + Len(ms) : i > Len(hooks) =>
           i - Len(hooks) \in DOMAIN ms /\ queue[i] = ms[i - Len(hooks)]
  BY <1>1 DEF MessagesOK
<1> HIDE DEF queue, v
<1>3. \A i \in DOMAIN queue : Speech(v, queue[i]) # {} => i \in DOMAIN hooks
  BY <1>1, <1>2 DEF v
<1>4. \A i \in DOMAIN hooks : i \in DOMAIN queue /\ queue[i] = hooks[i]
  BY <1>1
<1>5. \A i \in DOMAIN queue : LastWord(v, queue, i) =>
           i \in DOMAIN hooks /\ LastWord(v, hooks, i)
  BY <1>3, <1>4 DEF LastWord
<1>6. ASSUME agent'.phase # "off", ~agent'.silent,
             NEW i \in DOMAIN queue, LastWord(v, queue, i), NEW e \in Speech(v, queue[i])
      PROVE  e.type # "SessionEnd" /\ Right(agent', StatusOf[e.type])
  <2>1. i \in DOMAIN hooks /\ LastWord(v, hooks, i) /\ e \in Speech(v, hooks[i])
    BY <1>4, <1>5, <1>6
  <2> QED
    BY <1>6, <2>1 DEF QuietInv, v
<1>7. ASSUME agent'.phase # "off", ~agent'.silent, ~missed',
             \A i \in DOMAIN queue : Speech(v, queue[i]) = {}
      PROVE  session' # NoSession /\ Right(agent', session'.status)
  <2>1. \A i \in DOMAIN hooks : Speech(v, hooks[i]) = {}
    BY <1>4, <1>7
  <2> QED
    BY <1>7, <2>1 DEF QuietInv, v
<1> QED
  BY <1>6, <1>7 DEF QuietInv, queue, v

\* The first message leaves: what was said last is said last of the others.
LEMMA FirstGone ==
    ASSUME NEW queue \in Seq(Message), queue # <<>>, NEW v
    PROVE  /\ \A i \in DOMAIN Tail(queue) : LastWord(v, Tail(queue), i) =>
                 /\ i + 1 \in DOMAIN queue /\ LastWord(v, queue, i + 1)
                 /\ Tail(queue)[i] = queue[i + 1]
           /\ (\A i \in DOMAIN Tail(queue) : Speech(v, Tail(queue)[i]) = {}) =>
                 \A i \in DOMAIN queue : Speech(v, queue[i]) # {} => i = 1
           /\ 1 \in DOMAIN queue /\ Head(queue) = queue[1]
<1> DEFINE rest == Tail(queue)
<1>1. /\ Len(queue) \in Nat \ {0} /\ DOMAIN queue = 1 .. Len(queue)
      /\ DOMAIN rest = 1 .. Len(queue) - 1
      /\ \A i \in DOMAIN rest : rest[i] = queue[i + 1]
      /\ Head(queue) = queue[1]
  OBVIOUS
<1> HIDE DEF rest
<1>2. \A j \in DOMAIN queue : j # 1 => j - 1 \in DOMAIN rest /\ rest[j - 1] = queue[j]
  BY <1>1
<1>3. ASSUME NEW i \in DOMAIN rest, LastWord(v, rest, i)
      PROVE  i + 1 \in DOMAIN queue /\ LastWord(v, queue, i + 1)
  <2>1. i + 1 \in DOMAIN queue /\ i \in Nat
    BY <1>1
  <2>2. ASSUME NEW j \in DOMAIN queue, Speech(v, queue[j]) # {}
        PROVE  j <= i + 1
    <3>1. CASE j = 1
      BY <2>1, <3>1
    <3>2. CASE j # 1
      <4>1. j - 1 <= i
        BY <1>2, <1>3, <2>2, <3>2 DEF LastWord
      <4> QED
        BY <1>1, <2>1, <4>1
    <3> QED
      BY <3>1, <3>2
  <2> QED
    BY <1>1, <1>3, <2>1, <2>2 DEF LastWord
<1>4. (\A i \in DOMAIN rest : Speech(v, rest[i]) = {}) =>
           \A i \in DOMAIN queue : Speech(v, queue[i]) # {} => i = 1
  BY <1>2
<1>5. 1 \in DOMAIN queue
  BY <1>1
<1> QED
  BY <1>1, <1>3, <1>4, <1>5 DEF rest

\* Say of one vendor: the event its word stands for makes the status right.
LEMMA SaidOneRight ==
    ASSUME MessagesOK, NEW m \in Message, Send(<<m>>), NEW e,
           Speech(agent'.vendor, m) = {e},
           e.type # "SessionEnd", Right(agent', StatusOf[e.type])
    PROVE  QuietInv'
<1> DEFINE ms == <<m>>
<1>1. ms \in Seq(Message) /\ ms # <<>> /\ ms[Len(ms)] = m /\ hooks' = hooks \o ms
  BY DEF Send
<1> HIDE DEF ms
<1> QED
  BY <1>1, SaidRight

\* What the words say that begin, interrupt or end a turn.
LEMMA TurnMeanings ==
    /\ Speech("claude", Hook("SessionStart", NoTool, "other")) = {Plain("SessionStart")}
    /\ Speech("pi", Hook("session_start", NoTool, "other")) = {Plain("SessionStart")}
    /\ Speech("claude", Hook("Setup", NoTool, "other")) = {Plain("Setup")}
    /\ Speech("claude", Hook("UserPromptSubmit", NoTool, "other")) = {Plain("PromptSubmit")}
    /\ Speech("pi", Hook("agent_start", NoTool, "other")) = {Plain("WorkingStart")}
    /\ Speech("claude", Hook("Stop", NoTool, "other")) = {Plain("WorkingEnd")}
    /\ Speech("pi", Hook("agent_end", NoTool, "other")) = {Plain("WorkingEnd")}
    /\ Speech("claude", Hook("Notification", NoTool, "idle_prompt")) = {Plain("Idle")}
    /\ Speech("claude", Hook("Notification", NoTool, "permission_prompt")) = {Plain("NeedsInput")}
    /\ Speech("pi", Hook("atm_needs_input_open", NoTool, "other")) = {Plain("NeedsInput")}
    /\ Speech("pi", Hook("atm_needs_input_resolved", NoTool, "other")) = {Plain("WorkingStart")}
    /\ Speech("claude", Hook("SubagentStart", NoTool, "other")) = {Plain("ChildSessionStart")}
    /\ Speech("claude", Hook("SubagentStop", NoTool, "other")) = {Plain("ChildSessionEnd")}
    /\ Speech("claude", Hook("PreCompact", NoTool, "other")) = {Plain("ContextCompactStart")}
    /\ Speech("pi", Hook("session_before_compact", NoTool, "other"))
          = {Plain("ContextCompactStart")}
BY ToolAssumption
DEF Speech, Hook, FromClaude, FromPi, HookMeaning, PiMeaning, NotificationMeaning, ToolHooks,
    Plain, StatusOf

\* What the words say that begin or end the use of a tool.
LEMMA ToolMeanings ==
    ASSUME NEW t \in Tools
    PROVE  /\ Speech("claude", Hook("PreToolUse", t, "other")) = {PreToolUse(t)}
           /\ Speech("pi", Hook("tool_call", t, "other")) = {OfTool("ToolCallStart", t)}
           /\ Speech("claude", Hook("PostToolUse", t, "other")) = {OfTool("ToolCallEnd", t)}
           /\ Speech("claude", Hook("PostToolUseFailure", t, "other")) = {OfTool("ToolCallEnd", t)}
           /\ Speech("pi", Hook("tool_execution_end", t, "other")) = {OfTool("ToolCallEnd", t)}
           /\ Speech("pi", Hook("tool_execution_start", t, "other")) = {}
           /\ Speech("pi", Hook("tool_result", t, "other")) = {}
BY ToolAssumption
DEF Speech, Hook, FromClaude, FromPi, HookMeaning, PiMeaning, ToolHooks, PreToolUse, OfTool,
    StatusOf

\* Words that say nothing of the status.
LEMMA ChatterMeanings ==
    /\ \A m \in {Hook("Notification", NoTool, "info"), Hook("PreToolUse", NoTool, "other"),
                 Hook("LaterHook", NoTool, "other")} : Speech("claude", m) = {}
    /\ \A m \in {Hook("context", NoTool, "usage"), Hook("context", NoTool, "empty"),
                 Hook("input", NoTool, "extension"), Hook("model_select", NoTool, "other")} :
          Speech("pi", m) = {}
BY ToolAssumption
DEF Speech, Hook, FromClaude, FromPi, HookMeaning, PiMeaning, NotificationMeaning, ToolHooks,
    Plain, StatusOf

LEMMA SaidWordRight ==
    ASSUME MessagesOK, agent \in Agent, agent'.vendor = agent.vendor,
           NEW claudeName, NEW piName, NEW t \in Tools \union {NoTool},
           Say(claudeName, piName, t), NEW e,
           Claude => /\ claudeName \in ClaudeNames \ {"Notification"}
                     /\ Speech("claude", Hook(claudeName, t, "other")) = {e},
           ~Claude => piName \in PiNames /\ Speech("pi", Hook(piName, t, "other")) = {e},
           e.type # "SessionEnd", Right(agent', StatusOf[e.type])
    PROVE  QuietInv'
<1>1. CASE Claude
  <2>1. Hook(claudeName, t, "other") \in Message
    BY <1>1 DEF Message, Hook, Kinds, NotificationKinds
  <2>2. Send(<<Hook(claudeName, t, "other")>>) /\ agent'.vendor = "claude"
    BY <1>1 DEF Say, Claude
  <2> QED
    BY <1>1, <2>1, <2>2, SaidOneRight
<1>2. CASE ~Claude
  <2>1. Hook(piName, t, "other") \in Message
    BY <1>2 DEF Message, Hook, Kinds, NotificationKinds, PiNames
  <2>2. Send(<<Hook(piName, t, "other")>>) /\ agent'.vendor = "pi"
    BY <1>2 DEF Say, Claude, Agent
  <2> QED
    BY <1>2, <2>1, <2>2, SaidOneRight
<1> QED
  BY <1>1, <1>2

-----------------------------------------------------------------------------
(* What is shown of a quiet agent *)

QuietTyped == Typed /\ AgentOK

LEMMA LifeQuiet ==
    ASSUME QuietTyped, QuietInv, Life
    PROVE  QuietInv'
<1>1. agent \in Agent /\ MessagesOK /\ agent.vendor \in {"claude", "pi"}
  BY DEF QuietTyped, Typed, TypeOK, Agent
<1>2. agent.phase = "idle" => agent.running = {} /\ agent.asking = {}
  BY DEF QuietTyped, AgentOK, Busy
<1> USE DEF ClaudeNames, PiNames
<1>3. CASE StartAgent
  <2> DEFINE e == Plain("SessionStart")
  <2>1. agent'.vendor = agent.vendor /\ agent'.phase = "idle" /\ agent'.asking = {}
    BY <1>1, <1>3 DEF StartAgent, Becomes, Agent, QuietTyped, AgentOK, Busy
  <2>2. e.type # "SessionEnd" /\ Right(agent', StatusOf[e.type])
    BY <2>1 DEF Plain, StatusOf, Right
  <2> HIDE DEF e
  <2> QED
    BY <1>1, <1>3, <2>1, <2>2, SaidWordRight, TurnMeanings DEF StartAgent, e
<1>4. CASE Clear
  <2> DEFINE first == Hook("SessionEnd", NoTool, "other")
             last == Hook("SessionStart", NoTool, "other")
             ms == <<first, last>>
             e == Plain("SessionStart")
  <2>1. agent'.vendor = "claude" /\ agent'.phase = "idle" /\ agent'.asking = {}
    BY <1>1, <1>2, <1>4 DEF Clear, Claude, Becomes, Agent
  <2>2. e.type # "SessionEnd" /\ Right(agent', StatusOf[e.type])
    BY <2>1 DEF Plain, StatusOf, Right
  <2>3. first \in Message /\ last \in Message
    BY DEF Hook, Message, Kinds, NotificationKinds
  <2>4. hooks' = hooks \o ms
    BY <1>4 DEF Clear, Send
  <2>5. Speech(agent'.vendor, last) = {e}
    BY <2>1, TurnMeanings
  <2> HIDE DEF first, last, e
  <2>6. ms \in Seq(Message) /\ ms # <<>> /\ ms[Len(ms)] = last
    BY <2>3
  <2> HIDE DEF ms
  <2> QED
    BY <1>1, <2>2, <2>4, <2>5, <2>6, SaidRight
<1>5. CASE SetUp
  <2> DEFINE e == Plain("Setup")
  <2>1. agent' = agent /\ Claude /\ agent.phase = "working" /\ agent.asking = {}
    BY <1>1, <1>5 DEF SetUp, Becomes, Busy
  <2>2. e.type # "SessionEnd" /\ Right(agent', StatusOf[e.type])
    BY <2>1 DEF Plain, StatusOf, Right
  <2>3. "Setup" \in ClaudeNames /\ Speech("claude", Hook("Setup", NoTool, "other")) = {e}
    BY TurnMeanings
  <2> HIDE DEF e
  <2> QED
    BY <1>1, <1>5, <2>1, <2>2, <2>3, SaidWordRight DEF SetUp
<1>6. CASE Prompt
  <2>1. /\ agent'.vendor = agent.vendor /\ agent'.phase = "working"
        /\ agent'.asking = {} /\ agent'.running = {}
    BY <1>1, <1>2, <1>6 DEF Prompt, Becomes, Agent
  <2>2. Right(agent', "Working")
    BY <2>1 DEF Right
  <2>3. CASE Claude
    <3> DEFINE e == Plain("PromptSubmit")
    <3>1. e.type # "SessionEnd" /\ Right(agent', StatusOf[e.type])
      BY <2>2 DEF Plain, StatusOf
    <3>2. Speech("claude", Hook("UserPromptSubmit", NoTool, "other")) = {e}
      BY TurnMeanings
    <3>3. Say("UserPromptSubmit", "", NoTool)
      BY <1>6, <2>3 DEF Prompt
    <3> HIDE DEF e
    <3> QED
      BY <1>1, <2>1, <2>3, <3>1, <3>2, <3>3, SaidWordRight
  <2>4. CASE ~Claude
    <3> DEFINE first == Hook("input", NoTool, "interactive")
               last == Hook("agent_start", NoTool, "other")
               ms == <<first, last>>
               e == Plain("WorkingStart")
    <3>1. e.type # "SessionEnd" /\ Right(agent', StatusOf[e.type])
      BY <2>2 DEF Plain, StatusOf
    <3>2. first \in Message /\ last \in Message
      BY DEF Hook, Message, Kinds, NotificationKinds
    <3>3. hooks' = hooks \o ms
      BY <1>6, <2>4 DEF Prompt, Send
    <3>4. Speech(agent'.vendor, last) = {e}
      BY <1>1, <2>1, <2>4, TurnMeanings DEF Claude
    <3> HIDE DEF first, last, e
    <3>5. ms \in Seq(Message) /\ ms # <<>> /\ ms[Len(ms)] = last
      BY <3>2
    <3> HIDE DEF ms
    <3> QED
      BY <1>1, <3>1, <3>3, <3>4, <3>5, SaidRight
  <2> QED
    BY <2>3, <2>4
<1>7. CASE EndTurn
  <2> DEFINE e == Plain("WorkingEnd")
  <2>1. agent'.vendor = agent.vendor /\ agent'.phase = "idle" /\ agent'.asking = {}
    BY <1>1, <1>7 DEF EndTurn, Becomes, Agent, Busy
  <2>2. e.type # "SessionEnd" /\ Right(agent', StatusOf[e.type])
    BY <2>1 DEF Plain, StatusOf, Right
  <2> HIDE DEF e
  <2> QED
    BY <1>1, <1>7, <2>1, <2>2, SaidWordRight, TurnMeanings DEF EndTurn, e
<1>8. CASE IdlePrompt
  <2> DEFINE m == Hook("Notification", NoTool, "idle_prompt")
             e == Plain("Idle")
  <2>1. agent'.vendor = "claude" /\ agent'.phase = "idle" /\ agent'.asking = {}
    BY <1>1, <1>2, <1>8 DEF IdlePrompt, Claude, Becomes, Agent
  <2>2. e.type # "SessionEnd" /\ Right(agent', StatusOf[e.type])
    BY <2>1 DEF Plain, StatusOf, Right
  <2>3. m \in Message
    BY DEF Hook, Message, Kinds, NotificationKinds
  <2>4. Send(<<m>>)
    BY <1>8 DEF IdlePrompt
  <2>5. Speech(agent'.vendor, m) = {e}
    BY <2>1, TurnMeanings
  <2> HIDE DEF m, e
  <2> QED
    BY <1>1, <2>2, <2>3, <2>4, <2>5, SaidOneRight
<1>9. CASE Interrupt \/ QuitAgent
  <2>1. agent'.silent
    BY <1>1, <1>9 DEF Interrupt, QuitAgent, Becomes, Agent
  <2> QED
    BY <2>1 DEF QuietInv
<1> QED
  BY <1>3, <1>4, <1>5, <1>6, <1>7, <1>8, <1>9 DEF Life

LEMMA WorkQuiet ==
    ASSUME QuietTyped, QuietInv, ~Parallel, Work
    PROVE  QuietInv'
<1>1. agent \in Agent /\ MessagesOK /\ agent.vendor \in {"claude", "pi"}
  BY DEF QuietTyped, Typed, TypeOK, Agent
<1>2. /\ agent.phase # "working" => agent.running = {} /\ agent.asking = {}
      /\ agent.running \subseteq Tools /\ agent.asking \subseteq Tools
      /\ agent.running \intersect agent.asking = {}
      /\ \A s, t \in agent.running \union agent.asking : s = t
  BY <1>1 DEF QuietTyped, AgentOK, Busy, Agent
<1> USE DEF ClaudeNames, PiNames
<1>3. ASSUME NEW t \in Tools, CallTool(t)
      PROVE  QuietInv'
  <2>1. /\ agent'.vendor = agent.vendor /\ agent'.phase = "working"
        /\ agent.running = {} /\ agent.asking = {}
        /\ IF Claude /\ t \in InteractiveTools
           THEN agent'.asking = {t} /\ agent'.running = {}
           ELSE agent'.asking = {} /\ agent'.running = {t}
    BY <1>1, <1>3 DEF CallTool, Becomes, Agent, Busy
  <2> DEFINE e == IF Claude THEN PreToolUse(t) ELSE OfTool("ToolCallStart", t)
  <2>2. e.type # "SessionEnd" /\ Right(agent', StatusOf[e.type])
    BY <2>1 DEF PreToolUse, OfTool, StatusOf, Right
  <2> HIDE DEF e
  <2> QED
    BY <1>1, <1>3, <2>1, <2>2, SaidWordRight, ToolMeanings DEF CallTool, e
<1>4. ASSUME NEW t \in Tools, AskPermission(t)
      PROVE  QuietInv'
  <2> DEFINE e == Plain("NeedsInput")
  <2>1. /\ agent'.vendor = agent.vendor /\ agent'.phase = "working" /\ t \in agent'.asking
    BY <1>1, <1>2, <1>4 DEF AskPermission, Becomes, Agent
  <2>2. e.type # "SessionEnd" /\ Right(agent', StatusOf[e.type])
    BY <2>1 DEF Plain, StatusOf, Right
  <2> HIDE DEF e
  <2>3. CASE Claude
    <3> DEFINE m == Hook("Notification", NoTool, "permission_prompt")
    <3>1. m \in Message
      BY DEF Hook, Message, Kinds, NotificationKinds
    <3>2. Speech(agent'.vendor, m) = {e} /\ Send(<<m>>)
      BY <1>4, <2>1, <2>3, TurnMeanings DEF e, Claude, AskPermission
    <3> HIDE DEF m
    <3> QED
      BY <1>1, <2>2, <3>1, <3>2, SaidOneRight
  <2>4. CASE ~Claude
    <3>1. Speech("pi", Hook("atm_needs_input_open", NoTool, "other")) = {e}
      BY TurnMeanings DEF e
    <3>2. Say("", "atm_needs_input_open", NoTool)
      BY <1>4, <2>4 DEF AskPermission
    <3> QED
      BY <1>1, <2>1, <2>2, <2>4, <3>1, <3>2, SaidWordRight
  <2> QED
    BY <2>3, <2>4
<1>5. ASSUME NEW t \in Tools, Approve(t)
      PROVE  QuietInv'
  <2>1. /\ agent'.vendor = agent.vendor /\ agent'.phase = agent.phase
        /\ agent'.silent = agent.silent /\ agent.phase = "working" /\ t \in agent.asking
        /\ agent'.asking = {} /\ t \in agent'.running
    BY <1>1, <1>2, <1>5 DEF Approve, Becomes, Agent
  <2>2. \A status : Right(agent', status)
    BY <2>1 DEF Right
  <2>3. CASE Claude
    <3> DEFINE ms == <<>>
    <3>1. ms \in Seq(Message) /\ DOMAIN ms = {} /\ hooks' = hooks \o ms
      BY <1>1, <1>5, <2>3 DEF Approve, MessagesOK
    <3>2. UNCHANGED <<session, missed>>
      BY <1>5 DEF Approve, Becomes
    <3> HIDE DEF ms
    <3> QED
      BY <1>1, <2>1, <2>2, <3>1, <3>2, SaidNothing
  <2>4. CASE ~Claude
    <3> DEFINE e == Plain("WorkingStart")
    <3>1. e.type # "SessionEnd" /\ Right(agent', StatusOf[e.type])
      BY <2>2 DEF Plain
    <3>2. Speech("pi", Hook("atm_needs_input_resolved", NoTool, "other")) = {e}
      BY TurnMeanings
    <3>3. Say("", "atm_needs_input_resolved", NoTool)
      BY <1>5, <2>4 DEF Approve
    <3> HIDE DEF e
    <3> QED
      BY <1>1, <2>1, <2>4, <3>1, <3>2, <3>3, SaidWordRight
  <2> QED
    BY <2>3, <2>4
<1>6. ASSUME NEW t \in Tools, ToolEnds(t)
      PROVE  QuietInv'
  <2> DEFINE e == OfTool("ToolCallEnd", t)
  <2>1. /\ agent'.vendor = agent.vendor /\ agent'.phase = "working" /\ agent'.asking = {}
    <3>1. t \in agent.running
      BY <1>6 DEF ToolEnds
    <3>2. agent.asking = {} /\ agent.phase = "working"
      BY <1>2, <3>1
    <3>3. agent' = [agent EXCEPT !.running = @ \ {t}]
      BY <1>6 DEF ToolEnds, Becomes
    <3> QED
      BY <1>1, <3>2, <3>3 DEF Agent
  <2>2. e.type # "SessionEnd" /\ Right(agent', StatusOf[e.type])
    BY <2>1 DEF OfTool, StatusOf, Right
  <2> HIDE DEF e
  <2>3. /\ Speech("claude", Hook("PostToolUse", t, "other")) = {e}
        /\ Speech("claude", Hook("PostToolUseFailure", t, "other")) = {e}
        /\ Speech("pi", Hook("tool_execution_end", t, "other")) = {e}
    BY ToolMeanings DEF e
  <2>4. CASE Say("PostToolUse", "tool_execution_end", t)
    BY <1>1, <2>1, <2>2, <2>3, <2>4, SaidWordRight
  <2>5. CASE Claude /\ Say("PostToolUseFailure", "", t)
    BY <1>1, <2>1, <2>2, <2>3, <2>5, SaidWordRight
  <2> QED
    BY <1>6, <2>4, <2>5 DEF ToolEnds
<1>7. CASE Interlude
  <2>1. agent' = agent /\ agent.phase = "working" /\ agent.asking = {}
    BY <1>7 DEF Interlude, Becomes
  <2>2. Right(agent', "Working")
    BY <2>1 DEF Right
  <2>3. ASSUME NEW claudeName, NEW piName, Say(claudeName, piName, NoTool), NEW type,
               Claude => /\ claudeName \in ClaudeNames \ {"Notification"}
                         /\ Speech("claude", Hook(claudeName, NoTool, "other")) = {Plain(type)},
               ~Claude => /\ piName \in PiNames
                          /\ Speech("pi", Hook(piName, NoTool, "other")) = {Plain(type)},
               type \in {"ChildSessionStart", "ChildSessionEnd", "ContextCompactStart"}
        PROVE  QuietInv'
    <3> DEFINE e == Plain(type)
    <3>1. e.type # "SessionEnd" /\ Right(agent', StatusOf[e.type])
      BY <2>2, <2>3 DEF Plain, StatusOf
    <3> HIDE DEF e
    <3> QED
      BY <1>1, <2>1, <2>3, <3>1, SaidWordRight DEF e
  <2>4. CASE Claude /\ Say("SubagentStart", "", NoTool)
    BY <2>3, <2>4, TurnMeanings
  <2>5. CASE Claude /\ Say("SubagentStop", "", NoTool)
    BY <2>3, <2>5, TurnMeanings
  <2>6. CASE Say("PreCompact", "session_before_compact", NoTool)
    BY <2>3, <2>6, TurnMeanings
  <2> QED
    BY <1>7, <2>4, <2>5, <2>6 DEF Interlude
<1>8. ASSUME NEW m \in Message, Send(<<m>>), Speech(agent.vendor, m) = {},
             agent' = agent, UNCHANGED <<session, missed>>
      PROVE  QuietInv'
  <2> DEFINE ms == <<m>>
  <2>1. /\ ms \in Seq(Message) /\ hooks' = hooks \o ms
        /\ \A i \in DOMAIN ms : Speech(agent.vendor, ms[i]) = {}
    BY <1>8 DEF Send
  <2> HIDE DEF ms
  <2> QED
    BY <1>1, <1>8, <2>1, SaidNothing
<1>9. CASE Chatter
  <2>1. agent' = agent /\ UNCHANGED <<session, missed>>
    BY <1>9 DEF Chatter, Becomes
  <2>2. CASE Claude /\ \E m \in {Hook("Notification", NoTool, "info"),
                                Hook("PreToolUse", NoTool, "other"),
                                Hook("LaterHook", NoTool, "other")} : Send(<<m>>)
    <3>1. PICK m \in {Hook("Notification", NoTool, "info"), Hook("PreToolUse", NoTool, "other"),
                      Hook("LaterHook", NoTool, "other")} : Send(<<m>>)
      BY <2>2
    <3>2. m \in Message
      BY DEF Hook, Message, Kinds, NotificationKinds
    <3>3. Speech(agent.vendor, m) = {}
      BY <2>2, ChatterMeanings DEF Claude
    <3> QED
      BY <1>8, <2>1, <3>1, <3>2, <3>3
  <2>3. CASE ~Claude /\ \E m \in {Hook("context", NoTool, "usage"),
                                 Hook("context", NoTool, "empty"),
                                 Hook("input", NoTool, "extension"),
                                 Hook("model_select", NoTool, "other")} : Send(<<m>>)
    <3>1. PICK m \in {Hook("context", NoTool, "usage"), Hook("context", NoTool, "empty"),
                      Hook("input", NoTool, "extension"), Hook("model_select", NoTool, "other")} :
             Send(<<m>>)
      BY <2>3
    <3>2. m \in Message
      BY DEF Hook, Message, Kinds, NotificationKinds
    <3>3. Speech(agent.vendor, m) = {}
      BY <1>1, <2>3, ChatterMeanings DEF Claude
    <3> QED
      BY <1>8, <2>1, <3>1, <3>2, <3>3
  <2>4. ASSUME NEW t \in Busy, NEW name \in {"tool_execution_start", "tool_result"},
               ~Claude, Say("", name, t)
        PROVE  QuietInv'
    <3> DEFINE m == Hook(name, t, "other")
    <3>1. t \in Tools
      BY <1>2 DEF Busy
    <3>2. m \in Message
      BY <3>1 DEF Hook, Message, Kinds, NotificationKinds
    <3>3. Speech(agent.vendor, m) = {}
      BY <1>1, <2>4, <3>1, ToolMeanings DEF Claude
    <3>4. Send(<<m>>)
      BY <2>4 DEF Say
    <3> HIDE DEF m
    <3> QED
      BY <1>8, <2>1, <3>2, <3>3, <3>4
  <2> QED
    BY <1>9, <2>2, <2>3, <2>4 DEF Chatter
<1>10. CASE SendStatusLine
  BY <1>10 DEF SendStatusLine, QuietInv
<1> QED
  BY <1>3, <1>4, <1>5, <1>6, <1>7, <1>9, <1>10 DEF Work

LEMMA BoundariesSpeak ==
    ASSUME NEW e, IsStarting(e) \/ IsTerminalForTurn(e)
    PROVE  e.type \in DOMAIN StatusOf
BY DEF IsStarting, IsTerminalForTurn, StatusOf

LEMMA DeliveryQuiet ==
    ASSUME QuietTyped, QuietInv, DeliverHook
    PROVE  QuietInv'
<1> DEFINE v == agent.vendor
           m == hooks[1]
<1>1. /\ hooks \in Seq(Message) /\ hooks # <<>> /\ hooks' = Tail(hooks) /\ agent' = agent
      /\ session \in Session \union {NoSession} /\ m = Head(hooks)
      /\ \A x : Translate(x) = IF v = "claude" THEN FromClaude(x) ELSE FromPi(x)
      /\ session # NoSession => Recorded(session)
  BY DEF DeliverHook, QuietTyped, Typed, TypeOK, MessagesOK, Translate, Claude
<1>2. /\ \A i \in DOMAIN hooks' : LastWord(v, hooks', i) =>
            i + 1 \in DOMAIN hooks /\ LastWord(v, hooks, i + 1) /\ hooks'[i] = hooks[i + 1]
      /\ (\A i \in DOMAIN hooks' : Speech(v, hooks'[i]) = {}) =>
            \A i \in DOMAIN hooks : Speech(v, hooks[i]) # {} => i = 1
      /\ 1 \in DOMAIN hooks /\ m \in Message
  <2>1. hooks[1] \in Message
    BY <1>1
  <2> QED
    BY <1>1, <2>1, FirstGone
<1>3. \/ Translate(m) = {} /\ UNCHANGED <<session, missed>>
      \/ \E e \in Translate(m) :
            /\ session' = Heard(session, e)
            /\ missed' = (missed /\ ~IsStarting(e) /\ ~IsTerminalForTurn(e))
  BY <1>1 DEF DeliverHook
<1> HIDE DEF v, m
<1>4. SUFFICES ASSUME agent.phase # "off", ~agent.silent
               PROVE  /\ \A i \in DOMAIN hooks' : LastWord(v, hooks', i) =>
                            \A e \in Speech(v, hooks'[i]) :
                               e.type # "SessionEnd" /\ Right(agent, StatusOf[e.type])
                      /\ ~missed' /\ (\A i \in DOMAIN hooks' : Speech(v, hooks'[i]) = {}) =>
                            session' # NoSession /\ Right(agent, session'.status)
  BY <1>1 DEF QuietInv, v
<1>5. ASSUME NEW i \in DOMAIN hooks', LastWord(v, hooks', i), NEW e \in Speech(v, hooks'[i])
      PROVE  e.type # "SessionEnd" /\ Right(agent, StatusOf[e.type])
  BY <1>2, <1>4, <1>5 DEF QuietInv, v
<1>6. ASSUME ~missed', \A i \in DOMAIN hooks' : Speech(v, hooks'[i]) = {}
      PROVE  session' # NoSession /\ Right(agent, session'.status)
  <2>1. \A i \in DOMAIN hooks : Speech(v, hooks[i]) # {} => i = 1
    BY <1>2, <1>6
  <2>2. Speech(v, m) = {e \in Translate(m) : e.type \in DOMAIN StatusOf}
    BY <1>1 DEF Speech
  <2>3. CASE Speech(v, m) = {}
    <3>1. \A i \in DOMAIN hooks : Speech(v, hooks[i]) = {}
      BY <2>1, <2>3 DEF m
    <3>2. ASSUME ~missed
          PROVE  session # NoSession /\ Right(agent, session.status)
      BY <1>4, <3>1, <3>2 DEF QuietInv, v
    <3>3. CASE UNCHANGED <<session, missed>>
      BY <1>6, <3>2, <3>3
    <3>4. ASSUME NEW e \in Translate(m), session' = Heard(session, e),
                 missed' = (missed /\ ~IsStarting(e) /\ ~IsTerminalForTurn(e))
          PROVE  session' # NoSession /\ Right(agent, session'.status)
      <4>1. e.type \notin DOMAIN StatusOf
        BY <2>2, <2>3
      <4>2. ~missed /\ e.type # "SessionEnd"
        BY <1>6, <3>4, <4>1, BoundariesSpeak DEF StatusOf
      <4>3. session \in Session /\ session # NoSession /\ Right(agent, session.status)
        BY <1>1, <3>2, <4>2
      <4>4. session' = Apply(session, e)
        BY <3>4, <4>2, <4>3 DEF Heard
      <4>5. session'.status = session.status
        BY <4>1, <4>4 DEF Apply
      <4>6. session' \in Session
        BY <1>1, <1>2, <4>3, <4>4, TranslateWellFormed, ApplyProperties
      <4> QED
        BY <4>3, <4>5, <4>6, SessionAssumption
    <3> QED
      BY <1>3, <3>3, <3>4
  <2>4. CASE Speech(v, m) # {}
    <3>1. PICK e \in Translate(m) :
             /\ session' = Heard(session, e)
             /\ missed' = (missed /\ ~IsStarting(e) /\ ~IsTerminalForTurn(e))
      BY <1>3, <2>2, <2>4
    <3>2. e \in Speech(v, m) /\ e.type \in DOMAIN StatusOf
      BY <2>2, <2>4, AtMostOneEvent
    <3>3. LastWord(v, hooks, 1)
      BY <1>2, <2>1, <2>4 DEF LastWord, m
    <3>4. e.type # "SessionEnd" /\ Right(agent, StatusOf[e.type])
      BY <1>2, <1>4, <3>2, <3>3 DEF QuietInv, v, m
    <3> DEFINE s == IF session = NoSession THEN NewSession ELSE session
    <3>5. s \in Session /\ Recorded(s)
      BY <1>1, NewSessionTyped DEF Recorded, NewSession, NoActivity, UsingTool
    <3>6. session' = Apply(s, e)
      BY <3>1, <3>4 DEF Heard
    <3> HIDE DEF s
    <3>7. session'.status = StatusOf[e.type]
      BY <3>2, <3>6 DEF Apply
    <3>8. session' \in Session
      BY <1>2, <3>5, <3>6, TranslateWellFormed, ApplyProperties
    <3> QED
      BY <3>4, <3>7, <3>8, SessionAssumption
  <2> QED
    BY <2>3, <2>4
<1> QED
  BY <1>5, <1>6

LEMMA DaemonQuiet ==
    ASSUME QuietTyped, QuietInv, Daemon
    PROVE  QuietInv'
<1>1. hooks \in Seq(Message) /\ session \in Session \union {NoSession}
  BY DEF QuietTyped, Typed, TypeOK, MessagesOK
<1>2. CASE DeliverHook
  BY <1>2, DeliveryQuiet
<1>3. CASE LoseHook
  <2> DEFINE v == agent.vendor
  <2>1. \A i \in DOMAIN hooks' : LastWord(v, hooks', i) =>
           i + 1 \in DOMAIN hooks /\ LastWord(v, hooks, i + 1) /\ hooks'[i] = hooks[i + 1]
    BY <1>1, <1>3, FirstGone DEF LoseHook
  <2>2. agent' = agent /\ missed'
    BY <1>3 DEF LoseHook
  <2>3. ASSUME agent.phase # "off", ~agent.silent,
               NEW i \in DOMAIN hooks', LastWord(v, hooks', i), NEW e \in Speech(v, hooks'[i])
        PROVE  e.type # "SessionEnd" /\ Right(agent, StatusOf[e.type])
    BY <2>1, <2>3 DEF QuietInv
  <2> QED
    BY <2>2, <2>3 DEF QuietInv
<1>4. CASE DeliverStatusLine
  <2>1. agent' = agent /\ UNCHANGED <<hooks, missed>> /\ session' = FromStatusLine(session)
    BY <1>4 DEF DeliverStatusLine
  <2>2. ASSUME session # NoSession, Right(agent, session.status)
        PROVE  session' # NoSession /\ Right(agent, session'.status)
    <3>1. session'.status = IF session.status = "AttentionNeeded" THEN session.status
                            ELSE "Working"
      BY <1>1, <2>1, <2>2 DEF FromStatusLine, Session
    <3>2. session' \in Session
      BY <2>1, StatusLineTyped DEF QuietTyped
    <3> QED
      BY <2>2, <3>1, <3>2, SessionAssumption DEF Right
  <2> QED
    BY <2>1, <2>2 DEF QuietInv
<1>5. CASE LoseStatusLine \/ RestartDaemon
  BY <1>5 DEF LoseStatusLine, RestartDaemon, QuietInv
<1>6. CASE Discover \/ CleanupStale
  BY <1>6 DEF Discover, CleanupStale, QuietInv
<1> QED
  BY <1>2, <1>3, <1>4, <1>5, <1>6 DEF Daemon

\* Of an agent that calls one tool at a time the daemon knows better than any
\* status line: in every reachable state in which nothing is on its way and
\* nothing was lost since a turn boundary, a wait for the user is shown, none is
\* shown of an idle agent, and work without a pending tool is shown as work.
THEOREM QuietAgentShownRight ==
    ASSUME ~Parallel
    PROVE  Spec => []QuietStatus
<1>1. Init => QuietInv
  BY DEF Init, QuietInv
<1>2. QuietTyped /\ QuietInv /\ [Next]_vars => QuietInv'
  <2> SUFFICES ASSUME QuietTyped, QuietInv, [Next]_vars
               PROVE  QuietInv'
    OBVIOUS
  <2>1. CASE UNCHANGED vars
    BY <2>1 DEF vars, QuietInv
  <2> QED
    BY <2>1, LifeQuiet, WorkQuiet, DaemonQuiet DEF Next
<1>3. QuietTyped /\ QuietInv => QuietStatus
  <2> SUFFICES ASSUME QuietInv, UpToDate, agent.phase # "off"
               PROVE  session # NoSession /\ Right(agent, session.status)
    BY DEF QuietStatus, Right, Busy
  <2>1. \A i \in DOMAIN hooks : Speech(agent.vendor, hooks[i]) = {}
    BY DEF UpToDate
  <2> QED
    BY <2>1 DEF QuietInv, UpToDate
<1>4. Spec => []QuietTyped
  BY TypedInv, AgentInv, PTL DEF QuietTyped
<1> QED
  BY <1>1, <1>2, <1>3, <1>4, PTL DEF Spec

=============================================================================
