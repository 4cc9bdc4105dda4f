------------------------------- MODULE Delivery -------------------------------
(***************************************************************************)
(* From an event in pi to the screen: PiOutbox composed with the TUI's     *)
(* client task, which connects to the daemon, subscribes and reads for as  *)
(* long as the TUI runs (crates/atm/src/client.rs), and with the handler   *)
(* of that connection in the daemon (crates/atmd/src/server/connection.rs).*)
(*                                                                         *)
(* How events and lists overtake each other in one connection is the       *)
(* subject of ClientView; here a request is handled in one step, and the   *)
(* broadcast channel and the socket are one queue.                         *)
(***************************************************************************)
EXTENDS PiOutbox

VARIABLES
    client,    \* phase of DaemonClient::run
    handler,   \* phase of the connection's handler in the daemon
    messages,  \* on their way to the TUI
    shown      \* the event the TUI displays, Nothing if the session is not shown

tuiVars == <<client, handler, messages, shown>>
allVars == <<vars, tuiVars>>

Message(kind, e) == [kind |-> kind, event |-> e]

-----------------------------------------------------------------------------
(* The daemon *)

\* Bound: one event is kept for the TUI; a channel that is full loses the oldest.
Post(e) ==
    Append(SelectSeq(messages, LAMBDA m : m.kind # "updated"), Message("updated", e))

Subscribed == handler \in {"listing", "serving"}

\* The registry publishes what it applied, the broadcaster passes it on.
Publish ==
    /\ HandlePiEvent
    /\ messages' = IF Subscribed THEN Post(known') ELSE messages
    /\ UNCHANGED <<client, handler, shown>>

\* handle_handshake
Handshake ==
    /\ handler = "greeting"
    /\ handler' = "subscribing"
    /\ messages' = <<Message("connected", Nothing)>>
    /\ UNCHANGED <<vars, client, shown>>

\* Subscribe: "Send current session list as initial state" ...
Subscribe ==
    /\ handler = "subscribing" /\ client = "listening"
    /\ handler' = "listing"
    /\ messages' = Append(messages, Message("list", known))
    /\ UNCHANGED <<vars, client, shown>>

\* ... and ListSessions, which the client sends as well.
ListSessions ==
    /\ handler = "listing"
    /\ handler' = "serving"
    /\ messages' = Append(messages, Message("list", known))
    /\ UNCHANGED <<vars, client, shown>>

\* READ_TIMEOUT: a client that only listens is disconnected after a while.
Expire ==
    /\ handler = "serving"
    /\ handler' = "none"
    /\ UNCHANGED <<vars, client, messages, shown>>

\* What has been written can still be read.
Stop ==
    /\ EndDaemon
    /\ handler' = "none"
    /\ UNCHANGED <<client, messages, shown>>

-----------------------------------------------------------------------------
(* The client *)

\* connect_with_retry, which sleeps and tries again until it succeeds
Connect ==
    /\ client = "retrying" /\ up
    /\ client' = "greeting"
    /\ handler' = "greeting"
    /\ messages' = <<>>
    /\ UNCHANGED <<vars, shown>>

\* handle_connection: read_line, without a timeout
Greeted ==
    /\ client = "greeting" /\ messages # <<>>
    /\ client' = "listening"
    /\ messages' = Tail(messages)
    /\ UNCHANGED <<vars, handler, shown>>

\* handle_message; SessionListReplace and SessionUpdate in the TUI
Read ==
    /\ client = "listening" /\ messages # <<>>
    /\ shown' = Head(messages).event
    /\ messages' = Tail(messages)
    /\ UNCHANGED <<vars, client, handler>>

\* A command of the user wins the select!: what read_line has got of a line is
\* lost, and the rest of the line is not a message.
Discover ==
    /\ client = "listening" /\ messages # <<>>
    /\ faults < MaxFaults
    /\ faults' = faults + 1
    /\ messages' = Tail(messages)
    /\ UNCHANGED <<extension, wire, peer, up, known, client, handler, shown>>

\* A bug to catch: the end of the file ends the task.
DisconnectForGood ==
    /\ client \in {"greeting", "listening"}
    /\ handler = "none" /\ messages = <<>>
    /\ client' = "cancelled"
    /\ UNCHANGED <<vars, handler, messages, shown>>

\* DaemonDisconnected; the TUI keeps what it displays (mark_disconnected).
Disconnect ==
    /\ client \in {"greeting", "listening"}
    /\ handler = "none" /\ messages = <<>>
    /\ client' = "retrying"
    /\ UNCHANGED <<vars, handler, messages, shown>>

-----------------------------------------------------------------------------

DeliveryInit ==
    /\ Init
    /\ client = "retrying"
    /\ handler = "none"
    /\ messages = <<>>
    /\ shown = Nothing

PiWorks == (\E e \in Events : send(e)) /\ UNCHANGED tuiVars

ExtensionStep == Callback /\ UNCHANGED tuiVars

DaemonStep == Publish \/ Handshake \/ Subscribe \/ ListSessions

ClientStep == Connect \/ Greeted \/ Read \/ Disconnect

DeliveryNext ==
    \/ PiWorks \/ ExtensionStep \/ DaemonStep \/ ClientStep
    \/ Expire \/ Stop \/ Discover
    \/ (TimeOut \/ Refuse \/ StartDaemon) /\ UNCHANGED tuiVars

DeliverySpec == DeliveryInit /\ [][DeliveryNext]_allVars

\* pi goes on working; somebody starts the daemon again; callbacks, tasks and
\* timers run.  Faults and timeouts are not forced to happen.
DeliveryFairSpec ==
    /\ DeliverySpec
    /\ WF_allVars(PiWorks)
    /\ WF_allVars(EndBackoff /\ UNCHANGED tuiVars)
    /\ WF_allVars((OnConnect \/ OnClose) /\ UNCHANGED tuiVars)
    /\ WF_allVars(OnDrain /\ UNCHANGED tuiVars)
    /\ WF_allVars(Publish)
    /\ WF_allVars(Handshake \/ Subscribe \/ ListSessions)
    /\ WF_allVars(StartDaemon /\ UNCHANGED tuiVars)
    /\ WF_allVars(Connect) /\ WF_allVars(Greeted \/ Read) /\ WF_allVars(Disconnect)

-----------------------------------------------------------------------------
(* Properties *)

\* As long as pi works, the TUI is told what it does, again and again: no end of
\* the daemon, pause, closed connection, lost line or timeout stops events for
\* good.
KeepsShowing == []<><<Read /\ shown' # Nothing>>_allVars

=============================================================================
