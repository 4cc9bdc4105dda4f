---------------------------- MODULE Subscription ----------------------------
(***************************************************************************)
(* From the registry's events to the sockets of subscribed clients: the    *)
(* broadcast channel, the daemon's broadcaster task and subscriber map     *)
(* (crates/atmd/src/server/mod.rs), one ConnectionHandler task per         *)
(* connection (server/connection.rs) and the sockets to the clients.       *)
(* ClientView adds what the clients make of the messages.                  *)
(*                                                                         *)
(* Every await at which two tasks can interleave ends an action: taking    *)
(* the map's read or write lock, a writer's mutex, a write to a socket, a  *)
(* query to the registry.  Of the registry only the set of session ids is  *)
(* kept; renaming a session is its removal followed by an appearance.      *)
(* Registered events are left out: the broadcaster drops them.  A message  *)
(* is written wholly or not at all; what a write that times out may leave  *)
(* of it, which makes the line after it unreadable, is left to Garble of   *)
(* ClientView.                                                             *)
(***************************************************************************)
EXTENDS Naturals, Sequences, FiniteSets

CONSTANTS
    Ids,          \* session ids
    Conns,        \* connections; one is reused only after it has been forgotten
    NoConn,
    NoEvent,
    MaxClients,   \* MAX_TUI_CLIENTS
    ChannelSize,  \* EVENT_BUFFER of the broadcast channel
    WireSize      \* bound: messages that fit into a socket nobody reads

VARIABLES
    live,       \* ids of the registry's sessions
    events,     \* broadcast channel as the broadcaster will receive it
    sending,    \* the broadcaster task
    subs,       \* subscribers: the ids a connection wants, {} if it is not in the map
    handler,    \* phase of the connection's handler task
    wanted,     \* filter of a Subscribe being handled
    reply,      \* session list being sent
    open,       \* the client's end of the connection exists
    wire        \* messages in the socket to the client

daemonVars == <<sending, subs, handler, wanted, reply>>
vars == <<live, events, daemonVars, open, wire>>

\* DaemonMessage, as a client takes it: what it tells of which sessions.
Event(kind, x) == [kind |-> kind, ids |-> {x}]
Events == {Event(kind, x) : kind \in {"updated", "removed"}, x \in Ids}
List(ids) == [kind |-> "list", ids |-> ids]
Answer == [kind |-> "answer", ids |-> {}]   \* an error, a pong, counts of a discovery
Messages == Events \union {List(ids) : ids \in SUBSET Ids} \union {Answer}

ASSUME SubscriptionAssumption ==
    /\ IsFiniteSet(Conns)
    /\ NoConn \notin Conns
    /\ NoEvent \notin Events
    /\ MaxClients \in Nat \ {0}
    /\ ChannelSize \in Nat \ {0}
    /\ WireSize \in Nat \ {0}

\* filter: None is every id.
Filters == {Ids} \union {{x} : x \in Ids}

Phases == {"closed", "idle", "adding", "refusing", "listing", "replying",
           "failing", "removing", "leaving"}

Idle == [event |-> NoEvent, locked |-> FALSE, todo |-> {}, at |-> NoConn, failed |-> {}]

-----------------------------------------------------------------------------
(* Locks *)

\* broadcast_event holds the map's read lock while it writes to subscribers.
ReadLockHeld == sending.locked

\* Subscribe holds the write lock while it writes "Too many subscribers".
WriteLockHeld == \E c \in Conns : handler[c] = "refusing"

\* A bug to catch: the lock is given to a writer during a broadcast.
WriteLockFreeOfWriters == ~WriteLockHeld

WriteLockFree == ~ReadLockHeld /\ ~WriteLockHeld

-----------------------------------------------------------------------------
(* Registry *)

\* A bug to catch: the channel is not bounded.
EmitUnbounded(event) == events' = Append(events, event)

\* A channel that is full drops its oldest event.
Emit(event) ==
    events' = Append(IF Len(events) < ChannelSize THEN events ELSE Tail(events), event)

Appear(x) ==
    /\ x \notin live
    /\ live' = live \union {x}
    /\ Emit(Event("updated", x))
    /\ UNCHANGED <<daemonVars, open, wire>>

Change(x) ==
    /\ x \in live
    /\ Emit(Event("updated", x))
    /\ UNCHANGED <<live, daemonVars, open, wire>>

Vanish(x) ==
    /\ x \in live
    /\ live' = live \ {x}
    /\ Emit(Event("removed", x))
    /\ UNCHANGED <<daemonVars, open, wire>>

-----------------------------------------------------------------------------
(* Broadcaster *)

\* recv(): the event is out of the channel, the subscribers are not locked yet.
NextEvent ==
    /\ sending = Idle
    /\ events # <<>>
    /\ sending' = [Idle EXCEPT !.event = Head(events)]
    /\ events' = Tail(events)
    /\ UNCHANGED <<live, subs, handler, wanted, reply, open, wire>>

\* subscribers.read(): the filter decides who gets the event.
LockSubscribers ==
    /\ sending.event # NoEvent /\ ~ReadLockHeld
    /\ ~WriteLockHeld
    /\ sending' = [sending EXCEPT
                      !.locked = TRUE,
                      !.todo = {c \in Conns : subs[c] \intersect sending.event.ids # {}}]
    /\ UNCHANGED <<live, events, subs, handler, wanted, reply, open, wire>>

\* writer.lock() of the next subscriber
LockWriter(c) ==
    /\ c \in sending.todo
    /\ sending.at = NoConn
    /\ sending' = [sending EXCEPT !.at = c]
    /\ UNCHANGED <<live, events, subs, handler, wanted, reply, open, wire>>

\* A bug to catch: a write to a client that has gone never fails.
WriteEventUnfailing(c) ==
    /\ sending.at = c
    /\ open[c]
    /\ Len(wire[c]) < WireSize
    /\ wire' = [wire EXCEPT ![c] = Append(@, sending.event)]
    /\ sending' = [sending EXCEPT !.at = NoConn, !.todo = @ \ {c}]
    /\ UNCHANGED <<live, events, subs, handler, wanted, reply, open>>

\* No timeout: with the socket full the broadcaster waits for the client.
WriteEvent(c) ==
    /\ sending.at = c
    /\ \/ /\ open[c]
          /\ Len(wire[c]) < WireSize
          /\ wire' = [wire EXCEPT ![c] = Append(@, sending.event)]
          /\ sending' = [sending EXCEPT !.at = NoConn, !.todo = @ \ {c}]
       \/ /\ ~open[c]
          /\ sending' = [sending EXCEPT !.at = NoConn, !.todo = @ \ {c},
                                        !.failed = @ \union {c}]
          /\ UNCHANGED wire
    /\ UNCHANGED <<live, events, subs, handler, wanted, reply, open>>

\* drop(subs)
FinishEvent ==
    /\ ReadLockHeld
    /\ sending.todo = {}
    /\ sending' = [Idle EXCEPT !.failed = sending.failed]
    /\ UNCHANGED <<live, events, subs, handler, wanted, reply, open, wire>>

RemoveFailed ==
    /\ sending.failed # {}
    /\ WriteLockFree
    /\ subs' = [c \in Conns |-> IF c \in sending.failed THEN {} ELSE subs[c]]
    /\ sending' = Idle
    /\ UNCHANGED <<live, events, handler, wanted, reply, open, wire>>

-----------------------------------------------------------------------------
(* Connection handlers: requests *)

Goto(c, phase) == handler' = [handler EXCEPT ![c] = phase]

\* The handler reads a request of its client and begins to serve it.
Subscribe(c, filter) ==
    /\ handler[c] = "idle" /\ open[c]
    /\ Goto(c, "adding")
    /\ wanted' = [wanted EXCEPT ![c] = filter]
    /\ UNCHANGED <<live, events, sending, subs, reply, open, wire>>

ListSessions(c) ==
    /\ handler[c] = "idle" /\ open[c]
    /\ Goto(c, "listing")
    /\ UNCHANGED <<live, events, sending, subs, wanted, reply, open, wire>>

Unsubscribe(c) ==
    /\ handler[c] = "idle" /\ open[c]
    /\ Goto(c, "removing")
    /\ UNCHANGED <<live, events, sending, subs, wanted, reply, open, wire>>

\* End of file, or READ_TIMEOUT without a request.
Leave(c) ==
    /\ handler[c] = "idle"
    /\ Goto(c, "leaving")
    /\ UNCHANGED <<live, events, sending, subs, wanted, reply, open, wire>>

-----------------------------------------------------------------------------
(* Connection handlers: what they do about them *)

Subscribers == {c \in Conns : subs[c] # {}}

\* A bug to catch: one client too many.
HasRoomForOneMore(c) == Cardinality(Subscribers) <= MaxClients \/ c \in Subscribers

HasRoom(c) == Cardinality(Subscribers) < MaxClients \/ c \in Subscribers

\* Under the write lock: the check of the limit and the insertion.
AddSubscriber(c) ==
    /\ handler[c] = "adding"
    /\ WriteLockFree
    /\ \/ /\ HasRoom(c)
          /\ subs' = [subs EXCEPT ![c] = wanted[c]]
          /\ Goto(c, "listing")
       \/ /\ ~HasRoom(c)
          /\ Goto(c, "refusing")
          /\ UNCHANGED subs
    /\ wanted' = [wanted EXCEPT ![c] = {}]
    /\ UNCHANGED <<live, events, sending, reply, open, wire>>

\* get_all_sessions, answered by the registry at one moment; no filter.
Snapshot(c) ==
    /\ handler[c] = "listing"
    /\ Goto(c, "replying")
    /\ reply' = [reply EXCEPT ![c] = live]
    /\ UNCHANGED <<live, events, sending, subs, wanted, open, wire>>

\* send_message: the message is delivered, or the write times out on a full
\* socket or fails on a closed one.
Delivered(c, message) ==
    /\ sending.at # c
    /\ open[c]
    /\ Len(wire[c]) < WireSize
    /\ wire' = [wire EXCEPT ![c] = Append(@, message)]

NotDelivered(c) ==
    /\ sending.at # c
    /\ open[c] => Len(wire[c]) = WireSize
    /\ UNCHANGED wire

SendList(c) ==
    /\ handler[c] = "replying"
    /\ \/ /\ Delivered(c, List(reply[c]))
          /\ Goto(c, "idle")
       \/ /\ NotDelivered(c)
          /\ Goto(c, "failing")
    /\ reply' = [reply EXCEPT ![c] = {}]
    /\ UNCHANGED <<live, events, sending, subs, wanted, open>>

\* "Too many subscribers"; the lock goes with the handling of the request.
Refuse(c) ==
    /\ handler[c] = "refusing"
    /\ \/ Delivered(c, Answer) /\ Goto(c, "idle")
       \/ NotDelivered(c) /\ Goto(c, "failing")
    /\ UNCHANGED <<live, events, sending, subs, wanted, reply, open>>

\* Requests that leave the subscriptions alone.  Ping, Discover and a second
\* Connect are answered, which others see no more of than the answer: one step.
\* What cannot be parsed or applied ends in an error, and so does Disconnect:
\* its Err(Eof) is answered like any other, and the handler reads on.  An update
\* that is applied is the registry's step.
OtherRequest(c) ==
    /\ handler[c] = "idle" /\ open[c]
    /\ \/ Delivered(c, Answer) /\ UNCHANGED handler
       \/ NotDelivered(c) /\ Goto(c, "failing")
       \/ Goto(c, "failing") /\ UNCHANGED wire
    /\ UNCHANGED <<live, events, sending, subs, wanted, reply, open>>

\* A request that failed is answered with an error, which may fail as well.
SendError(c) ==
    /\ handler[c] = "failing"
    /\ Delivered(c, Answer) \/ NotDelivered(c)
    /\ Goto(c, "idle")
    /\ UNCHANGED <<live, events, sending, subs, wanted, reply, open>>

\* A bug to catch: the end of the handler task leaves the map as it is.
RemoveSubscriberOnRequest(c) ==
    /\ WriteLockFree
    /\ \/ /\ handler[c] = "removing"
          /\ Goto(c, "idle")
          /\ subs' = [subs EXCEPT ![c] = {}]
       \/ /\ handler[c] = "leaving"
          /\ Goto(c, "closed")
          /\ UNCHANGED subs
    /\ UNCHANGED <<live, events, sending, wanted, reply, open, wire>>

\* Unsubscribe, or the end of the handler task.
RemoveSubscriber(c) ==
    /\ WriteLockFree
    /\ \/ handler[c] = "removing" /\ Goto(c, "idle")
       \/ handler[c] = "leaving" /\ Goto(c, "closed")
    /\ subs' = [subs EXCEPT ![c] = {}]
    /\ UNCHANGED <<live, events, sending, wanted, reply, open, wire>>

-----------------------------------------------------------------------------
(* Clients *)

Connect(c) ==
    /\ handler[c] = "closed"
    /\ ~open[c]
    /\ c \notin sending.failed
    /\ Goto(c, "idle")
    /\ open' = [open EXCEPT ![c] = TRUE]
    /\ UNCHANGED <<live, events, sending, subs, wanted, reply, wire>>

Receive(c) ==
    /\ wire[c] # <<>>
    /\ wire' = [wire EXCEPT ![c] = Tail(@)]
    /\ UNCHANGED <<live, events, daemonVars, open>>

Close(c) ==
    /\ open[c]
    /\ open' = [open EXCEPT ![c] = FALSE]
    /\ wire' = [wire EXCEPT ![c] = <<>>]
    /\ UNCHANGED <<live, events, daemonVars>>

-----------------------------------------------------------------------------

Init ==
    /\ live \in SUBSET Ids
    /\ events = <<>>
    /\ sending = Idle
    /\ subs = [c \in Conns |-> {}]
    /\ handler = [c \in Conns |-> "closed"]
    /\ wanted = [c \in Conns |-> {}]
    /\ reply = [c \in Conns |-> {}]
    /\ open = [c \in Conns |-> FALSE]
    /\ wire = [c \in Conns |-> <<>>]

Registry == \E x \in Ids : Appear(x) \/ Change(x) \/ Vanish(x)

Broadcaster ==
    \/ NextEvent \/ LockSubscribers \/ FinishEvent \/ RemoveFailed
    \/ \E c \in Conns : LockWriter(c) \/ WriteEvent(c)

Requests(c) ==
    \/ \E filter \in Filters : Subscribe(c, filter)
    \/ ListSessions(c) \/ Unsubscribe(c) \/ OtherRequest(c) \/ Leave(c)

Handling(c) ==
    \/ AddSubscriber(c) \/ Snapshot(c) \/ SendList(c) \/ Refuse(c)
    \/ SendError(c) \/ RemoveSubscriber(c)

Client(c) == Connect(c) \/ Receive(c) \/ Close(c)

Next ==
    \/ Registry
    \/ Broadcaster
    \/ \E c \in Conns : Requests(c) \/ Handling(c) \/ Client(c)

Spec == Init /\ [][Next]_vars

\* What a handler does about a request, or about the end of its connection.
Task(c) == Handling(c) \/ (~open[c] /\ Leave(c))

\* Tasks run whenever they can; tokio's locks are first come, first served, so
\* a handler waiting for one gets it although others keep taking it.  A client
\* reads what it is sent.  Nothing makes registry or clients send anything.
Fairness ==
    /\ WF_vars(Broadcaster)
    /\ \A c \in Conns : SF_vars(Task(c)) /\ WF_vars(Receive(c))

FairSpec == Spec /\ Fairness

-----------------------------------------------------------------------------
(* Properties *)

\* The variables stay within their types, the channel and sockets within bounds.
TypeOK ==
    /\ live \subseteq Ids
    /\ events \in Seq(Events) /\ Len(events) <= ChannelSize
    /\ sending \in [event : Events \union {NoEvent}, locked : BOOLEAN, todo : SUBSET Conns,
                    at : Conns \union {NoConn}, failed : SUBSET Conns]
    /\ subs \in [Conns -> {{}} \union Filters]
    /\ handler \in [Conns -> Phases]
    /\ wanted \in [Conns -> {{}} \union Filters]
    /\ reply \in [Conns -> SUBSET Ids]
    /\ open \in [Conns -> BOOLEAN]
    /\ wire \in [Conns -> Seq(Messages)] /\ \A c \in Conns : Len(wire[c]) <= WireSize

\* No more than MAX_TUI_CLIENTS connections are subscribed, although handlers
\* check and insert concurrently.
ClientLimit == Cardinality(Subscribers) <= MaxClients

\* Events are written to a connection only while it is subscribed to them: none
\* follows a completed Unsubscribe or the removal of the connection.
OnlySubscribersWritten ==
    [][\A c \in Conns :
          (sending.event # NoEvent /\ wire'[c] = Append(wire[c], sending.event))
             => sending.event.ids \intersect subs[c] # {}]_vars

\* Whoever waits for the map's lock gets it: no request hangs behind a
\* broadcast, a refusal or a client that has gone.
LockObtained ==
    \A c \in Conns :
        LET waits == handler[c] \in {"adding", "removing", "leaving"}
        IN  waits ~> ~waits

\* A connection whose client has gone does not stay in the map.
DepartedForgotten ==
    \A c \in Conns : (~open[c] /\ c \in Subscribers) ~> c \notin Subscribers

=============================================================================
