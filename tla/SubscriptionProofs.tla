-------------------------- MODULE SubscriptionProofs --------------------------
(***************************************************************************)
(* Theorems about Subscription, and with ClientView about what clients     *)
(* display, for every set of sessions and connections and every size of    *)
(* the channel, the sockets and the subscriber map.                        *)
(***************************************************************************)
EXTENDS ClientView, FiniteSetTheorems, SequenceTheorems, TLAPS

\* While an event is being sent, everybody it is still to be sent to is
\* subscribed to it, and only they hold up the broadcaster; the subscribers are
\* locked for an event only, and none is taken before those that failed are removed.
TodoSubscribed ==
    /\ sending.at # NoConn => sending.at \in sending.todo
    /\ \A c \in sending.todo :
          ReadLockHeld /\ sending.event.ids \intersect subs[c] # {}
    /\ ReadLockHeld => sending.event # NoEvent
    /\ sending.event # NoEvent /\ ~ReadLockHeld => sending.failed = {}

-----------------------------------------------------------------------------
(* Lemmas about messages and sequences *)

LEMMA EventsAreMessages ==
    /\ \A x \in Ids : Event("updated", x) \in Events /\ Event("removed", x) \in Events
    /\ Events \subseteq Messages
    /\ \A ids \in SUBSET Ids : List(ids) \in Messages \ Events
    /\ Answer \in Messages \ Events
<1>1. \A x \in Ids : Event("updated", x) \in Events /\ Event("removed", x) \in Events
  BY DEF Events
<1>2. Events \subseteq Messages
  BY DEF Messages
<1>3. \A e \in Events : e.kind \in {"updated", "removed"}
  BY DEF Events, Event
<1>4. \A ids \in SUBSET Ids : List(ids) \in Messages
  BY DEF Messages
<1>5. \A ids \in SUBSET Ids : List(ids).kind = "list"
  BY DEF List
<1>6. Answer \in Messages /\ Answer.kind = "answer"
  BY DEF Messages, Answer
<1> QED
  BY <1>1, <1>2, <1>3, <1>4, <1>5, <1>6

\* Emit keeps the channel a sequence of events within its size.
LEMMA EmitBounded ==
    ASSUME NEW event \in Events, Emit(event),
           events \in Seq(Events), Len(events) <= ChannelSize
    PROVE  events' \in Seq(Events) /\ Len(events') <= ChannelSize
<1>1. CASE Len(events) < ChannelSize
  BY <1>1, AppendProperties, SubscriptionAssumption DEF Emit
<1>2. CASE Len(events) = ChannelSize
  <2>1. events # <<>>
    BY <1>2, SubscriptionAssumption
  <2>2. Tail(events) \in Seq(Events) /\ Len(Tail(events)) = Len(events) - 1
    BY <2>1, HeadTailProperties
  <2> QED
    BY <1>2, <2>2, AppendProperties, SubscriptionAssumption DEF Emit
<1> QED
  BY <1>1, <1>2, SubscriptionAssumption, LenProperties

\* What the type invariant says of the sockets.
WireOK ==
    /\ wire \in [Conns -> Seq(Messages)]
    /\ \A c \in Conns : Len(wire[c]) <= WireSize

\* A delivered message fits into the socket.
LEMMA DeliveredFits ==
    ASSUME NEW c \in Conns, NEW message \in Messages, WireOK,
           Len(wire[c]) < WireSize,
           wire' = [wire EXCEPT ![c] = Append(@, message)]
    PROVE  WireOK'
<1>1. wire[c] \in Seq(Messages)
  BY DEF WireOK
<1>2. Append(wire[c], message) \in Seq(Messages)
      /\ Len(Append(wire[c], message)) = Len(wire[c]) + 1
  BY <1>1, AppendProperties
<1>3. Len(wire[c]) + 1 <= WireSize
  BY <1>1, LenProperties, SubscriptionAssumption
<1> QED
  BY <1>2, <1>3 DEF WireOK

-----------------------------------------------------------------------------
(* The type invariant *)

LEMMA InitTyped == Init => TypeOK
BY SubscriptionAssumption DEF Init, TypeOK, Idle, Phases

\* Whatever the registry does, it only adds one event to the channel.
LEMMA RegistryTyped ==
    ASSUME TypeOK, Registry
    PROVE  TypeOK'
<1>1. PICK x \in Ids : Appear(x) \/ Change(x) \/ Vanish(x)
  BY DEF Registry
<1>2. PICK event \in Events : Emit(event)
  BY <1>1, EventsAreMessages DEF Appear, Change, Vanish
<1>3. events' \in Seq(Events) /\ Len(events') <= ChannelSize
  BY <1>2, EmitBounded DEF TypeOK
<1>4. live' \subseteq Ids /\ UNCHANGED <<daemonVars, open, wire>>
  BY <1>1 DEF Appear, Change, Vanish, TypeOK
<1> QED
  BY <1>3, <1>4 DEF TypeOK, daemonVars

\* Only an event that is being sent is written, which TodoSubscribed ensures.
LEMMA BroadcasterTyped ==
    ASSUME TypeOK, TodoSubscribed, Broadcaster
    PROVE  TypeOK'
<1> USE DEF TypeOK
<1>1. CASE NextEvent
  <2>1. /\ Head(events) \in Events /\ Tail(events) \in Seq(Events)
        /\ Len(Tail(events)) = Len(events) - 1
    BY <1>1, HeadTailProperties DEF NextEvent
  <2>2. sending' \in [event : Events \union {NoEvent}, locked : BOOLEAN, todo : SUBSET Conns,
                      at : Conns \union {NoConn}, failed : SUBSET Conns]
    BY <1>1, <2>1 DEF NextEvent, Idle
  <2>3. Len(events) \in Nat /\ Len(events) - 1 <= ChannelSize
    BY LenProperties, SubscriptionAssumption
  <2>4. events' \in Seq(Events) /\ Len(events') <= ChannelSize
    BY <1>1, <2>1, <2>3 DEF NextEvent
  <2> QED
    BY <1>1, <2>2, <2>4 DEF NextEvent
<1>2. CASE LockSubscribers \/ FinishEvent
  BY <1>2 DEF LockSubscribers, FinishEvent, Idle
<1>3. CASE RemoveFailed
  BY <1>3 DEF RemoveFailed, Idle
<1>4. ASSUME NEW c \in Conns, LockWriter(c)
      PROVE  TypeOK'
  BY <1>4 DEF LockWriter
<1>5. ASSUME NEW c \in Conns, WriteEvent(c)
      PROVE  TypeOK'
  <2>1. sending' \in [event : Events \union {NoEvent}, locked : BOOLEAN, todo : SUBSET Conns,
                      at : Conns \union {NoConn}, failed : SUBSET Conns]
    <3>1. CASE sending' = [sending EXCEPT !.at = NoConn, !.todo = @ \ {c}]
      BY <3>1
    <3>2. CASE sending' = [sending EXCEPT !.at = NoConn, !.todo = @ \ {c},
                                          !.failed = @ \union {c}]
      BY <3>2
    <3> QED
      BY <1>5, <3>1, <3>2 DEF WriteEvent
  <2>2. WireOK'
    <3>1. CASE open[c] /\ wire' = [wire EXCEPT ![c] = Append(@, sending.event)]
               /\ Len(wire[c]) < WireSize
      <4>1. sending.event \in Messages
        BY <1>5, EventsAreMessages, SubscriptionAssumption
           DEF WriteEvent, TodoSubscribed, ReadLockHeld
      <4> QED
        BY <3>1, <4>1, DeliveredFits DEF WireOK
    <3> QED
      BY <1>5, <3>1 DEF WriteEvent, WireOK
  <2> QED
    BY <1>5, <2>1, <2>2 DEF WriteEvent, WireOK
<1> QED
  BY <1>1, <1>2, <1>3, <1>4, <1>5 DEF Broadcaster

\* Both outcomes of send_message leave the socket within its bounds.
LEMMA SentFits ==
    ASSUME NEW c \in Conns, NEW message \in Messages, WireOK,
           Delivered(c, message) \/ NotDelivered(c)
    PROVE  WireOK'
<1>1. CASE Delivered(c, message)
  BY <1>1, DeliveredFits DEF Delivered
<1>2. CASE NotDelivered(c)
  BY <1>2 DEF NotDelivered, WireOK
<1> QED
  BY <1>1, <1>2

LEMMA RequestsTyped ==
    ASSUME NEW c \in Conns, TypeOK, Requests(c)
    PROVE  TypeOK'
<1> USE DEF TypeOK
<1>1. ASSUME NEW filter \in Filters, Subscribe(c, filter)
      PROVE  TypeOK'
  BY <1>1 DEF Subscribe, Goto, Phases
<1>2. CASE ListSessions(c)
  BY <1>2 DEF ListSessions, Goto, Phases
<1>3. CASE Unsubscribe(c)
  BY <1>3 DEF Unsubscribe, Goto, Phases
<1>4. CASE OtherRequest(c)
  <2>1. WireOK'
    BY <1>4, SentFits, EventsAreMessages DEF OtherRequest, WireOK
  <2> QED
    BY <1>4, <2>1 DEF OtherRequest, Goto, Phases, WireOK
<1>5. CASE Leave(c)
  BY <1>5 DEF Leave, Goto, Phases
<1> QED
  BY <1>1, <1>2, <1>3, <1>4, <1>5 DEF Requests

LEMMA HandlingTyped ==
    ASSUME NEW c \in Conns, TypeOK, Handling(c)
    PROVE  TypeOK'
<1> USE DEF TypeOK
<1>0. WireOK
  BY DEF WireOK
<1>1. CASE AddSubscriber(c)
  BY <1>1 DEF AddSubscriber, Goto, Phases
<1>2. CASE Snapshot(c)
  BY <1>2 DEF Snapshot, Goto, Phases
<1>3. CASE SendList(c)
  <2>1. List(reply[c]) \in Messages
    BY EventsAreMessages
  <2>2. WireOK'
    BY <1>0, <1>3, <2>1, SentFits DEF SendList
  <2> QED
    BY <1>3, <2>2 DEF SendList, Goto, Phases, WireOK
<1>4. CASE Refuse(c)
  <2>1. WireOK'
    BY <1>0, <1>4, SentFits, EventsAreMessages DEF Refuse
  <2> QED
    BY <1>4, <2>1 DEF Refuse, Goto, Phases, WireOK
<1>5. CASE SendError(c)
  <2>1. WireOK'
    BY <1>0, <1>5, SentFits, EventsAreMessages DEF SendError
  <2> QED
    BY <1>5, <2>1 DEF SendError, Goto, Phases, WireOK
<1>6. CASE RemoveSubscriber(c)
  BY <1>6 DEF RemoveSubscriber, Goto, Phases
<1> QED
  BY <1>1, <1>2, <1>3, <1>4, <1>5, <1>6 DEF Handling

LEMMA ClientTyped ==
    ASSUME NEW c \in Conns, TypeOK, Client(c)
    PROVE  TypeOK'
<1> USE DEF TypeOK
<1>1. CASE Connect(c)
  BY <1>1 DEF Connect, Goto, Phases
<1>2. CASE Receive(c)
  <2>1. /\ Tail(wire[c]) \in Seq(Messages)
        /\ Len(Tail(wire[c])) = Len(wire[c]) - 1
    BY <1>2, HeadTailProperties DEF Receive
  <2>2. Len(wire[c]) \in Nat /\ Len(wire[c]) - 1 <= WireSize
    BY LenProperties, SubscriptionAssumption
  <2>3. WireOK'
    BY <1>2, <2>1, <2>2 DEF Receive, WireOK
  <2> QED
    BY <1>2, <2>3 DEF Receive, daemonVars, WireOK
<1>3. CASE Close(c)
  <2>1. <<>> \in Seq(Messages) /\ Len(<<>>) = 0
    BY EmptySeq
  <2>2. WireOK'
    BY <1>3, <2>1, SubscriptionAssumption DEF Close, WireOK
  <2> QED
    BY <1>3, <2>2 DEF Close, daemonVars, WireOK
<1> QED
  BY <1>1, <1>2, <1>3 DEF Client

LEMMA StepTyped == TypeOK /\ TodoSubscribed /\ [Next]_vars => TypeOK'
<1> SUFFICES ASSUME TypeOK, TodoSubscribed, [Next]_vars
             PROVE  TypeOK'
  OBVIOUS
<1>1. CASE UNCHANGED vars
  BY <1>1 DEF TypeOK, vars, daemonVars
<1> QED
  BY <1>1, RegistryTyped, BroadcasterTyped, RequestsTyped, HandlingTyped, ClientTyped
     DEF Next

-----------------------------------------------------------------------------
(* Whom an event is written to *)

LEMMA InitTodo == Init => TodoSubscribed
BY DEF Init, TodoSubscribed, Idle, ReadLockHeld

\* The read lock keeps the subscriber map as it is while an event is sent.
LEMMA StepTodo == TypeOK /\ TodoSubscribed /\ [Next]_vars => TodoSubscribed'
<1> SUFFICES ASSUME TypeOK, TodoSubscribed, [Next]_vars
             PROVE  TodoSubscribed'
  OBVIOUS
<1> USE DEF TodoSubscribed, ReadLockHeld
<1>1. CASE UNCHANGED <<sending, subs>>
  BY <1>1
<1>2. CASE NextEvent
  BY <1>2 DEF NextEvent, Idle
<1>11. CASE LockSubscribers
  <2>1. sending.event \in Events
    BY <1>11 DEF LockSubscribers, TypeOK
  <2>2. /\ sending'.event = sending.event /\ sending'.locked
        /\ sending'.at = sending.at /\ sending'.failed = sending.failed
        /\ sending'.todo = {c \in Conns : subs[c] \intersect sending.event.ids # {}}
    BY <1>11 DEF LockSubscribers, TypeOK
  <2>3. sending.at = NoConn
    BY <1>11 DEF LockSubscribers
  <2> QED
    BY <1>11, <2>1, <2>2, <2>3, SubscriptionAssumption DEF LockSubscribers
<1>3. CASE FinishEvent
  BY <1>3 DEF FinishEvent, Idle
<1>4. CASE RemoveFailed
  BY <1>4 DEF RemoveFailed, Idle
<1>5. ASSUME NEW c \in Conns, LockWriter(c)
      PROVE  TodoSubscribed'
  BY <1>5 DEF LockWriter, TypeOK
<1>6. ASSUME NEW c \in Conns, WriteEvent(c)
      PROVE  TodoSubscribed'
  <2>1. /\ sending'.event = sending.event /\ sending'.locked = sending.locked
        /\ sending'.at = NoConn
        /\ sending'.todo = sending.todo \ {c}
        /\ UNCHANGED subs
    BY <1>6 DEF WriteEvent, TypeOK
  <2>2. sending.locked
    BY <1>6, SubscriptionAssumption DEF WriteEvent
  <2> QED
    BY <2>1, <2>2
<1>7. ASSUME NEW c \in Conns, AddSubscriber(c) \/ RemoveSubscriber(c)
      PROVE  TodoSubscribed'
  BY <1>7 DEF AddSubscriber, RemoveSubscriber, WriteLockFree
<1>8. ASSUME NEW c \in Conns, Requests(c) \/ Client(c)
      PROVE  UNCHANGED <<sending, subs>>
  BY <1>8 DEF Requests, Subscribe, ListSessions, Unsubscribe, OtherRequest, Leave,
              Client, Connect, Receive, Close, daemonVars
<1>9. ASSUME NEW c \in Conns, Snapshot(c) \/ SendList(c) \/ Refuse(c) \/ SendError(c)
      PROVE  UNCHANGED <<sending, subs>>
  BY <1>9 DEF Snapshot, SendList, Refuse, SendError
<1>10. Registry \/ UNCHANGED vars => UNCHANGED <<sending, subs>>
  BY DEF Registry, Appear, Change, Vanish, vars, daemonVars
<1> QED
  BY <1>1, <1>2, <1>3, <1>4, <1>5, <1>6, <1>7, <1>8, <1>9, <1>10, <1>11
     DEF Next, Broadcaster, Handling

\* What OnlySubscribersWritten says of one step.
LEMMA StepWrites ==
    ASSUME TypeOK, TodoSubscribed, Next,
           NEW c \in Conns,
           sending.event # NoEvent,
           wire'[c] = Append(wire[c], sending.event)
    PROVE  sending.event.ids \intersect subs[c] # {}
<1> DEFINE event == sending.event
<1>1. event \in Events /\ event \in Messages /\ wire[c] \in Seq(Messages)
  BY EventsAreMessages DEF TypeOK
<1>2. Len(wire'[c]) = Len(wire[c]) + 1 /\ Len(wire[c]) \in Nat /\ wire'[c] # <<>>
  BY <1>1, AppendProperties, LenProperties
<1>3. wire'[c] # wire[c]
  BY <1>2
<1>4. ~Registry /\ ~NextEvent /\ ~LockSubscribers /\ ~FinishEvent /\ ~RemoveFailed
  BY <1>3 DEF Registry, Appear, Change, Vanish, NextEvent, LockSubscribers, FinishEvent,
              RemoveFailed
<1>5. ASSUME NEW d \in Conns, WriteEvent(d)
      PROVE  event.ids \intersect subs[c] # {}
  <2>1. d = c
    BY <1>3, <1>5 DEF WriteEvent, TypeOK
  <2>2. c \in sending.todo
    BY <1>5, <2>1, SubscriptionAssumption DEF WriteEvent, TodoSubscribed
  <2> QED
    BY <2>2 DEF TodoSubscribed
<1>6. ASSUME NEW d \in Conns, NEW message \in Messages, message \notin Events,
             Delivered(d, message)
      PROVE  FALSE
  <2>1. d = c
    BY <1>3, <1>6 DEF Delivered, TypeOK
  <2>2. Append(wire[c], message) = Append(wire[c], event)
    BY <1>6, <2>1 DEF Delivered, TypeOK
  <2> QED
    BY <1>1, <1>6, <2>2, AppendInjective
<1>7. ASSUME NEW d \in Conns, Handling(d)
      PROVE  FALSE
  <2>1. SendList(d) \/ Refuse(d) \/ SendError(d)
    BY <1>3, <1>7 DEF Handling, AddSubscriber, Snapshot, RemoveSubscriber
  <2>2. List(reply[d]) \in Messages \ Events /\ Answer \in Messages \ Events
    BY EventsAreMessages DEF TypeOK
  <2> QED
    BY <1>3, <1>6, <2>1, <2>2 DEF SendList, Refuse, SendError, NotDelivered
<1>8. ASSUME NEW d \in Conns, Client(d)
      PROVE  FALSE
  <2>1. CASE Receive(d)
    <3>1. d = c
      BY <1>3, <2>1 DEF Receive, TypeOK
    <3>2. wire[c] # <<>> /\ wire'[c] = Tail(wire[c])
      BY <2>1, <3>1 DEF Receive, TypeOK
    <3>3. Len(Tail(wire[c])) = Len(wire[c]) - 1
      BY <1>1, <3>2, HeadTailProperties
    <3> QED
      BY <1>2, <3>2, <3>3
  <2>2. CASE Close(d)
    BY <1>2, <1>3, <2>2 DEF Close, TypeOK
  <2>3. CASE Connect(d)
    BY <1>3, <2>3 DEF Connect
  <2> QED
    BY <1>8, <2>1, <2>2, <2>3 DEF Client
<1>9. ASSUME NEW d \in Conns, Requests(d) \/ LockWriter(d)
      PROVE  FALSE
  <2>1. OtherRequest(d)
    BY <1>3, <1>9 DEF Requests, Subscribe, ListSessions, Unsubscribe, Leave, LockWriter
  <2>2. Answer \in Messages \ Events
    BY EventsAreMessages
  <2> QED
    BY <1>3, <1>6, <2>1, <2>2 DEF OtherRequest, NotDelivered
<1> QED
  BY <1>4, <1>5, <1>7, <1>8, <1>9 DEF Next, Broadcaster

-----------------------------------------------------------------------------
(* The limit *)

LEMMA InitLimit == Init => ClientLimit
<1> SUFFICES ASSUME Init PROVE ClientLimit
  OBVIOUS
<1>1. Subscribers = {}
  BY DEF Init, Subscribers
<1> QED
  BY <1>1, FS_EmptySet, SubscriptionAssumption DEF ClientLimit

\* Only AddSubscriber makes the map larger, by one connection.
LEMMA StepSubscribers ==
    ASSUME TypeOK, Next
    PROVE  \/ Subscribers' \subseteq Subscribers
           \/ \E c \in Conns :
                 HasRoom(c) /\ Subscribers' \subseteq Subscribers \union {c}
<1>1. CASE UNCHANGED subs
  BY <1>1 DEF Subscribers
<1>2. CASE RemoveFailed
  BY <1>2 DEF RemoveFailed, Subscribers
<1>3. ASSUME NEW c \in Conns, AddSubscriber(c), ~UNCHANGED subs
      PROVE  HasRoom(c) /\ Subscribers' \subseteq Subscribers \union {c}
  BY <1>3 DEF AddSubscriber, Subscribers, TypeOK
<1>4. ASSUME NEW c \in Conns, RemoveSubscriber(c)
      PROVE  Subscribers' \subseteq Subscribers
  BY <1>4 DEF RemoveSubscriber, Subscribers, TypeOK
<1>5. ASSUME NEW c \in Conns,
             \/ Requests(c) \/ Client(c) \/ LockWriter(c) \/ WriteEvent(c)
             \/ Snapshot(c) \/ SendList(c) \/ Refuse(c) \/ SendError(c)
      PROVE  UNCHANGED subs
  BY <1>5 DEF Requests, Subscribe, ListSessions, Unsubscribe, OtherRequest, Leave,
              Client, Connect, Receive, Close, LockWriter, WriteEvent,
              Snapshot, SendList, Refuse, SendError, daemonVars
<1>6. Registry \/ NextEvent \/ LockSubscribers \/ FinishEvent => UNCHANGED subs
  BY DEF Registry, Appear, Change, Vanish, NextEvent, LockSubscribers, FinishEvent, daemonVars
<1> QED
  BY <1>1, <1>2, <1>3, <1>4, <1>5, <1>6 DEF Next, Broadcaster, Handling

LEMMA StepLimit == TypeOK /\ ClientLimit /\ [Next]_vars => ClientLimit'
<1> SUFFICES ASSUME TypeOK, ClientLimit, [Next]_vars
             PROVE  ClientLimit'
  OBVIOUS
<1>1. IsFiniteSet(Subscribers) /\ Cardinality(Subscribers) \in Nat
  BY FS_Subset, FS_CardinalityType, SubscriptionAssumption DEF Subscribers
<1>2. CASE Subscribers' \subseteq Subscribers
  <2>1. Cardinality(Subscribers') <= Cardinality(Subscribers)
        /\ IsFiniteSet(Subscribers')
    BY <1>1, <1>2, FS_Subset
  <2>2. Cardinality(Subscribers') \in Nat
    BY <2>1, FS_CardinalityType
  <2> QED
    BY <1>1, <2>1, <2>2, SubscriptionAssumption DEF ClientLimit
<1>3. ASSUME NEW c \in Conns, HasRoom(c), Subscribers' \subseteq Subscribers \union {c}
      PROVE  ClientLimit'
  <2>1. /\ IsFiniteSet(Subscribers \union {c})
        /\ Cardinality(Subscribers \union {c}) =
              IF c \in Subscribers THEN Cardinality(Subscribers)
              ELSE Cardinality(Subscribers) + 1
    BY <1>1, FS_AddElement
  <2>2. Cardinality(Subscribers \union {c}) <= MaxClients
    BY <1>1, <1>3, <2>1, SubscriptionAssumption DEF HasRoom, ClientLimit
  <2>3. /\ IsFiniteSet(Subscribers')
        /\ Cardinality(Subscribers') <= Cardinality(Subscribers \union {c})
    BY <1>3, <2>1, FS_Subset
  <2>4. Cardinality(Subscribers') \in Nat /\ Cardinality(Subscribers \union {c}) \in Nat
    BY <2>1, <2>3, FS_CardinalityType
  <2> QED
    BY <2>2, <2>3, <2>4, SubscriptionAssumption DEF ClientLimit
<1>4. CASE UNCHANGED vars
  BY <1>4 DEF vars, daemonVars, ClientLimit, Subscribers
<1> QED
  BY <1>2, <1>3, <1>4, StepSubscribers

-----------------------------------------------------------------------------
(* Theorems *)

\* TodoSubscribed makes the type invariant inductive: a write without it could
\* be of no event at all.
THEOREM SubscriptionSafe == Spec => [](TypeOK /\ TodoSubscribed /\ ClientLimit)
<1>1. Init => TypeOK /\ TodoSubscribed /\ ClientLimit
  BY InitTyped, InitTodo, InitLimit
<1>2. TypeOK /\ TodoSubscribed /\ ClientLimit /\ [Next]_vars
         => (TypeOK /\ TodoSubscribed /\ ClientLimit)'
  BY StepTyped, StepTodo, StepLimit
<1> QED
  BY <1>1, <1>2, PTL DEF Spec

\* The variables of server and connections keep their types, channel and sockets
\* their bounds.
THEOREM SubscriptionTyped == Spec => []TypeOK
BY SubscriptionSafe, PTL

\* MAX_TUI_CLIENTS is never exceeded, however many connections compete.
THEOREM LimitHolds == Spec => []ClientLimit
BY SubscriptionSafe, PTL

\* broadcast_event writes to subscribers only, however requests interleave.
THEOREM WritesToSubscribersOnly == Spec => OnlySubscribersWritten
<1> DEFINE Written == \A c \in Conns :
              (sending.event # NoEvent /\ wire'[c] = Append(wire[c], sending.event))
                 => sending.event.ids \intersect subs[c] # {}
<1>1. TypeOK /\ TodoSubscribed /\ [Next]_vars => [Written]_vars
  BY StepWrites
<1> QED
  BY <1>1, SubscriptionSafe, PTL DEF Spec, OnlySubscribersWritten

-----------------------------------------------------------------------------
(* What messages make a client display *)

LEMMA Display ==
    ASSUME NEW m \in Messages, NEW ids \in SUBSET Ids
    PROVE  /\ Displayed(ids, m) \in SUBSET Ids
           /\ \A x \in Ids : x \in Displayed(ids, m) <=>
                 Shows(m, x) \/ (x \in ids /\ ~Decides(m, x))
<1>1. CASE m \in Events
  <2>1. PICK y \in Ids : m = Event("updated", y) \/ m = Event("removed", y)
    BY <1>1 DEF Events
  <2>2. m.ids = {y} /\ m.kind \in {"updated", "removed"}
    BY <2>1 DEF Event
  <2> QED
    BY <2>2 DEF Displayed, Shows, Decides
<1>2. ASSUME NEW new \in SUBSET Ids, m = List(new)
      PROVE  /\ Displayed(ids, m) \in SUBSET Ids
             /\ \A x \in Ids : x \in Displayed(ids, m) <=>
                   Shows(m, x) \/ (x \in ids /\ ~Decides(m, x))
  <2>1. m.ids = new /\ m.kind = "list"
    BY <1>2 DEF List
  <2> QED
    BY <2>1 DEF Displayed, Shows, Decides
<1>3. CASE m = Answer
  <2>1. m.ids = {} /\ m.kind = "answer"
    BY <1>3 DEF Answer
  <2> QED
    BY <2>1 DEF Displayed, Shows, Decides
<1> QED
  BY <1>1, <1>2, <1>3 DEF Messages

LEMMA AfterNothing ==
    ASSUME NEW ids \in SUBSET Ids
    PROVE  After(ids, <<>>) = ids
<1>1. DOMAIN <<>> = {}
  OBVIOUS
<1> QED
  BY <1>1 DEF After

\* After is what applying the messages one by one comes to: a message added at
\* the end is applied last, and the first may be applied beforehand.
LEMMA AfterAppend ==
    ASSUME NEW s \in Seq(Messages), NEW m \in Messages, NEW ids \in SUBSET Ids
    PROVE  After(ids, Append(s, m)) = Displayed(After(ids, s), m)
<1> DEFINE t == Append(s, m)
           n == Len(s)
<1>1. /\ n \in Nat /\ DOMAIN s = 1..n /\ DOMAIN t = 1..(n + 1)
      /\ t[n + 1] = m /\ \A i \in 1..n : t[i] = s[i]
  OBVIOUS
<1> HIDE DEF t, n
<1>2. After(ids, s) \in SUBSET Ids
  BY DEF After
<1>3. ASSUME NEW x \in Ids
      PROVE  x \in After(ids, t) <=> Shows(m, x) \/ (x \in After(ids, s) /\ ~Decides(m, x))
  <2>1. CASE Decides(m, x)
    <3>1. \A i \in DOMAIN t : LastWord(t, i, x) <=> i = n + 1
      BY <1>1, <2>1 DEF LastWord
    <3> QED
      BY <1>1, <2>1, <3>1 DEF After
  <2>2. CASE ~Decides(m, x)
    <3>1. ~Shows(m, x)
      BY <2>2 DEF Shows, Decides
    <3>2. \A i \in DOMAIN t : LastWord(t, i, x) <=> i \in DOMAIN s /\ LastWord(s, i, x)
      BY <1>1, <2>2 DEF LastWord
    <3>3. (\A i \in DOMAIN t : ~Decides(t[i], x)) <=> \A i \in DOMAIN s : ~Decides(s[i], x)
      BY <1>1, <2>2
    <3>4. (\E i \in DOMAIN t : LastWord(t, i, x) /\ Shows(t[i], x)) <=>
          \E i \in DOMAIN s : LastWord(s, i, x) /\ Shows(s[i], x)
      BY <1>1, <3>2
    <3> QED
      BY <2>2, <3>1, <3>3, <3>4 DEF After
  <2> QED
    BY <2>1, <2>2
<1>4. After(ids, t) \in SUBSET Ids
  BY DEF After
<1>5. After(ids, t) = Displayed(After(ids, s), m)
  BY <1>2, <1>3, <1>4, Display
<1> QED
  BY <1>5 DEF t

LEMMA AfterConcat ==
    ASSUME NEW s \in Seq(Messages), NEW t \in Seq(Messages), NEW ids \in SUBSET Ids
    PROVE  After(ids, s \o t) = After(After(ids, s), t)
<1> DEFINE u == s \o t
           n == Len(s)
<1>1. /\ n \in Nat /\ Len(t) \in Nat /\ DOMAIN s = 1..n /\ DOMAIN t = 1..Len(t)
      /\ DOMAIN u = 1..(n + Len(t))
      /\ \A i \in DOMAIN s : u[i] = s[i]
      /\ \A i \in DOMAIN t : u[n + i] = t[i]
  OBVIOUS
<1> HIDE DEF u, n
<1>2. /\ \A i \in DOMAIN u : i \in DOMAIN s \/ (i - n \in DOMAIN t /\ u[i] = t[i - n])
      /\ \A i \in DOMAIN s : i \in DOMAIN u
      /\ \A i \in DOMAIN t : n + i \in DOMAIN u /\ n + i \notin DOMAIN s
  <2>1. ASSUME NEW i \in DOMAIN u, i \notin DOMAIN s
        PROVE  i - n \in DOMAIN t /\ n + (i - n) = i
    BY <1>1, <2>1
  <2>2. /\ \A i \in DOMAIN s : i \in DOMAIN u
        /\ \A i \in DOMAIN t : n + i \in DOMAIN u /\ n + i \notin DOMAIN s
    BY <1>1
  <2> QED
    BY <1>1, <2>1, <2>2
<1>3. ASSUME NEW x \in Ids
      PROVE  x \in After(ids, u) <=> x \in After(After(ids, s), t)
  <2>1. CASE \A j \in DOMAIN t : ~Decides(t[j], x)
    <3>1. \A i \in DOMAIN u : Decides(u[i], x) => i \in DOMAIN s /\ Decides(s[i], x)
      BY <1>1, <1>2, <2>1
    <3>2. \A i \in DOMAIN s : Decides(s[i], x) <=> Decides(u[i], x)
      BY <1>1
    <3>3. \A i \in DOMAIN s : LastWord(u, i, x) <=> LastWord(s, i, x)
      BY <1>2, <3>1, <3>2 DEF LastWord
    <3>4. (\E i \in DOMAIN u : LastWord(u, i, x) /\ Shows(u[i], x)) <=>
          \E i \in DOMAIN s : LastWord(s, i, x) /\ Shows(s[i], x)
      BY <1>1, <1>2, <3>1, <3>3 DEF LastWord
    <3>5. (\A i \in DOMAIN u : ~Decides(u[i], x)) <=> \A i \in DOMAIN s : ~Decides(s[i], x)
      BY <1>2, <3>1, <3>2
    <3>6. x \in After(After(ids, s), t) <=> x \in After(ids, s)
      <4>1. \A i \in DOMAIN t : ~LastWord(t, i, x)
        BY <2>1 DEF LastWord
      <4> QED
        BY <2>1, <4>1 DEF After
    <3> QED
      BY <3>4, <3>5, <3>6 DEF After
  <2>2. CASE \E j \in DOMAIN t : Decides(t[j], x)
    <3>1. PICK j \in DOMAIN t : Decides(t[j], x)
      BY <2>2
    <3>2. n + j \in DOMAIN u /\ Decides(u[n + j], x)
      BY <1>1, <1>2, <3>1
    <3>3. \A i \in DOMAIN u : LastWord(u, i, x) => i - n \in DOMAIN t /\ u[i] = t[i - n]
      <4>1. \A i \in DOMAIN s : i < n + j
        BY <1>1
      <4>2. \A i \in DOMAIN u : LastWord(u, i, x) => n + j <= i
        BY <3>2 DEF LastWord
      <4>3. \A i \in DOMAIN u : i \in Int
        BY <1>1
      <4>4. \A i \in DOMAIN s : ~(n + j <= i)
        BY <1>1
      <4> QED
        BY <1>2, <4>2, <4>4
    <3>4. \A i \in DOMAIN t : LastWord(t, i, x) => LastWord(u, n + i, x)
      <4> SUFFICES ASSUME NEW i \in DOMAIN t, LastWord(t, i, x),
                          NEW k \in DOMAIN u, Decides(u[k], x)
                   PROVE  k <= n + i
        BY <1>1, <1>2 DEF LastWord
      <4>1. CASE k \in DOMAIN s
        BY <1>1, <4>1
      <4>2. CASE k - n \in DOMAIN t /\ u[k] = t[k - n]
        <5>1. k - n <= i
          BY <4>2 DEF LastWord
        <5> QED
          BY <1>1, <5>1
      <4> QED
        BY <1>2, <4>1, <4>2
    <3>5. \A i \in DOMAIN t : LastWord(u, n + i, x) => LastWord(t, i, x)
      <4> SUFFICES ASSUME NEW i \in DOMAIN t, LastWord(u, n + i, x),
                          NEW k \in DOMAIN t, Decides(t[k], x)
                   PROVE  k <= i
        BY <1>1, <1>2 DEF LastWord
      <4>1. n + k \in DOMAIN u /\ Decides(u[n + k], x)
        BY <1>1, <1>2
      <4>2. n + k <= n + i
        BY <4>1 DEF LastWord
      <4> QED
        BY <1>1, <4>2
    <3>6. ASSUME NEW i \in DOMAIN u, LastWord(u, i, x), Shows(u[i], x)
          PROVE  \E k \in DOMAIN t : LastWord(t, k, x) /\ Shows(t[k], x)
      <4>1. i - n \in DOMAIN t /\ u[i] = t[i - n] /\ n + (i - n) = i
        BY <1>1, <3>3, <3>6
      <4>2. LastWord(t, i - n, x)
        BY <3>5, <3>6, <4>1
      <4> QED
        BY <3>6, <4>1, <4>2
    <3>7. (\E i \in DOMAIN u : LastWord(u, i, x) /\ Shows(u[i], x)) <=>
          \E i \in DOMAIN t : LastWord(t, i, x) /\ Shows(t[i], x)
      BY <1>1, <1>2, <3>4, <3>6
    <3> QED
      BY <3>1, <3>2, <3>7 DEF After
  <2> QED
    BY <2>1, <2>2
<1>4. After(ids, u) = After(After(ids, s), t)
  BY <1>3 DEF After
<1> QED
  BY <1>4 DEF u

LEMMA AfterOne ==
    ASSUME NEW m \in Messages, NEW ids \in SUBSET Ids
    PROVE  After(ids, <<m>>) = Displayed(ids, m)
<1>1. <<>> \in Seq(Messages) /\ <<m>> = Append(<<>>, m)
  OBVIOUS
<1> QED
  BY <1>1, AfterAppend, AfterNothing

LEMMA AfterHead ==
    ASSUME NEW s \in Seq(Messages), s # <<>>, NEW ids \in SUBSET Ids
    PROVE  After(ids, s) = After(Displayed(ids, Head(s)), Tail(s))
<1>1. /\ <<Head(s)>> \in Seq(Messages) /\ Tail(s) \in Seq(Messages) /\ Head(s) \in Messages
      /\ s = <<Head(s)>> \o Tail(s)
  OBVIOUS
<1>2. After(ids, <<Head(s)>> \o Tail(s)) = After(After(ids, <<Head(s)>>), Tail(s))
  BY <1>1, AfterConcat
<1> QED
  BY <1>1, <1>2, AfterOne

\* Messages that tell of what is there leave it, and so do the last of them.
LEMMA AfterTail ==
    ASSUME NEW s \in Seq(Messages), s # <<>>, NEW ids \in SUBSET Ids, After(ids, s) = ids
    PROVE  After(ids, Tail(s)) = ids
<1> DEFINE t == Tail(s)
           n == Len(s)
<1>1. /\ n \in Nat /\ n > 0 /\ DOMAIN s = 1..n /\ DOMAIN t = 1..(n - 1)
      /\ \A i \in 1..(n - 1) : t[i] = s[i + 1]
  OBVIOUS
<1> HIDE DEF t, n
<1>2. ASSUME NEW x \in Ids
      PROVE  x \in After(ids, t) <=> x \in ids
  <2>1. ASSUME NEW i \in DOMAIN t, LastWord(t, i, x)
        PROVE  i + 1 \in DOMAIN s /\ LastWord(s, i + 1, x) /\ s[i + 1] = t[i]
    <3>1. i + 1 \in DOMAIN s /\ s[i + 1] = t[i] /\ Decides(s[i + 1], x)
      BY <1>1, <2>1 DEF LastWord
    <3>2. ASSUME NEW k \in DOMAIN s, Decides(s[k], x)
          PROVE  k <= i + 1
      <4>1. CASE k = 1
        BY <1>1, <4>1
      <4>2. CASE k # 1
        <5>1. k - 1 \in DOMAIN t /\ t[k - 1] = s[k]
          BY <1>1, <4>2
        <5>2. k - 1 <= i
          BY <2>1, <3>2, <5>1 DEF LastWord
        <5> QED
          BY <1>1, <5>2
      <4> QED
        BY <4>1, <4>2
    <3> QED
      BY <3>1, <3>2 DEF LastWord
  <2>2. x \in After(ids, t) => x \in ids
    BY <2>1 DEF After
  <2>3. ASSUME x \in ids PROVE x \in After(ids, t)
    <3>1. CASE \A i \in DOMAIN t : ~Decides(t[i], x)
      BY <2>3, <3>1 DEF After
    <3>2. CASE \E i \in DOMAIN t : Decides(t[i], x)
      <4>1. PICK k \in DOMAIN t : Decides(t[k], x)
        BY <3>2
      <4>2. k + 1 \in DOMAIN s /\ Decides(s[k + 1], x)
        BY <1>1, <4>1
      <4>3. PICK i \in DOMAIN s : LastWord(s, i, x) /\ Shows(s[i], x)
        BY <2>3, <4>2 DEF After
      <4>4. k + 1 <= i
        BY <4>2, <4>3 DEF LastWord
      <4>5. i - 1 \in DOMAIN t /\ t[i - 1] = s[i]
        BY <1>1, <4>4
      <4>6. ASSUME NEW j \in DOMAIN t, Decides(t[j], x)
            PROVE  j <= i - 1
        <5>1. j + 1 \in DOMAIN s /\ Decides(s[j + 1], x)
          BY <1>1, <4>6
        <5>2. j + 1 <= i
          BY <4>3, <5>1 DEF LastWord
        <5> QED
          BY <1>1, <5>2
      <4>7. LastWord(t, i - 1, x) /\ Shows(t[i - 1], x)
        BY <4>3, <4>5, <4>6 DEF LastWord
      <4> QED
        BY <4>5, <4>7 DEF After
    <3> QED
      BY <3>1, <3>2
  <2> QED
    BY <2>2, <2>3
<1>3. After(ids, t) = ids
  BY <1>2 DEF After
<1> QED
  BY <1>3 DEF t

\* What is displayed of a session depends on what was displayed of it.
LEMMA AfterOf ==
    ASSUME NEW ids, NEW those, NEW s, NEW x, x \in ids <=> x \in those
    PROVE  x \in After(ids, s) <=> x \in After(those, s)
BY DEF After

-----------------------------------------------------------------------------
(* What clients are going to display *)

\* A client that displays ids once it has read its socket will display the
\* sessions it asked for once the rest has come.
Leads(c, ids) ==
    After(After(ids, IF Coming(c) THEN <<sending.event>> ELSE <<>>), events)
       \intersect subs[c] = live \intersect subs[c]

ViewTyped ==
    /\ view \in [Conns -> SUBSET Ids]
    /\ gap \in BOOLEAN
    /\ prospect \in [Conns -> Prospects]
    /\ standing \in [Conns -> Standings]

\* What is in the channel, and with it what is being sent unless events were lost
\* in between, tells of the sessions there are.
ChannelTrue ==
    /\ After(live, events) = live
    /\ gap => sending.event # NoEvent
    /\ ~gap /\ sending.event # NoEvent => After(Displayed(live, sending.event), events) = live

\* A list that was not overtaken leads to the sessions there are, and so does
\* what a client displays that was sent such a list.
DueTrue ==
    \A c \in Conns :
       /\ standing[c] = "exact" => open[c] /\ Leads(c, After(view[c], wire[c]))
       /\ handler[c] = "replying" /\ open[c] /\ prospect[c] = "exact" => Leads(c, reply[c])

\* Only who has just subscribed is still to be sent its list.
ListsSent ==
    \A c \in Conns :
       /\ ~open[c] => standing[c] = "none"
       /\ handler[c] = "closed" => subs[c] = {}
       /\ standing[c] = "none" /\ open[c] /\ subs[c] # {} => AwaitsList(c)

ViewInv == ViewTyped /\ ChannelTrue /\ DueTrue /\ ListsSent

LEMMA ViewStepIsStep == [ViewNext]_viewVars => [Next]_vars
<1>1. ViewNext => Next
  BY DEF ViewNext, RegistryStep, BroadcasterStep, HandlerStep, ClientStep, Garble, Next, Client
<1> QED
  BY <1>1 DEF viewVars

LEMMA ViewStarts == ViewInit => ViewInv
<1> SUFFICES ASSUME ViewInit
             PROVE  ViewInv
  OBVIOUS
<1>1. live \in SUBSET Ids /\ events = <<>> /\ sending.event = NoEvent
  BY DEF ViewInit, Init, Idle
<1>2. \A c \in Conns : /\ standing[c] = "none" /\ handler[c] = "closed"
                       /\ subs[c] = {} /\ ~open[c]
  BY DEF ViewInit, Init
<1>3. ViewTyped
  BY DEF ViewInit, ViewTyped, Prospects, Standings
<1> QED
  BY <1>1, <1>2, <1>3, AfterNothing DEF ViewInit, ViewInv, ChannelTrue, DueTrue, ListsSent

\* Events are messages, alone and in sequences.
LEMMA ChannelTyped ==
    ASSUME TypeOK
    PROVE  /\ events \in Seq(Events) /\ events \in Seq(Messages)
           /\ \A c \in Conns : wire[c] \in Seq(Messages)
           /\ sending.event \in Messages \union {NoEvent}
           /\ live \in SUBSET Ids
           /\ \A c \in Conns : reply[c] \in SUBSET Ids /\ subs[c] \in SUBSET Ids
<1>1. Events \subseteq Messages
  BY EventsAreMessages
<1>2. events \in Seq(Events)
  BY DEF TypeOK
<1>3. events \in Seq(Messages)
  BY <1>1, <1>2
<1>4. ASSUME NEW c \in Conns
      PROVE  subs[c] \in SUBSET Ids
  <2>1. subs[c] \in {{}} \union Filters
    BY DEF TypeOK
  <2> QED
    BY <2>1 DEF Filters
<1> QED
  BY <1>1, <1>2, <1>3, <1>4 DEF TypeOK

\* Leads is about sets of sessions.
LEMMA LeadsFor ==
    ASSUME TypeOK, TodoSubscribed, NEW c \in Conns, NEW ids \in SUBSET Ids
    PROVE  Leads(c, ids) <=>
           LET first == IF Coming(c) THEN Displayed(ids, sending.event) ELSE ids
           IN  After(first, events) \intersect subs[c] = live \intersect subs[c]
<1>1. CASE Coming(c)
  <2>1. sending.event \in Messages
    BY <1>1, ChannelTyped DEF TodoSubscribed, Coming
  <2> QED
    BY <1>1, <2>1, AfterOne DEF Leads
<1>2. CASE ~Coming(c)
  BY <1>2, AfterNothing DEF Leads
<1> QED
  BY <1>1, <1>2

-----------------------------------------------------------------------------
(* The registry *)

\* What Appear, Change and Vanish have in common.
LEMMA RegistryEmits ==
    ASSUME TypeOK, Registry
    PROVE  \E x \in Ids : \E m \in {Event("updated", x), Event("removed", x)} :
              /\ Emit(m) /\ live' = Displayed(live, m)
              /\ UNCHANGED <<daemonVars, open, wire>>
<1>1. PICK x \in Ids : Appear(x) \/ Change(x) \/ Vanish(x)
  BY DEF Registry
<1>2. /\ Event("updated", x).kind = "updated" /\ Event("updated", x).ids = {x}
      /\ Event("removed", x).kind = "removed" /\ Event("removed", x).ids = {x}
  BY DEF Event
<1>3. CASE Vanish(x)
  BY <1>2, <1>3 DEF Vanish, Displayed
<1>4. CASE Appear(x) \/ Change(x)
  <2>1. live' = live \union {x}
    BY <1>4 DEF Appear, Change
  <2> QED
    BY <1>2, <1>4, <2>1 DEF Appear, Change, Displayed
<1> QED
  BY <1>1, <1>3, <1>4

LEMMA RegistryView ==
    ASSUME TypeOK, ViewInv, RegistryStep
    PROVE  ViewInv'
<1>0. PICK x \in Ids : \E m \in {Event("updated", x), Event("removed", x)} :
         /\ Emit(m) /\ live' = Displayed(live, m)
         /\ UNCHANGED <<daemonVars, open, wire>>
  BY RegistryEmits DEF RegistryStep
<1>1. PICK m \in {Event("updated", x), Event("removed", x)} :
         /\ Emit(m) /\ live' = Displayed(live, m)
         /\ UNCHANGED <<daemonVars, open, wire>>
  BY <1>0
<1>2. /\ m \in Messages /\ events \in Seq(Messages) /\ live \in SUBSET Ids
      /\ live' \in SUBSET Ids
      /\ \A c \in Conns : wire[c] \in Seq(Messages) /\ reply[c] \in SUBSET Ids
      /\ \A c \in Conns : subs[c] \in SUBSET Ids
  BY ChannelTyped, EventsAreMessages, Display, <1>1
<1>3. UNCHANGED <<sending, subs, handler, reply, open, wire, view>>
  BY <1>1 DEF daemonVars, RegistryStep
<1>4. ViewTyped'
  <2>1. ViewTyped
    BY DEF ViewInv
  <2>2. CASE UNCHANGED historyVars
    BY <1>3, <2>1, <2>2 DEF ViewTyped, historyVars
  <2>3. CASE /\ gap' = (sending.event # NoEvent)
             /\ prospect' = [c \in Conns |->
                                IF handler[c] = "replying" THEN "lost" ELSE prospect[c]]
             /\ standing' = [c \in Conns |-> Missing(standing[c], "lost")]
    BY <1>3, <2>1, <2>3 DEF ViewTyped, Prospects, Standings, Missing
  <2> QED
    BY <2>2, <2>3 DEF RegistryStep
\* Of a session that m does not tell of, the channel tells as much as before.
<1>5. ASSUME NEW s \in Seq(Messages), After(live, s) = live
      PROVE  After(live', Append(s, m)) = live'
  <2>1. After(live', s) \in SUBSET Ids /\ After(live', Append(s, m)) = Displayed(After(live', s), m)
    BY <1>2, AfterAppend DEF After
  <2>2. ASSUME NEW y \in Ids
        PROVE  y \in Displayed(After(live', s), m) <=> y \in live'
    <3>1. CASE Decides(m, y)
      BY <1>1, <1>2, <2>1, <3>1, Display
    <3>2. CASE ~Decides(m, y)
      <4>1. y \in live' <=> y \in live
        BY <1>1, <1>2, <3>2, Display DEF Shows, Decides
      <4>2. y \in After(live', s) <=> y \in live
        BY <1>5, <4>1, AfterOf
      <4> QED
        BY <1>2, <2>1, <3>2, <4>1, <4>2, Display DEF Shows, Decides
    <3> QED
      BY <3>1, <3>2
  <2>3. Displayed(After(live', s), m) \in SUBSET Ids
    BY <1>2, <2>1, Display
  <2> QED
    BY <1>2, <2>1, <2>2, <2>3
<1>6. CASE Len(events) < ChannelSize
  <2>1. events' = Append(events, m) /\ UNCHANGED historyVars
    BY <1>1, <1>6 DEF Emit, RegistryStep
  <2>2. After(live, events)' = live'
    BY <1>2, <1>5, <2>1 DEF ViewInv, ChannelTrue
  <2>3. ~gap /\ sending.event # NoEvent
           => After(Displayed(live, sending.event), events)' = live'
    <3> SUFFICES ASSUME ~gap, sending.event # NoEvent
                 PROVE  After(Displayed(live', sending.event), Append(events, m)) = live'
      BY <1>3, <2>1
    <3>1. sending.event \in Messages
      BY ChannelTyped
    <3>2. After(Displayed(live, sending.event), events) = live
      BY DEF ViewInv, ChannelTrue
    <3>3. /\ Displayed(live, sending.event) \in SUBSET Ids
          /\ Displayed(live', sending.event) \in SUBSET Ids
      BY <1>2, <3>1, Display
    <3>4. /\ After(Displayed(live', sending.event), Append(events, m)) =
                Displayed(After(Displayed(live', sending.event), events), m)
          /\ After(Displayed(live', sending.event), events) \in SUBSET Ids
      BY <1>2, <3>3, AfterAppend DEF After
    <3>5. ASSUME NEW y \in Ids
          PROVE  y \in Displayed(After(Displayed(live', sending.event), events), m) <=> y \in live'
      <4>1. CASE Decides(m, y)
        BY <1>1, <1>2, <3>4, <4>1, Display
      <4>2. CASE ~Decides(m, y)
        <5>1. y \in live' <=> y \in live
          BY <1>1, <1>2, <4>2, Display DEF Shows, Decides
        <5>2. y \in Displayed(live', sending.event) <=> y \in Displayed(live, sending.event)
          BY <1>2, <3>1, <5>1, Display
        <5>3. y \in After(Displayed(live', sending.event), events) <=> y \in live
          BY <3>2, <5>2, AfterOf
        <5> QED
          BY <1>2, <3>4, <4>2, <5>1, <5>3, Display DEF Shows, Decides
      <4> QED
        BY <4>1, <4>2
    <3>6. Displayed(After(Displayed(live', sending.event), events), m) \in SUBSET Ids
      BY <1>2, <3>4, Display
    <3> QED
      BY <1>2, <3>4, <3>5, <3>6
  <2>4. ChannelTrue'
    BY <1>3, <2>1, <2>2, <2>3 DEF ViewInv, ChannelTrue, historyVars
  <2>5. ASSUME NEW c \in Conns, NEW ids \in SUBSET Ids, Leads(c, ids)
        PROVE  Leads(c, ids)'
    <3> DEFINE first == After(ids, IF Coming(c) THEN <<sending.event>> ELSE <<>>)
    <3>1. first \in SUBSET Ids /\ After(first, events) \intersect subs[c] = live \intersect subs[c]
      BY <2>5 DEF Leads, After
    <3> HIDE DEF first
    <3>2. After(first, Append(events, m)) \intersect subs[c] = live' \intersect subs[c]
      <4> DEFINE before == After(first, events)
      <4>1. After(first, Append(events, m)) = Displayed(before, m) /\ before \in SUBSET Ids
        BY <1>2, <3>1, AfterAppend DEF After
      <4>2. before \intersect subs[c] = live \intersect subs[c]
        BY <3>1
      <4> HIDE DEF before
      <4>3. Displayed(before, m) \intersect subs[c] = Displayed(live, m) \intersect subs[c]
        BY <1>2, <4>1, <4>2, Display
      <4> QED
        BY <1>1, <4>1, <4>3
    <3>3. Leads(c, ids)' <=>
             After(first, Append(events, m)) \intersect subs[c] = live' \intersect subs[c]
      BY <1>3, <2>1 DEF Leads, first, Coming, ReadLockHeld
    <3> QED
      BY <3>2, <3>3
  <2>6. \A c \in Conns : After(view[c], wire[c]) \in SUBSET Ids
    BY DEF After
  <2>7. DueTrue'
    BY <1>2, <1>3, <2>1, <2>5, <2>6 DEF ViewInv, DueTrue, historyVars
  <2>8. ListsSent'
    BY <1>3, <2>1 DEF ViewInv, ListsSent, AwaitsList, historyVars
  <2> QED
    BY <1>4, <2>4, <2>7, <2>8 DEF ViewInv
<1>7. CASE Len(events) = ChannelSize
  <2>1. /\ events # <<>> /\ Tail(events) \in Seq(Messages)
    BY <1>2, <1>7, SubscriptionAssumption
  <2>2. /\ events' = Append(Tail(events), m)
        /\ gap' = (sending.event # NoEvent)
        /\ prospect' = [c \in Conns |->
                           IF handler[c] = "replying" THEN "lost" ELSE prospect[c]]
        /\ standing' = [c \in Conns |-> Missing(standing[c], "lost")]
    BY <1>1, <1>7, SubscriptionAssumption DEF Emit, RegistryStep
  <2>3. After(live, events)' = live'
    BY <1>2, <1>5, <2>1, <2>2, AfterTail DEF ViewInv, ChannelTrue
  <2>4. ChannelTrue'
    BY <1>3, <2>2, <2>3 DEF ChannelTrue
  <2>5. \A c \in Conns : /\ standing'[c] # "exact"
                         /\ standing'[c] = "none" <=> standing[c] = "none"
                         /\ handler[c] = "replying" => prospect'[c] = "lost"
    BY <2>2 DEF Missing
  <2>6. DueTrue'
    BY <1>3, <2>5 DEF DueTrue
  <2>7. ListsSent'
    BY <1>3, <2>5 DEF ViewInv, ListsSent, AwaitsList
  <2> QED
    BY <1>4, <2>4, <2>6, <2>7 DEF ViewInv
<1>8. Len(events) < ChannelSize \/ Len(events) = ChannelSize
  BY DEF RegistryStep
<1> QED
  BY <1>6, <1>7, <1>8

-----------------------------------------------------------------------------
(* The broadcaster *)

LEMMA NextEventView ==
    ASSUME TypeOK, TodoSubscribed, ViewInv, BroadcasterStep, NextEvent
    PROVE  ChannelTrue' /\ DueTrue'
<1> DEFINE h == Head(events)
           t == Tail(events)
<1>1. /\ sending.event = NoEvent /\ ~ReadLockHeld /\ events # <<>>
      /\ sending'.event = h /\ ~ReadLockHeld' /\ events' = t
      /\ UNCHANGED <<live, subs, handler, reply, open, wire, view, standing, prospect>>
  BY DEF NextEvent, Idle, BroadcasterStep, ReadLockHeld, ViewInv, ViewTyped
<1>2. /\ h \in Messages /\ h # NoEvent /\ t \in Seq(Messages) /\ live \in SUBSET Ids
      /\ events \in Seq(Messages)
      /\ \A c \in Conns : reply[c] \in SUBSET Ids
  BY <1>1, ChannelTyped, EventsAreMessages, SubscriptionAssumption
<1>3. \A ids \in SUBSET Ids : After(ids, events) = After(Displayed(ids, h), t)
  BY <1>1, <1>2, AfterHead
<1>4. After(live, events) = live /\ ~gap
  BY <1>1 DEF ViewInv, ChannelTrue
<1>5. After(live, t) = live
  BY <1>1, <1>2, <1>4, AfterTail
<1> HIDE DEF h, t
<1>6. ChannelTrue'
  <2>1. ~gap'
    BY <1>4 DEF BroadcasterStep
  <2>2. After(Displayed(live, h), t) = live
    BY <1>2, <1>3, <1>4
  <2> QED
    BY <1>1, <1>5, <2>1, <2>2 DEF ChannelTrue
<1>7. ASSUME NEW c \in Conns, NEW ids \in SUBSET Ids, Leads(c, ids)
      PROVE  Leads(c, ids)'
  <2>1. ~Coming(c) /\ Coming(c)'
    BY <1>1, <1>2 DEF Coming
  <2>2. After(Displayed(ids, h), t) \intersect subs[c] = live \intersect subs[c]
    BY <1>3, <1>7, <2>1, AfterNothing DEF Leads
  <2>3. After(ids, <<h>>) = Displayed(ids, h)
    BY <1>2, AfterOne
  <2> QED
    BY <1>1, <2>1, <2>2, <2>3 DEF Leads
<1>8. \A c \in Conns : After(view[c], wire[c]) \in SUBSET Ids
  BY DEF After
<1>9. DueTrue'
  BY <1>1, <1>2, <1>7, <1>8 DEF ViewInv, DueTrue
<1> QED
  BY <1>6, <1>9

\* To a connection that did not ask for it, the event makes no difference.
LEMMA LockSubscribersView ==
    ASSUME TypeOK, TodoSubscribed, ViewInv, BroadcasterStep, LockSubscribers
    PROVE  ChannelTrue' /\ DueTrue'
<1> DEFINE e == sending.event
<1>1. /\ e # NoEvent /\ ~ReadLockHeld /\ ReadLockHeld' /\ sending'.event = e
      /\ sending'.todo = {c \in Conns : subs[c] \intersect e.ids # {}}
      /\ UNCHANGED <<live, events, subs, handler, reply, open, wire, view, standing,
                    prospect, gap>>
  BY DEF LockSubscribers, BroadcasterStep, ReadLockHeld, ViewInv, ViewTyped, TypeOK
<1>2. /\ e \in Events /\ e \in Messages
      /\ \A c \in Conns : subs[c] \in SUBSET Ids /\ reply[c] \in SUBSET Ids
  BY <1>1, ChannelTyped, EventsAreMessages DEF TypeOK
<1>3. ChannelTrue'
  BY <1>1 DEF ViewInv, ChannelTrue
<1>4. ASSUME NEW c \in Conns, NEW ids \in SUBSET Ids, Leads(c, ids)
      PROVE  Leads(c, ids)'
  <2>1. Coming(c) /\ (Coming(c)' <=> c \in sending'.todo)
    BY <1>1 DEF Coming
  <2>2. CASE c \in sending'.todo
    BY <1>1, <1>4, <2>1, <2>2 DEF Leads
  <2>3. CASE c \notin sending'.todo
    <3>1. subs[c] \intersect e.ids = {}
      BY <1>1, <2>3
    <3>2. e.kind # "list"
      BY <1>2 DEF Events, Event
    <3> HIDE DEF e
    <3>3. \A y \in subs[c] : y \in Displayed(ids, e) <=> y \in ids
      BY <1>2, <3>1, <3>2, Display DEF Decides, Shows
    <3>4. \A y \in subs[c] : y \in After(Displayed(ids, e), events) <=> y \in After(ids, events)
      BY <3>3, AfterOf
    <3>5. After(Displayed(ids, e), events) \intersect subs[c] = live \intersect subs[c]
      BY <1>2, <1>4, <2>1, AfterOne DEF Leads, e
    <3>6. After(ids, events) \intersect subs[c] = live \intersect subs[c]
      BY <3>4, <3>5
    <3> QED
      BY <1>1, <2>1, <2>3, <3>6, AfterNothing DEF Leads
  <2> QED
    BY <2>2, <2>3
<1>5. \A c \in Conns : After(view[c], wire[c]) \in SUBSET Ids
  BY DEF After
<1>6. DueTrue'
  BY <1>1, <1>2, <1>4, <1>5 DEF ViewInv, DueTrue
<1> QED
  BY <1>3, <1>6

\* The end of an event, with or without clients to forget, and the wait for a
\* writer.
LEMMA QuietBroadcasterView ==
    ASSUME TypeOK, TodoSubscribed, ViewInv, BroadcasterStep,
           FinishEvent \/ RemoveFailed \/ \E c \in Conns : LockWriter(c)
    PROVE  ChannelTrue' /\ DueTrue'
<1>1. /\ UNCHANGED <<live, events, handler, reply, open, wire, view, standing, prospect>>
      /\ \A c \in Conns : subs'[c] \in {{}, subs[c]}
      /\ \A c \in Conns : Coming(c)' <=> Coming(c)
      /\ sending'.event \in {NoEvent, sending.event}
      /\ \A c \in Conns : Coming(c) => sending'.event = sending.event
  <2>1. UNCHANGED prospect /\ UNCHANGED <<view, standing>>
    BY DEF FinishEvent, RemoveFailed, LockWriter, BroadcasterStep, ViewInv, ViewTyped
  <2>2. CASE FinishEvent
    BY <2>1, <2>2 DEF FinishEvent, Idle, Coming, ReadLockHeld
  <2>3. CASE RemoveFailed
    <3>1. ~ReadLockHeld /\ sending.event = NoEvent
      BY <2>3 DEF RemoveFailed, WriteLockFree, TodoSubscribed
    <3> QED
      BY <2>1, <2>3, <3>1 DEF RemoveFailed, Idle, Coming, ReadLockHeld
  <2>4. ASSUME NEW c \in Conns, LockWriter(c)
        PROVE  /\ UNCHANGED <<live, events, handler, reply, open, wire, subs>>
               /\ sending'.todo = sending.todo /\ sending'.event = sending.event
               /\ sending'.locked = sending.locked
    BY <2>4 DEF LockWriter, TypeOK
  <2>5. CASE \E c \in Conns : LockWriter(c)
    BY <2>1, <2>4, <2>5 DEF Coming, ReadLockHeld
  <2> QED
    BY <2>2, <2>3, <2>5
<1>2. ChannelTrue'
  BY <1>1 DEF BroadcasterStep, ViewInv, ChannelTrue
<1>3. ASSUME NEW c \in Conns, NEW ids, Leads(c, ids)
      PROVE  Leads(c, ids)'
  <2>1. CASE subs'[c] = {}
    BY <2>1 DEF Leads
  <2>2. CASE subs'[c] = subs[c]
    BY <1>1, <1>3, <2>2 DEF Leads
  <2> QED
    BY <1>1, <2>1, <2>2
<1>4. DueTrue'
  BY <1>1, <1>3 DEF ViewInv, DueTrue
<1> QED
  BY <1>2, <1>4

LEMMA WriteEventView ==
    ASSUME TypeOK, TodoSubscribed, ViewInv, BroadcasterStep,
           NEW c \in Conns, WriteEvent(c)
    PROVE  ChannelTrue' /\ DueTrue'
<1> DEFINE e == sending.event
<1>1. /\ sending'.event = e /\ e # NoEvent
      /\ Coming(c) /\ ~Coming(c)'
      /\ \A d \in Conns \ {c} : Coming(d)' <=> Coming(d)
      /\ UNCHANGED <<live, events, subs, handler, reply, open, view, standing>>
      /\ \/ open[c] /\ wire' = [wire EXCEPT ![c] = Append(@, e)]
         \/ ~open[c] /\ UNCHANGED wire
  <2>1. c \in sending.todo /\ ReadLockHeld
    BY SubscriptionAssumption DEF WriteEvent, TodoSubscribed
  <2>2. /\ sending'.event = e /\ sending'.todo = sending.todo \ {c}
        /\ sending'.locked = sending.locked
    BY DEF WriteEvent, TypeOK
  <2> QED
    BY <2>1, <2>2 DEF WriteEvent, TypeOK, BroadcasterStep, Coming, ReadLockHeld, TodoSubscribed
<1>2. /\ e \in Messages /\ wire[c] \in Seq(Messages) /\ events \in Seq(Messages)
      /\ view[c] \in SUBSET Ids
  BY <1>1, ChannelTyped DEF ViewInv, ViewTyped
<1> HIDE DEF e
<1>3. ChannelTrue'
  BY <1>1 DEF BroadcasterStep, ViewInv, ChannelTrue, e
<1>4. ASSUME NEW d \in Conns \ {c}
      PROVE  /\ standing'[d] = "exact" => open'[d] /\ Leads(d, After(view[d], wire[d]))'
             /\ handler'[d] = "replying" /\ open'[d] /\ prospect'[d] = "exact"
                   => Leads(d, reply[d])'
  <2>1. wire'[d] = wire[d]
    BY <1>1 DEF TypeOK
  <2>2. prospect'[d] = prospect[d]
    BY <2>1 DEF BroadcasterStep, ViewInv, ViewTyped
  <2>3. \A ids : Leads(d, ids)' <=> Leads(d, ids)
    BY <1>1 DEF Leads, e
  <2> QED
    BY <1>1, <2>1, <2>2, <2>3 DEF ViewInv, DueTrue
<1>5. CASE ~open[c]
  <2>1. standing'[c] # "exact" /\ ~open'[c]
    BY <1>1, <1>5 DEF ViewInv, DueTrue
  <2> QED
    BY <1>3, <1>4, <2>1 DEF DueTrue
<1>6. CASE open[c]
  <2>1. wire'[c] = Append(wire[c], e)
    BY <1>1, <1>6 DEF TypeOK
  <2>2. wire'[c] # wire[c]
    <3>1. Len(wire'[c]) = Len(wire[c]) + 1 /\ Len(wire[c]) \in Nat
      BY <1>2, <2>1
    <3> QED
      BY <3>1
  <2>3. handler'[c] = "replying" => prospect'[c] # "exact"
    BY <1>1, <2>2 DEF BroadcasterStep
  <2>4. ASSUME standing[c] = "exact"
        PROVE  Leads(c, After(view[c], wire[c]))'
    <3> DEFINE shown == After(view[c], wire[c])
    <3>1. shown \in SUBSET Ids
      BY DEF After
    <3>2. Leads(c, shown)
      BY <2>4 DEF ViewInv, DueTrue
    <3>3. After(view[c], Append(wire[c], e)) = Displayed(shown, e)
      BY <1>2, AfterAppend
    <3>4. After(view[c], wire[c])' = Displayed(shown, e)
      BY <1>1, <2>1, <3>3
    <3> HIDE DEF shown
    <3>5. After(Displayed(shown, e), events) \intersect subs[c] = live \intersect subs[c]
      BY <1>1, <1>2, <3>1, <3>2, AfterOne DEF Leads, e
    <3>6. Displayed(shown, e) \in SUBSET Ids
      BY <1>2, <3>1, Display
    <3> QED
      BY <1>1, <3>4, <3>5, <3>6, AfterNothing DEF Leads
  <2> QED
    BY <1>1, <1>3, <1>4, <1>6, <2>3, <2>4 DEF DueTrue, ViewInv
<1> QED
  BY <1>5, <1>6

LEMMA BroadcasterView ==
    ASSUME TypeOK, TodoSubscribed, ViewInv, BroadcasterStep
    PROVE  ViewInv'
<1>1. ViewTyped'
  BY DEF ViewInv, ViewTyped, BroadcasterStep, Prospects
<1>2. ChannelTrue' /\ DueTrue'
  BY NextEventView, LockSubscribersView, QuietBroadcasterView, WriteEventView
     DEF BroadcasterStep, Broadcaster
<1>3. UNCHANGED <<handler, open, standing>> /\ \A c \in Conns : subs'[c] \in {{}, subs[c]}
  BY DEF BroadcasterStep, Broadcaster, NextEvent, LockSubscribers, FinishEvent, RemoveFailed,
         LockWriter, WriteEvent
<1>4. ListsSent'
  BY <1>3 DEF ViewInv, ListsSent, AwaitsList
<1> QED
  BY <1>1, <1>2, <1>4 DEF ViewInv

-----------------------------------------------------------------------------
(* Handlers and clients *)

\* What a handler touches: its own entry, and what is sent to its client.
LEMMA HandlerTouches ==
    ASSUME TypeOK, NEW c \in Conns, Requests(c) \/ Handling(c)
    PROVE  /\ UNCHANGED <<live, events, sending, open>>
           /\ \A d \in Conns \ {c} : /\ subs'[d] = subs[d] /\ handler'[d] = handler[d]
                                     /\ reply'[d] = reply[d] /\ wire'[d] = wire[d]
           /\ \/ SendList(c)
              \/ Snapshot(c)
              \/ /\ handler[c] # "replying" /\ handler'[c] # "replying"
                 /\ wire'[c] \in {wire[c], Append(wire[c], Answer)}
<1>1. CASE SendList(c) \/ Snapshot(c)
  BY <1>1 DEF SendList, Snapshot, Delivered, NotDelivered, Goto, TypeOK
<1>2. ASSUME NEW filter \in Filters, Subscribe(c, filter)
      PROVE  /\ UNCHANGED <<live, events, sending, open, subs, reply, wire>>
             /\ \A d \in Conns \ {c} : handler'[d] = handler[d]
             /\ handler[c] # "replying" /\ handler'[c] # "replying"
  BY <1>2 DEF Subscribe, Goto, TypeOK
<1>3. CASE ListSessions(c) \/ Unsubscribe(c) \/ Leave(c)
  BY <1>3 DEF ListSessions, Unsubscribe, Leave, Goto, TypeOK
<1>4. CASE AddSubscriber(c) \/ RemoveSubscriber(c)
  BY <1>4 DEF AddSubscriber, RemoveSubscriber, Goto, TypeOK
<1>5. CASE OtherRequest(c) \/ Refuse(c) \/ SendError(c)
  BY <1>5 DEF OtherRequest, Refuse, SendError, Delivered, NotDelivered, Goto, TypeOK
<1> QED
  BY <1>1, <1>2, <1>3, <1>4, <1>5 DEF Requests, Handling

LEMMA HandlerView ==
    ASSUME TypeOK, TodoSubscribed, ViewInv, NEW c \in Conns, HandlerStep(c)
    PROVE  ViewInv'
<1>1. /\ UNCHANGED <<live, events, sending, open, view, gap>>
      /\ \A d \in Conns \ {c} : /\ subs'[d] = subs[d] /\ handler'[d] = handler[d]
                                /\ reply'[d] = reply[d] /\ wire'[d] = wire[d]
                                /\ standing'[d] = standing[d] /\ prospect'[d] = prospect[d]
      /\ prospect'[c] = IF handler'[c] = "replying" /\ gap THEN "lost" ELSE "exact"
      /\ standing'[c] = IF handler[c] = "replying" /\ subs[c] # {} THEN AfterSending(c)
                        ELSE IF subs'[c] = subs[c] THEN standing[c]
                        ELSE "none"
  BY HandlerTouches DEF HandlerStep, ViewInv, ViewTyped
<1>2. ViewTyped'
  BY DEF HandlerStep, AfterSending, ViewInv, ViewTyped, Prospects, Standings
<1>3. ChannelTrue'
  BY <1>1 DEF ViewInv, ChannelTrue
<1>4. \A d \in Conns : subs'[d] = subs[d] => \A ids : Leads(d, ids)' <=> Leads(d, ids)
  BY <1>1 DEF Leads, Coming, ReadLockHeld
<1>5. ASSUME NEW d \in Conns \ {c}
      PROVE  /\ standing'[d] = "exact" => open'[d] /\ Leads(d, After(view[d], wire[d]))'
             /\ handler'[d] = "replying" /\ open'[d] /\ prospect'[d] = "exact"
                   => Leads(d, reply[d])'
  BY <1>1, <1>4 DEF ViewInv, DueTrue
<1>6. wire[c] \in Seq(Messages) /\ view[c] \in SUBSET Ids /\ reply[c] \in SUBSET Ids
  BY ChannelTyped DEF ViewInv, ViewTyped
<1>7. /\ standing'[c] = "exact" => open'[c] /\ Leads(c, After(view[c], wire[c]))'
      /\ handler'[c] = "replying" /\ open'[c] /\ prospect'[c] = "exact"
            => Leads(c, reply[c])'
  <2>1. CASE Snapshot(c)
    <3>1. UNCHANGED <<subs, wire>> /\ reply'[c] = live /\ handler[c] # "replying"
      BY <2>1 DEF Snapshot, TypeOK
    <3>2. ASSUME ~gap
          PROVE  Leads(c, live)
      <4>1. live \in SUBSET Ids /\ (Coming(c) => sending.event # NoEvent)
        BY ChannelTyped DEF TodoSubscribed, Coming
      <4> QED
        BY <3>2, <4>1, LeadsFor DEF ViewInv, ChannelTrue
    <3> QED
      BY <1>1, <1>4, <3>1, <3>2 DEF ViewInv, DueTrue
  <2>2. CASE SendList(c)
    <3>1. UNCHANGED subs /\ handler[c] = "replying" /\ handler'[c] # "replying"
      BY <2>2 DEF SendList, Goto, TypeOK
    <3>2. CASE wire'[c] = wire[c] \/ subs[c] = {}
      <4>1. CASE subs[c] = {}
        BY <1>1, <2>2, <3>1, <4>1 DEF ViewInv, DueTrue, Leads
      <4>2. CASE wire'[c] = wire[c] /\ subs[c] # {}
        BY <1>1, <1>4, <3>1, <4>2 DEF ViewInv, DueTrue, AfterSending
      <4> QED
        BY <3>2, <4>1, <4>2
    <3>3. CASE wire'[c] # wire[c] /\ subs[c] # {}
      <4>1. open[c] /\ wire'[c] = Append(wire[c], List(reply[c]))
        BY <2>2, <3>3 DEF SendList, Delivered, NotDelivered, TypeOK
      <4>2. List(reply[c]) \in Messages /\ After(view[c], wire[c]) \in SUBSET Ids
        BY <1>6, EventsAreMessages DEF After
      <4>3. After(view[c], wire'[c]) = Displayed(After(view[c], wire[c]), List(reply[c]))
        BY <1>6, <4>1, <4>2, AfterAppend
      <4>4. After(view[c], wire'[c]) = reply[c]
        BY <4>3 DEF Displayed, List
      <4>5. standing'[c] = "exact" => Leads(c, reply[c])
        BY <1>1, <3>1, <3>3, <4>1 DEF ViewInv, DueTrue, AfterSending
      <4>6. After(view[c], wire[c])' = reply[c]
        BY <1>1, <4>4
      <4> QED
        BY <1>1, <1>4, <3>1, <4>1, <4>5, <4>6
    <3> QED
      BY <3>2, <3>3
  <2>3. CASE /\ handler[c] # "replying" /\ handler'[c] # "replying"
             /\ wire'[c] \in {wire[c], Append(wire[c], Answer)}
    <3>1. After(view[c], wire'[c]) = After(view[c], wire[c])
      <4>1. CASE wire'[c] = Append(wire[c], Answer)
        <5>1. Answer \in Messages /\ Answer.kind = "answer"
          BY EventsAreMessages DEF Answer
        <5> QED
          BY <1>6, <4>1, <5>1, AfterAppend DEF Displayed
      <4> QED
        BY <2>3, <4>1
    <3>2. After(view[c], wire[c])' = After(view[c], wire[c])
      BY <1>1, <3>1
    <3> QED
      BY <1>1, <1>4, <2>3, <3>2 DEF ViewInv, DueTrue
  <2> QED
    BY <2>1, <2>2, <2>3, HandlerTouches DEF HandlerStep
<1>8. DueTrue'
  BY <1>5, <1>7 DEF DueTrue
<1>9. ASSUME NEW d \in Conns
      PROVE  /\ ~open'[d] => standing'[d] = "none"
             /\ handler'[d] = "closed" => subs'[d] = {}
             /\ standing'[d] = "none" /\ open'[d] /\ subs'[d] # {} => AwaitsList(d)'
  <2>1. CASE d # c
    BY <1>1, <2>1 DEF ViewInv, ListsSent, AwaitsList
  <2>2. CASE d = c /\ SendList(c)
    <3>1. /\ UNCHANGED subs /\ handler[c] = "replying" /\ handler'[c] \in {"idle", "failing"}
          /\ wire'[c] # wire[c] => open[c]
      BY <2>2 DEF SendList, Goto, Delivered, NotDelivered, TypeOK
    <3> QED
      BY <1>1, <2>2, <3>1
         DEF ViewInv, ListsSent, AwaitsList, AfterSending, ViewTyped, Prospects
  <2>3. CASE d = c /\ ~SendList(c)
    <3>1. handler[c] # "replying"
      BY <2>3, HandlerTouches DEF HandlerStep, Snapshot
    <3>2. \/ subs'[c] # subs[c] /\ handler'[c] \in {"listing", "idle", "closed"}
             /\ (handler'[c] # "listing" => subs'[c] = {})
          \/ subs'[c] = subs[c] /\ handler'[c] # "closed"
             /\ (handler[c] = "listing" => handler'[c] = "replying")
          \/ subs'[c] = {} /\ subs[c] = {}
      BY <2>3 DEF HandlerStep, Requests, Handling, Subscribe, ListSessions, Unsubscribe,
                  OtherRequest, Leave, AddSubscriber, Snapshot, Refuse, SendError,
                  RemoveSubscriber, Goto, TypeOK
    <3> QED
      BY <1>1, <2>3, <3>1, <3>2 DEF ViewInv, ListsSent, AwaitsList
  <2> QED
    BY <2>1, <2>2, <2>3
<1>10. ListsSent'
  BY <1>9 DEF ListsSent
<1> QED
  BY <1>2, <1>3, <1>8, <1>10 DEF ViewInv

LEMMA ClientsView ==
    ASSUME TypeOK, ViewInv, NEW c \in Conns, ClientStep(c)
    PROVE  ViewInv'
<1>1. /\ UNCHANGED <<live, events, sending, subs, reply, gap, prospect>>
      /\ \A d \in Conns \ {c} : /\ handler'[d] = handler[d] /\ open'[d] = open[d]
                                /\ wire'[d] = wire[d] /\ view'[d] = view[d]
                                /\ standing'[d] = standing[d]
  BY DEF ClientStep, Garble, Connect, Receive, Close, daemonVars, historyVars, Goto, TypeOK,
         ViewInv, ViewTyped
<1>2. ChannelTrue'
  BY <1>1 DEF ViewInv, ChannelTrue
<1>3. \A d \in Conns : \A ids : Leads(d, ids)' <=> Leads(d, ids)
  BY <1>1 DEF Leads, Coming, ReadLockHeld
<1>4. \A d \in Conns \ {c} : After(view[d], wire[d])' = After(view[d], wire[d])
  BY <1>1
<1>5. wire[c] \in Seq(Messages) /\ view[c] \in SUBSET Ids
  BY ChannelTyped DEF ViewInv, ViewTyped
<1>6. CASE Connect(c) /\ UNCHANGED <<view, historyVars>>
  <2>1. /\ ~open[c] /\ handler[c] = "closed" /\ handler'[c] = "idle"
        /\ UNCHANGED <<view, standing, prospect, gap>>
    BY <1>6 DEF Connect, Goto, TypeOK, historyVars
  <2>2. standing[c] = "none" /\ subs[c] = {}
    BY <2>1 DEF ViewInv, ListsSent
  <2>3. DueTrue'
    BY <1>1, <1>3, <1>4, <2>1, <2>2 DEF ViewInv, DueTrue
  <2>4. ListsSent'
    BY <1>1, <2>1, <2>2 DEF ViewInv, ListsSent, AwaitsList
  <2> QED
    BY <1>2, <2>1, <2>3, <2>4 DEF ViewInv, ViewTyped
<1>7. CASE /\ Receive(c) /\ UNCHANGED historyVars
           /\ view' = [view EXCEPT ![c] = Displayed(@, Head(wire[c]))]
  <2>1. /\ wire[c] # <<>> /\ wire'[c] = Tail(wire[c])
        /\ UNCHANGED <<handler, open, standing, prospect, gap>>
    BY <1>7 DEF Receive, TypeOK, historyVars, daemonVars
  <2>2. view'[c] = Displayed(view[c], Head(wire[c]))
    BY <1>7 DEF ViewInv, ViewTyped
  <2>3. Head(wire[c]) \in Messages
    BY <1>5, <2>1
  <2>4. After(view[c], wire[c])' = After(view[c], wire[c])
    BY <1>5, <2>1, <2>2, AfterHead
  <2>5. ViewTyped'
    BY <1>5, <1>7, <2>1, <2>3, Display DEF ViewInv, ViewTyped
  <2>6. DueTrue'
    BY <1>1, <1>3, <1>4, <2>1, <2>4 DEF ViewInv, DueTrue
  <2>7. ListsSent'
    BY <1>1, <2>1 DEF ViewInv, ListsSent, AwaitsList
  <2> QED
    BY <1>2, <2>5, <2>6, <2>7 DEF ViewInv
<1>8. CASE Garble(c)
  <2>1. /\ UNCHANGED <<handler, open, prospect, gap, view>>
        /\ standing'[c] # "exact" /\ (standing'[c] = "none" <=> standing[c] = "none")
    BY <1>8 DEF Garble, Missing, Receive, daemonVars, ViewInv, ViewTyped
  <2>2. ViewTyped'
    BY <1>8 DEF Garble, Missing, ViewInv, ViewTyped, Prospects, Standings
  <2>3. DueTrue'
    BY <1>1, <1>3, <1>4, <2>1 DEF ViewInv, DueTrue
  <2>4. ListsSent'
    BY <1>1, <2>1 DEF ViewInv, ListsSent, AwaitsList
  <2> QED
    BY <1>2, <2>2, <2>3, <2>4 DEF ViewInv
<1>9. CASE /\ Close(c) /\ standing' = [standing EXCEPT ![c] = "none"]
           /\ UNCHANGED <<gap, prospect>>
           /\ \E kept \in {view[c], {}} : view' = [view EXCEPT ![c] = kept]
  <2>1. standing'[c] = "none" /\ ~open'[c] /\ UNCHANGED handler
    BY <1>9 DEF Close, daemonVars, TypeOK, ViewInv, ViewTyped
  <2>2. ViewTyped'
    BY <1>5, <1>9 DEF ViewInv, ViewTyped, Standings
  <2>3. DueTrue'
    BY <1>1, <1>3, <1>4, <2>1 DEF ViewInv, DueTrue
  <2>4. ListsSent'
    BY <1>1, <2>1 DEF ViewInv, ListsSent, AwaitsList
  <2> QED
    BY <1>2, <2>2, <2>3, <2>4 DEF ViewInv
<1> QED
  BY <1>6, <1>7, <1>8, <1>9 DEF ClientStep

LEMMA ViewKept == TypeOK /\ TodoSubscribed /\ ViewInv /\ [ViewNext]_viewVars => ViewInv'
<1> SUFFICES ASSUME TypeOK, TodoSubscribed, ViewInv, [ViewNext]_viewVars
             PROVE  ViewInv'
  OBVIOUS
<1>1. CASE UNCHANGED viewVars
  <2>1. UNCHANGED <<live, events, sending, subs, handler, reply, open, wire, view, gap,
                    prospect, standing>>
    BY <1>1 DEF viewVars, vars, daemonVars, historyVars
  <2> QED
    BY <2>1 DEF ViewInv, ViewTyped, ChannelTrue, DueTrue, ListsSent, AwaitsList, Leads,
               Coming, ReadLockHeld
<1> QED
  BY <1>1, RegistryView, BroadcasterView, HandlerView, ClientsView DEF ViewNext

\* However registry, broadcaster, handlers and clients interleave, and for any
\* numbers of sessions and connections and any sizes of channel and sockets: a
\* connected subscriber will display exactly the registry's sessions among those
\* it asked for, but for the four ways that CatchesUp names.
THEOREM ClientsCatchUp == ViewSpec => []CatchesUp
<1>1. TypeOK /\ TodoSubscribed /\ ViewInv => CatchesUp
  <2> SUFFICES ASSUME TypeOK, TodoSubscribed, ViewInv, NEW c \in Conns, subs[c] # {},
                      open[c], ~AwaitsList(c),
                      standing[c] \notin {"overtaken", "undelivered", "lost", "garbled"}
               PROVE  After(view[c], Due(c)) \intersect subs[c] = live \intersect subs[c]
    BY DEF CatchesUp, Subscribers
  <2> DEFINE todo == IF Coming(c) THEN <<sending.event>> ELSE <<>>
  <2>0. standing[c] = "exact"
    BY DEF ViewInv, ViewTyped, ListsSent, Standings, Prospects
  <2>1. /\ wire[c] \in Seq(Messages) /\ events \in Seq(Messages) /\ view[c] \in SUBSET Ids
        /\ Coming(c) => sending.event \in Messages
    BY ChannelTyped DEF ViewInv, ViewTyped, TodoSubscribed, Coming
  <2>2. todo \in Seq(Messages)
    BY <2>1
  <2>3. Leads(c, After(view[c], wire[c])) /\ Due(c) = wire[c] \o todo \o events
    BY <2>0 DEF ViewInv, DueTrue, Due
  <2>4. After(After(After(view[c], wire[c]), todo), events) \intersect subs[c]
           = live \intersect subs[c]
    BY <2>3 DEF Leads
  <2> HIDE DEF todo
  <2>5. /\ wire[c] \o todo \in Seq(Messages)
        /\ After(view[c], wire[c] \o todo) = After(After(view[c], wire[c]), todo)
    BY <2>1, <2>2, AfterConcat
  <2>6. After(view[c], (wire[c] \o todo) \o events)
           = After(After(view[c], wire[c] \o todo), events)
    BY <2>1, <2>5, AfterConcat
  <2> QED
    BY <2>3, <2>4, <2>5, <2>6
<1>2. ViewInit => Init
  BY DEF ViewInit
<1> QED
  BY <1>1, <1>2, ViewStarts, ViewKept, ViewStepIsStep, SubscriptionSafe, PTL DEF ViewSpec, Spec

=============================================================================
