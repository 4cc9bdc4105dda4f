----------------------------- MODULE ClientView -----------------------------
(***************************************************************************)
(* What clients display of the sessions: Subscription together with the    *)
(* session table of a client (crates/atm/src/client.rs and app.rs) that    *)
(* applies the messages the daemon sends.                                  *)
(*                                                                         *)
(* The history variables single out the four ways in which a display can   *)
(* come to differ for good: the list sent to a new subscriber is overtaken *)
(* by events that are younger, it is not delivered at all, the broadcast   *)
(* channel loses events, and a line does not survive the socket.           *)
(***************************************************************************)
EXTENDS Subscription

VARIABLES
    view,       \* ids the client displays
    gap,        \* history: events were lost while an older one was being sent
    prospect,   \* history: what becomes of standing once reply is delivered
    standing    \* history: how what c has been and will be sent fits the registry

historyVars == <<gap, prospect, standing>>
viewVars == <<vars, view, historyVars>>

\* How a list fits: it is followed by all that happened since it was taken, or an
\* event written before it is younger, or the channel lost one that is younger.
Prospects == {"exact", "overtaken", "lost"}

\* That of the last list sent to a subscriber; or it has not been sent one, that
\* one was not delivered, or a line was lost after it.
Standings == Prospects \union {"none", "undelivered", "garbled"}

\* A bug to catch: a list is merged into the table like an update.
DisplayedMerging(ids, message) ==
    CASE message.kind = "list"    -> ids \union message.ids
      [] message.kind = "updated" -> ids \union message.ids
      [] message.kind = "removed" -> ids \ message.ids
      [] message.kind = "answer"  -> ids

\* replace_sessions, update_sessions, remove_session
Displayed(ids, message) ==
    CASE message.kind = "list"    -> message.ids
      [] message.kind = "updated" -> ids \union message.ids
      [] message.kind = "removed" -> ids \ message.ids
      [] message.kind = "answer"  -> ids

-----------------------------------------------------------------------------

ViewInit ==
    /\ Init
    /\ view = [c \in Conns |-> {}]
    /\ gap = FALSE
    /\ prospect = [c \in Conns |-> "exact"]
    /\ standing = [c \in Conns |-> "none"]

\* Whoever has been sent its list, s being its standing, misses a message.
Missing(s, way) == IF s \in {"exact", "overtaken"} THEN way ELSE s

RegistryStep ==
    /\ Registry
    /\ UNCHANGED view
    /\ \/ Len(events) < ChannelSize /\ UNCHANGED historyVars
       \/ /\ Len(events) = ChannelSize
          /\ gap' = (sending.event # NoEvent)
          /\ prospect' = [c \in Conns |->
                             IF handler[c] = "replying" THEN "lost" ELSE prospect[c]]
          /\ standing' = [c \in Conns |-> Missing(standing[c], "lost")]

BroadcasterStep ==
    /\ Broadcaster
    /\ gap' = (gap /\ sending'.event # NoEvent)
    /\ prospect' = [c \in Conns |->
                       IF /\ handler[c] = "replying" /\ wire'[c] # wire[c]
                          /\ prospect[c] = "exact"
                       THEN "overtaken" ELSE prospect[c]]
    /\ UNCHANGED <<view, standing>>

\* What becomes of the standing of a subscriber whose list has been taken.
AfterSending(c) ==
    IF wire'[c] # wire[c] THEN prospect[c]
    ELSE IF open[c] /\ standing[c] = "none" THEN "undelivered"
    ELSE standing[c]

HandlerStep(c) ==
    /\ Requests(c) \/ Handling(c)
    /\ prospect' = [prospect EXCEPT ![c] =
                       IF handler'[c] = "replying" /\ gap THEN "lost" ELSE "exact"]
    /\ standing' = [standing EXCEPT ![c] =
                       IF handler[c] = "replying" /\ subs[c] # {} THEN AfterSending(c)
                       ELSE IF subs'[c] = subs[c] THEN @
                       ELSE "none"]
    /\ UNCHANGED <<view, gap>>

\* A line that is no message: a command of the user cut read_line short, or the
\* handler's write of the message before it, which timed out.
Garble(c) ==
    /\ Receive(c)
    /\ standing' = [standing EXCEPT ![c] = Missing(@, "garbled")]
    /\ UNCHANGED <<view, gap, prospect>>

\* A client that reconnects keeps what it displays (mark_disconnected), one that
\* starts anew displays nothing.
ClientStep(c) ==
    \/ /\ Connect(c)
       /\ UNCHANGED <<view, historyVars>>
    \/ /\ Receive(c)
       /\ view' = [view EXCEPT ![c] = Displayed(@, Head(wire[c]))]
       /\ UNCHANGED historyVars
    \/ Garble(c)
    \/ /\ Close(c)
       /\ \E kept \in {view[c], {}} : view' = [view EXCEPT ![c] = kept]
       /\ standing' = [standing EXCEPT ![c] = "none"]
       /\ UNCHANGED <<gap, prospect>>

ViewNext ==
    \/ RegistryStep
    \/ BroadcasterStep
    \/ \E c \in Conns : HandlerStep(c) \/ ClientStep(c)

ViewSpec == ViewInit /\ [][ViewNext]_viewVars

-----------------------------------------------------------------------------
(* Properties *)

\* The event taken from the channel is not written to c yet; before the subscribers
\* are locked, that is so whomever it concerns.
Coming(c) ==
    IF ReadLockHeld THEN c \in sending.todo ELSE sending.event # NoEvent

\* What is still on its way to a subscriber.
Due(c) ==
    wire[c] \o (IF Coming(c) THEN <<sending.event>> ELSE <<>>) \o events

\* Message m decides whether x is displayed, and does it display x?
Decides(m, x) == m.kind = "list" \/ x \in m.ids
Shows(m, x) == m.kind # "removed" /\ x \in m.ids

LastWord(s, i, x) ==
    /\ Decides(s[i], x)
    /\ \A j \in DOMAIN s : Decides(s[j], x) => j <= i

\* What a client that displays ids has to display after the messages s: of each
\* session what the last message says that decides about it.
After(ids, s) ==
    {x \in Ids : \/ \E i \in DOMAIN s : LastWord(s, i, x) /\ Shows(s[i], x)
                 \/ x \in ids /\ \A i \in DOMAIN s : ~Decides(s[i], x)}

\* The list of a subscription is still to be sent.
AwaitsList(c) == standing[c] = "none" /\ handler[c] \in {"listing", "replying"}

\* Whatever a subscriber asks for and however tasks interleave, it will display
\* exactly the registry's sessions among those it asked for once everything on
\* its way has arrived, unless its list was overtaken by an event or not
\* delivered, or the channel or the socket has lost a message since.  These four
\* ways are thus the only ones that make a connected client differ for good.
CatchesUp ==
    \A c \in Subscribers :
        \/ ~open[c]
        \/ AwaitsList(c)
        \/ standing[c] \in {"overtaken", "undelivered", "lost", "garbled"}
        \/ After(view[c], Due(c)) \intersect subs[c] = live \intersect subs[c]

\* Nothing is due to c and its handler waits for requests.
Quiet(c) == handler[c] = "idle" /\ Due(c) = <<>>

\* "Send current session list as initial state": a subscriber that has been sent
\* its list, and that no message since was lost to, displays the registry's
\* sessions once nothing is on its way.
QuietClientsAgree ==
    \A c \in Conns : standing[c] \in {"exact", "overtaken"} /\ Quiet(c) =>
        view[c] \intersect subs[c] = live \intersect subs[c]

=============================================================================
