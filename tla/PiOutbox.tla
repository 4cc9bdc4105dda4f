------------------------------- MODULE PiOutbox -------------------------------
(***************************************************************************)
(* The events of one pi process on their way to the daemon: the extension  *)
(* in pi with its bounded outbox and its socket, which is opened when      *)
(* there is something to send (extensions/pi-atm/extensions/pi-atm.ts),    *)
(* and the handler of the connection in the daemon, which may end, close   *)
(* the connection or start again (crates/atmd/src/server/connection.rs).   *)
(*                                                                         *)
(* JavaScript runs one callback at a time: each is an action.  Of an event *)
(* only its identity is kept, and of what the daemon makes of it only      *)
(* which one it applied last.  Left out are the handshake lines, and what  *)
(* send does when socket.write throws: Node throws for arguments of the    *)
(* wrong type only and reports what goes wrong with a socket, one that has *)
(* been destroyed too, by the events that OnClose stands for.              *)
(***************************************************************************)
EXTENDS Naturals, Sequences

CONSTANTS
    Events,
    Nothing,
    OUTBOX_MAX,
    HighWater,   \* bound: lines the socket takes before write returns false
    MaxFaults    \* bound: ends of the daemon and lines it does not accept

ASSUME OutboxAssumption ==
    /\ OUTBOX_MAX \in Nat \ {0}
    /\ HighWater \in Nat \ {0}
    /\ MaxFaults \in Nat
    /\ Nothing \notin Events

VARIABLES
    link,     \* "active", "pending" or none: activeSocket, pendingSocket
    paused,   \* socketPaused
    backoff,  \* reconnectScheduled
    outbox,
    wire,     \* lines written to the socket and not yet read
    peer,     \* the daemon's handler still has its end of the connection
    up,       \* the daemon is running
    known,    \* the event the daemon has applied last, since it was started
    faults

extension == <<link, paused, backoff, outbox>>
vars == <<extension, wire, peer, up, known, faults>>

-----------------------------------------------------------------------------
(* The extension *)

\* A bug to catch: the outbox grows without limit.
EnqueueUnbounded(line) == outbox' = Append(outbox, line)

\* "Drop-oldest"
enqueue(line) ==
    outbox' = IF Len(outbox) < OUTBOX_MAX
              THEN Append(outbox, line)
              ELSE Append(Tail(outbox), line)

\* The lines are written until write returns false for the one just written.
flushOutboxTo(lines, socket) ==
    LET n == IF Len(lines) < HighWater - Len(socket) THEN Len(lines) ELSE HighWater - Len(socket)
    IN  /\ wire' = socket \o SubSeq(lines, 1, n)
        /\ outbox' = SubSeq(lines, n + 1, Len(lines))
        /\ paused' = (Len(socket) + n = HighWater)

\* Without a socket file nothing is opened; one may outlive its daemon.
openSocket ==
    \/ link' = "pending"
    \/ ~up /\ link' = "none"

\* A bug to catch: a socket with room again is written to before "drain".
WriteIfRoom(e) ==
    \/ /\ Len(wire) = HighWater
       /\ enqueue(e)
       /\ UNCHANGED <<paused, wire>>
    \/ /\ Len(wire) < HighWater
       /\ wire' = Append(wire, e)
       /\ paused' = (paused \/ Len(wire) + 1 = HighWater)
       /\ UNCHANGED outbox

\* With the socket open, and not waiting for "drain", the line is written.
WriteOrQueue(e) ==
    \/ /\ paused
       /\ enqueue(e)
       /\ UNCHANGED <<paused, wire>>
    \/ /\ ~paused
       /\ wire' = Append(wire, e)
       /\ paused' = (Len(wire) + 1 = HighWater)
       /\ UNCHANGED outbox

\* pi reports an event: the extension writes it, queues it or drops it.
send(e) ==
    /\ \/ /\ link = "active"
          /\ WriteOrQueue(e)
          /\ UNCHANGED link
       \/ /\ link = "pending"
          /\ enqueue(e)
          /\ UNCHANGED <<link, paused, wire>>
       \/ /\ link = "none" /\ ~backoff
          /\ enqueue(e)
          /\ openSocket
          /\ UNCHANGED <<paused, wire>>
       \/ /\ link = "none" /\ backoff
          /\ UNCHANGED <<link, paused, outbox, wire>>
    /\ UNCHANGED <<backoff, peer, up, known, faults>>

\* A bug to catch: what was queued meanwhile stays in the outbox.
OnConnectUnflushed ==
    /\ link = "pending" /\ up
    /\ link' = "active"
    /\ peer' = TRUE
    /\ UNCHANGED <<paused, backoff, outbox, wire, up, known, faults>>

OnConnect ==
    /\ link = "pending" /\ up
    /\ link' = "active"
    /\ peer' = TRUE
    /\ flushOutboxTo(outbox, <<>>)
    /\ UNCHANGED <<backoff, up, known, faults>>

\* Node has handed to the kernel what write was given.
OnDrain ==
    /\ link = "active" /\ paused
    /\ Len(wire) < HighWater
    /\ flushOutboxTo(outbox, wire)
    /\ UNCHANGED <<link, backoff, peer, up, known, faults>>

\* The connection is refused, or the daemon's end has gone.
OnClose ==
    /\ link # "none"
    /\ IF link = "pending" THEN ~up ELSE ~peer
    /\ link' = "none"
    /\ paused' = FALSE
    /\ backoff' = TRUE
    /\ wire' = <<>>
    /\ UNCHANGED <<outbox, peer, up, known, faults>>

\* The timer of a second
EndBackoff ==
    /\ backoff
    /\ backoff' = FALSE
    /\ UNCHANGED <<link, paused, outbox, wire, peer, up, known, faults>>

-----------------------------------------------------------------------------
(* The daemon *)

\* handle_pi_event
HandlePiEvent ==
    /\ peer /\ wire # <<>>
    /\ known' = Head(wire)
    /\ wire' = Tail(wire)
    /\ UNCHANGED <<extension, peer, up, faults>>

\* READ_TIMEOUT without a line
TimeOut ==
    /\ peer /\ wire = <<>>
    /\ peer' = FALSE
    /\ UNCHANGED <<extension, wire, up, known, faults>>

\* A line over MAX_MESSAGE_SIZE ends the connection, whatever follows it.
Refuse ==
    /\ peer /\ wire # <<>>
    /\ faults < MaxFaults
    /\ faults' = faults + 1
    /\ peer' = FALSE
    /\ UNCHANGED <<extension, wire, up, known>>

EndDaemon ==
    /\ up
    /\ faults < MaxFaults
    /\ faults' = faults + 1
    /\ up' = FALSE
    /\ peer' = FALSE
    /\ known' = Nothing
    /\ UNCHANGED <<extension, wire>>

StartDaemon ==
    /\ ~up
    /\ up' = TRUE
    /\ UNCHANGED <<extension, wire, peer, known, faults>>

-----------------------------------------------------------------------------

Init ==
    /\ link = "none"
    /\ paused = FALSE
    /\ backoff = FALSE
    /\ outbox = <<>>
    /\ wire = <<>>
    /\ peer = FALSE
    /\ up \in BOOLEAN
    /\ known = Nothing
    /\ faults = 0

Callback == OnConnect \/ OnDrain \/ OnClose \/ EndBackoff

Next ==
    \/ \E e \in Events : send(e)
    \/ Callback
    \/ HandlePiEvent \/ TimeOut \/ Refuse \/ EndDaemon \/ StartDaemon

Spec == Init /\ [][Next]_vars

-----------------------------------------------------------------------------
(* Properties *)

\* The variables stay within their types, the outbox within its limit, and the
\* socket is not written to once it has asked for a pause.
TypeOK ==
    /\ link \in {"none", "pending", "active"}
    /\ paused \in BOOLEAN
    /\ backoff \in BOOLEAN
    /\ outbox \in Seq(Events) /\ Len(outbox) <= OUTBOX_MAX
    /\ wire \in Seq(Events) /\ Len(wire) <= HighWater
    /\ peer \in BOOLEAN
    /\ up \in BOOLEAN
    /\ known \in Events \union {Nothing}
    /\ faults \in 0 .. MaxFaults

\* While the socket takes lines none waits in the outbox: what was queued
\* while it was being opened or was paused is never forgotten there.
NoneHeldBack == link = "active" /\ ~paused => outbox = <<>>

\* The daemon hears the events in their order and none twice, across pauses,
\* closed connections and restarts.
Fifo == INSTANCE LossyFifo WITH queue <- wire \o outbox, heard <- known
InOrder == Fifo!Spec

=============================================================================
