--------------------------- MODULE SessionDirectory ---------------------------
(***************************************************************************)
(* What the registry promises to everybody who holds a session id: the     *)
(* daemon's handlers, which look sessions up by id, and the clients, which *)
(* follow the published events.  Each process has at most one id; an id    *)
(* comes, changes and goes in single steps, and each of these is announced *)
(* together with the change itself.                                        *)
(***************************************************************************)
CONSTANTS
    Keys,       \* processes
    Ids,
    NoId, NoKey,
    Forgetful   \* may a new id be announced without the withdrawal of the old?

VARIABLES
    idOf,   \* the id of each process, NoId if it has no session
    route,  \* the process an id leads to
    shown   \* ids that are announced

vars == <<idOf, route, shown>>

IdsOf(K) == {idOf[k] : k \in K}
Known == {k \in Keys : idOf[k] # NoId}

Init ==
    /\ idOf = [k \in Keys |-> NoId]
    /\ route = [id \in Ids |-> NoKey]
    /\ shown = {}

\* A session that nobody can see in /proc may go unannounced.
Arrive(k, id) ==
    /\ idOf[k] = NoId
    /\ idOf' = [idOf EXCEPT ![k] = id]
    /\ route' = [route EXCEPT ![id] = k]
    /\ shown' \in {shown, shown \union {id}}

Rename(k, id) ==
    /\ k \in Known
    /\ id # idOf[k]
    /\ idOf' = [idOf EXCEPT ![k] = id]
    /\ route' = [route EXCEPT ![idOf[k]] = NoKey, ![id] = k]
    /\ \/ shown' = (shown \ {idOf[k]}) \union {id}
       \/ Forgetful /\ shown' = shown \union {id}

\* A withdrawn id leads nowhere, even if another process uses it as well.
Depart(K) ==
    /\ idOf' = [k \in Keys |-> IF k \in K THEN NoId ELSE idOf[k]]
    /\ route' = [id \in Ids |-> IF id \in IdsOf(K) THEN NoKey ELSE route[id]]
    /\ shown' = shown \ IdsOf(K)

Announce(K) ==
    /\ shown' = shown \union IdsOf(K)
    /\ UNCHANGED <<idOf, route>>

Next ==
    \/ \E k \in Keys, id \in Ids : Arrive(k, id) \/ Rename(k, id)
    \/ \E K \in SUBSET Known : Depart(K) \/ Announce(K)

Spec == Init /\ [][Next]_vars

=============================================================================
