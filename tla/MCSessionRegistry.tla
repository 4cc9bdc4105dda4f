-------------------------- MODULE MCSessionRegistry --------------------------
(* Instances of SessionRegistry for TLC. *)
EXTENDS SessionRegistry, TLC

CONSTANTS p1, p2, r1, r2, r3

OwnPending == {<<PendingId(p), p>> : p \in Pids}

\* Every vendor id belongs to one pid; p1 goes through two of them (/clear).
OwnIds == {<<r1, p1>>, <<r2, p1>>, <<r3, p2>>} \union OwnPending

\* One vendor id per pid.
OneIdEach == {<<r1, p1>>, <<r2, p2>>} \union OwnPending

\* Any process may speak for any id: sessions are resumed in other terminals.
AnyIds == (RealIds \X Pids) \union OwnPending

\* With OneIdEach the two processes, with their ids, are interchangeable, and so
\* are subagents; nothing in the specification tells them apart.
Swap == p1 :> p2 @@ p2 :> p1 @@ r1 :> r2 @@ r2 :> r1
Interchangeable ==
    Permutations(Agents) \union {Swap @@ f : f \in Permutations(Agents)}

ASSUME SpeaksIsAsNamed ==
    Speaks \in {OwnIds, OneIdEach} => UniqueOwner

=============================================================================
