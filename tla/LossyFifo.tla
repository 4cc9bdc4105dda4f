------------------------------ MODULE LossyFifo ------------------------------
(***************************************************************************)
(* What the daemon may rely on about the events of one pi process: it      *)
(* hears them in the order in which they happened and none of them twice.  *)
(* Any of them may be lost on the way, at any time.                        *)
(***************************************************************************)
EXTENDS Naturals, Sequences

CONSTANTS Events, Nothing

VARIABLES
    queue,  \* what has happened and may yet be heard, oldest first
    heard   \* what the receiver heard last

vars == <<queue, heard>>

\* What is left of a queue: none of its elements has overtaken another.
PartOf(part, whole) ==
    \E place \in [DOMAIN part -> DOMAIN whole] :
        /\ \A i, j \in DOMAIN part : i < j => place[i] < place[j]
        /\ \A i \in DOMAIN part : part[i] = whole[place[i]]

Init == queue = <<>> /\ heard = Nothing

\* The new event may push others out, or be lost itself.
Happen(e) ==
    /\ PartOf(queue', Append(queue, e))
    /\ UNCHANGED heard

Lose ==
    /\ PartOf(queue', queue)
    /\ UNCHANGED heard

Hear ==
    /\ queue # <<>>
    /\ heard' = Head(queue)
    /\ queue' = Tail(queue)

\* The receiver starts over.
Forget == heard' = Nothing /\ UNCHANGED queue

Next == (\E e \in Events : Happen(e)) \/ Lose \/ Hear \/ Forget

Spec == Init /\ [][Next]_vars

=============================================================================
