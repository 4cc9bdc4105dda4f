---------------------------- MODULE MCClientView ----------------------------
(* Instances of ClientView, and with it of Subscription, for TLC. *)
EXTENDS ClientView, TLC

\* Nothing tells session ids apart.
Interchangeable == Permutations(Ids)

=============================================================================
