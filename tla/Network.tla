------------------------------ MODULE Network ------------------------------
(***************************************************************************)
(* What the Raft loop may expect of the peer transport of one node towards *)
(* one other: a frame it has handed over is received at most once, in any  *)
(* order, or never, and one that is lost does not turn up later.  This is  *)
(* the network of module Cluster with Consume = TRUE; module Transport     *)
(* implements it.                                                          *)
(***************************************************************************)
EXTENDS Integers, Sequences

VARIABLES
  sends,       \* calls of Peer::send()
  in_flight,   \* handed over, and neither received nor lost
  received     \* in the order of their arrival

Init == sends = 0 /\ in_flight = {} /\ received = <<>>

\* Peer::send() returns true.
Send(f) ==
  /\ f.n = sends + 1 /\ sends' = sends + 1
  /\ in_flight' = in_flight \cup {f}
  /\ UNCHANGED received

\* Peer::send() returns false: nothing was handed over.
Refuse == sends' = sends + 1 /\ UNCHANGED <<in_flight, received>>

\* The message handler of the other node's Server gets f.
Deliver(f) ==
  /\ f \in in_flight
  /\ in_flight' = in_flight \ {f}
  /\ received' = Append(received, f)
  /\ UNCHANGED sends

\* Superseded, lost with a connection, or dropped when the node stops.
Lose(S) ==
  /\ S # {} /\ in_flight' = in_flight \ S
  /\ UNCHANGED <<sends, received>>

Next ==
  \/ \E f \in in_flight' : Send(f)
  \/ Refuse
  \/ \E f \in in_flight : Deliver(f)
  \/ \E S \in SUBSET in_flight : Lose(S)

Spec == Init /\ [][Next]_<<sends, in_flight, received>>
=============================================================================
