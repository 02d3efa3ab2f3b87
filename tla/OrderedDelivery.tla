-------------------------- MODULE OrderedDelivery --------------------------
(***************************************************************************)
(* What a reordering buffer promises, without saying how: the packets of a *)
(* track, numbered in sending order, are handed over in that order, a      *)
(* packet is passed over only when it is lost, and the discontinuity flag  *)
(* marks exactly the packets that come after one that was passed over.     *)
(***************************************************************************)
EXTENDS Integers

CONSTANTS
  Tracks,
  NoTrack,
  Sent     \* how many packets of each track are sent, numbered from 0

VARIABLES
  lost,    \* the packets of each track the network has lost
  last,    \* the last packet of each track handed over, -1 at first
  handed   \* what the last call handed over (track = NoTrack: nothing)

vars == <<lost, last, handed>>

Nothing == [track |-> NoTrack, id |-> -1, disc |-> FALSE]

Init ==
  /\ lost = [t \in Tracks |-> {}]
  /\ last = [t \in Tracks |-> -1]
  /\ handed = Nothing

Lose(t, i) ==
  /\ i > last[t]
  /\ lost' = [lost EXCEPT ![t] = @ \union {i}]
  /\ UNCHANGED <<last, handed>>

Deliver(t, i) ==
  /\ i > last[t]
  /\ i \notin lost[t]
  /\ (last[t] + 1) .. (i - 1) \subseteq lost[t]
  /\ last' = [last EXCEPT ![t] = i]
  /\ handed' = [track |-> t, id |-> i, disc |-> i # last[t] + 1]
  /\ UNCHANGED lost

DeliverNothing == handed' = Nothing /\ UNCHANGED <<lost, last>>

Next ==
  \/ \E t \in Tracks, i \in 0 .. Sent - 1 : Lose(t, i) \/ Deliver(t, i)
  \/ DeliverNothing

Spec == Init /\ [][Next]_vars
=============================================================================
