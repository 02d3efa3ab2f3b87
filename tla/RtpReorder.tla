----------------------------- MODULE RtpReorder -----------------------------
(***************************************************************************)
(* RtpFilter fed by a network that carries the RTP packets of each track   *)
(* to the socket: it may lose packets, duplicate them, and let a packet    *)
(* overtake others sent up to Ahead places before it.                      *)
(***************************************************************************)
EXTENDS RtpFilter, FiniteSets, FiniteSetsExt

CONSTANTS
  Sent,    \* packets sent on each track, numbered 0 .. Sent - 1
  Ahead,   \* [Tracks -> Nat]: how many places a packet may overtake
  Losses,  \* [Tracks -> Nat]: bound on the packets of each track lost
  Dups     \* bound on the packets that arrive a second time

ASSUME NetworkAssumption ==
  /\ IsFiniteSet(Tracks)
  /\ Sent \in Nat
  /\ Ids = 0 .. Sent - 1
  /\ Ahead \in [Tracks -> Nat]
  /\ Losses \in [Tracks -> Nat]
  /\ Dups \in Nat

VARIABLES
  net,        \* the packets of each track that neither arrived nor were lost
  lost,       \* the packets of each track that were lost
  dups,       \* how many packets arrived a second time
  delivered   \* history: the packets of each track get_sample2 returned

netVars == <<net, lost, dups, delivered>>
allVars == <<seqBase, samples, ready, out, net, lost, dups, delivered>>

(* Packet i of track t: the sender numbers on from the RTP-Info's seq, and *)
(* the number on the wire has 16 bits.                                     *)
Pkt(t, i) == [track |-> t, seq |-> (Base[t] + i) % SeqMod, id |-> i]

Arrived(t) == Ids \ (net[t] \union lost[t])

RecordDelivery ==
  delivered' = [t \in Tracks |->
    IF out'.pkt # Hole /\ out'.pkt.track = t
    THEN delivered[t] \union {out'.pkt.id}
    ELSE delivered[t]]

ReorderInit ==
  /\ Init
  /\ net = [t \in Tracks |-> Ids]
  /\ lost = [t \in Tracks |-> {}]
  /\ dups = 0
  /\ delivered = [t \in Tracks |-> {}]

(* A packet reaches the socket and the loop of get_sample2 takes it. *)
Arrive(t, i) ==
  /\ i \in net[t]
  /\ \A j \in net[t] : i - j <= Ahead[t]
  /\ Fetch(Pkt(t, i))
  /\ net' = [net EXCEPT ![t] = @ \ {i}]
  /\ RecordDelivery
  /\ UNCHANGED <<lost, dups>>

ArriveAgain(t, i) ==
  /\ i \in Arrived(t)
  /\ dups < Dups
  /\ Fetch(Pkt(t, i))
  /\ dups' = dups + 1
  /\ RecordDelivery
  /\ UNCHANGED <<net, lost>>

Lose(t, i) ==
  /\ i \in net[t]
  /\ Cardinality(lost[t]) < Losses[t]
  /\ net' = [net EXCEPT ![t] = @ \ {i}]
  /\ lost' = [lost EXCEPT ![t] = @ \union {i}]
  /\ UNCHANGED <<vars, dups, delivered>>

(* get_sample2 with a session to drain. *)
Drain == PopReady /\ RecordDelivery /\ UNCHANGED <<net, lost, dups>>

(* get_sample2 finds nothing to read. *)
WouldBlock == FetchNothing /\ UNCHANGED netVars

ReorderNext ==
  \/ \E t \in Tracks, i \in Ids : Arrive(t, i)
  \/ \E t \in Tracks, i \in Ids : ArriveAgain(t, i)
  \/ \E t \in Tracks, i \in Ids : Lose(t, i)
  \/ Drain
  \/ WouldBlock

ReorderSpec == ReorderInit /\ [][ReorderNext]_allVars

(* The io_service keeps reading while packets come in, and get_sample is    *)
(* called again while it returns one.  No packet has to be lost or repeated.*)
Fairness ==
  /\ WF_allVars(\E t \in Tracks, i \in Ids : Arrive(t, i))
  /\ WF_allVars(Drain)

FairReorderSpec == ReorderSpec /\ Fairness

----------------------------------------------------------------------------
HeldIds(t) == {p.id : p \in Held(t)}
LastDelivered(t) == Max(delivered[t] \union {-1})
FirstMissing(t) == Min((0 .. Sent) \ delivered[t])

(* Whatever the network does to the order of the packets, none that reached *)
(* the socket disappears: it was returned, or it waits in its slot          *)
(* (src/RtpFilter.cpp:93, 105, 109 each discard a slot or extend the deque).*)
NothingLost ==
  \A t \in Tracks : Arrived(t) \subseteq delivered[t] \union HeldIds(t)

(* seq_base is the next required sequence (src/RtpFilter.h:67): everything  *)
(* before it has been returned and it has not.  For a track none of whose   *)
(* packets is lost or repeated.                                             *)
NextRequired ==
  \A t \in Tracks :
    lost[t] = {} => seqBase[t] = (Base[t] + FirstMissing(t)) % SeqMod

(* The discontinuity flag is never a false alarm: the number before a       *)
(* flagged packet has not been returned (src/RtpFilter.cpp:115).            *)
FlagMeansMissing ==
  [][ out'.disc => out'.pkt.id - 1 \notin delivered'[out'.pkt.track] ]_allVars

(* The window is honoured: a packet comes out after one sent later only if  *)
(* it was overtaken by more than Window places (src/RtpFilter.cpp:100).     *)
OutOfOrderOnlyBeyondWindow ==
  [][ \A t \in Tracks : \A i \in delivered'[t] \ delivered[t] :
        i < LastDelivered(t) => \E j \in Arrived(t)' : j - i > Window ]_allVars

(* Everything sent on a track that loses nothing comes out, whatever the    *)
(* other tracks lose.                                                       *)
AllDelivered == <>(\A t \in Tracks : lost[t] = {} => delivered[t] = Ids)

(* With packets overtaking fewer than Window others, any of which may be    *)
(* lost, get_sample2 delivers in order, passes over only lost packets, and  *)
(* flags exactly the gaps.                                                  *)
Delivery == INSTANCE OrderedDelivery WITH
  last <- [t \in Tracks |-> LastDelivered(t)],
  handed <- IF out.pkt = Hole
            THEN [track |-> NoTrack, id |-> -1, disc |-> FALSE]
            ELSE [track |-> out.pkt.track, id |-> out.pkt.id, disc |-> out.disc]

ImplementsOrderedDelivery == Delivery!Spec
=============================================================================
