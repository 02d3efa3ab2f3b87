---------------------------- MODULE MCRtpReorder ---------------------------
(* Small networks for RtpReorder: 2^16 becomes 16 and the window of 8      *)
(* becomes 2 or 3, so that a few packets are more than a window.           *)
EXTENDS RtpReorder, TLC

CONSTANTS t1, t2, t3

MCIds == 0 .. Sent - 1

(* t2 starts from a number over 16 bits, and no track reaches the wrap. *)
NoWrapBase == [t \in Tracks |-> IF t = t2 THEN 16 ELSE 3]
(* The second packet of track t2 is the one after the wrap. *)
WrapBase == [t \in Tracks |-> IF t = t2 THEN 15 ELSE 3]

NoLosses == [t \in Tracks |-> 0]
OneLoss == [t \in Tracks |-> 1]

(* Within the promise of the window: t1 overtakes fewer than the window and *)
(* loses packets, t2 is in order over the wrap, t3 overtakes as many as the *)
(* window and loses nothing.                                                *)
AheadOrderly == (t1 :> 2) @@ (t2 :> 0) @@ (t3 :> 3)
LossesOrderly == (t1 :> 2) @@ (t2 :> 0) @@ (t3 :> 0)

(* Fewer than the window, over the wrap. *)
AheadOne == [t \in Tracks |-> 1]
(* More than the window. *)
AheadExcess == (t1 :> 4) @@ (t2 :> 1)
============================================================================
