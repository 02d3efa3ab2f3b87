--------------------------- MODULE MCRtpReceiver ---------------------------
(* A stream of seven packets cut into frames in several ways, in front of  *)
(* a window of 3; the vectors of the parser begin with 2 entries, not 4,   *)
(* so that one of the streams has a frame with more units.                 *)
EXTENDS RtpReceiver, TLC

CONSTANTS t1, t2

MCIds == 0 .. Sent - 1
MCBase == (t1 :> 3) @@ (t2 :> 16)
MCAhead == (t1 :> 2) @@ (t2 :> 0)
MCLosses == (t1 :> 2) @@ (t2 :> 1)

U(k) == [kind |-> k, mark |-> FALSE, idr |-> FALSE]
M(k) == [kind |-> k, mark |-> TRUE, idr |-> FALSE]
I(u) == [u EXCEPT !.idr = TRUE]

OnIds(s) == [i \in Ids |-> s[i + 1]]

(* A frame of two fragmented units, a single IDR, and a fragmented one. *)
Mixed == OnIds(<<U("start"), U("end"), U("start"), M("end"), I(M("single")), U("start"), M("end")>>)
(* A long unit, then a frame of a fragmented and a single one. *)
Long == OnIds(<<I(U("start")), I(U("middle")), I(M("end")), U("start"), U("end"), M("single"), M("single")>>)
(* A frame of three fragmented units, more than buf_ has cells. *)
Many == OnIds(<<U("start"), U("end"), U("start"), U("end"), U("start"), M("end"), M("single")>>)

MCStreams == {Mixed, Long, Many}
MCParsed == {{t1, t2}, {t1}}
============================================================================
