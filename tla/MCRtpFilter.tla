---------------------------- MODULE MCRtpFilter ----------------------------
(* Small constants for RtpFilter: any packet at any time, two tracks, one  *)
(* of which starts near the wrap; 2^16 becomes 6 and the window of 8       *)
(* becomes 2, so that a jump can exceed the window before and after it.    *)
EXTENDS RtpFilter, TLC

CONSTANTS t1, t2

MCBase == (t1 :> 0) @@ (t2 :> 10)
=============================================================================
