--------------------------- MODULE MCRtpDemuxer ----------------------------
(* SDPs without media, with one, and with two, one of them not a stream;   *)
(* numbers to 4 and a window of 1, so that sessions become ready.          *)
EXTENDS RtpDemuxer

MCBase == [t \in Tracks |-> t]
MCSDPs == {<<>>, <<"video">>, <<"video", "audio">>, <<"other", "video">>}
============================================================================
