--------------------------- MODULE MCRtpTsBuffer ---------------------------
(* Payloads of one buffer and of several, some of them empty. *)
EXTENDS RtpTsBuffer

MCShapes == {<<2>>, <<1, 0>>, <<0, 1, 1>>}
============================================================================
