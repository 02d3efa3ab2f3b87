--------------------------- MODULE RtspSourceWfd ---------------------------
(***************************************************************************)
(* RtspSourceWfd (src/RtspSourceWfd.cpp): the sink of a Wi-Fi Display      *)
(* session.  It is the server that asks first; the sink edits request_ as  *)
(* the server's requests tell it to, and posts it after the answer of each *)
(* of them, as long as it has a method.  What the class does not override  *)
(* is RtspSource's.                                                        *)
(*                                                                         *)
(* External: a create_transport that fails leaves its transport without a  *)
(* client_port; the std::string::replace at npos then throws out_of_range. *)
(***************************************************************************)
EXTENDS RtspSource

VARIABLE
  escaped  \* an exception left on_recv(RtspRequest)

wfdVars == <<sourceVars, escaped>>

WfdInit == Init /\ escaped = FALSE

(* handle_connect; on_connect waits for the server. *)
WfdConnect ==
  /\ conn = "connecting"
  /\ conn' = IF stopped THEN "broken" ELSE "up"
  /\ UNCHANGED <<headVars, mediaVars, answerVars, stopped, reporters, toServer, toClient, escaped>>

Reads(what) ==
  /\ Readable /\ Head(toClient).kind = "request"
  /\ Head(toClient).what = what
  /\ toClient' = Tail(toClient)
  /\ UNCHANGED <<answerVars, connVars, session, connected>>

(* The answer, and request_ with method m and transport r unless m is       *)
(* invalid_method.                                                          *)
PostBoth(m, r) ==
  toServer' = toServer \o <<Reply>> \o
    (IF m = "invalid" THEN <<>>
     ELSE <<Request(m, IF m = "setup" THEN 1 ELSE 0, session, r)>>)

RecvServerOptions ==
  /\ Reads("options")
  /\ method' = "options"
  /\ PostBoth("options", transport)
  /\ UNCHANGED <<setupStep, infos, transport, made, escaped>>

(* Mutant of RecvGetParameter: the transport is not saved. *)
RecvGetParameterForgets ==
  /\ Reads("get_parameter")
  /\ made' = made + 1
  /\ PostBoth(method, transport)
  /\ UNCHANGED <<method, setupStep, infos, transport, escaped>>

(* The sink makes RTP sockets and tells their port; the transport is saved  *)
(* for the SETUP to come.                                                   *)
RecvGetParameter ==
  /\ Reads("get_parameter")
  /\ \/ /\ made' = made + 1
        /\ transport' = made + 1
        /\ PostBoth(method, made + 1)
        /\ UNCHANGED escaped
     \/ /\ escaped' = TRUE
        /\ transport' = 0
        /\ UNCHANGED <<made, toServer>>
  /\ UNCHANGED <<method, setupStep, infos>>

(* Mutant of RecvTrigger: the SETUP is not asked for. *)
RecvTriggerSilent ==
  /\ Reads("trigger")
  /\ PostBoth(method, transport)
  /\ UNCHANGED <<method, infos, setupStep, transport, made, escaped>>

(* SET_PARAMETER: wfd_trigger_method, whichever it is, asks for the SETUP. *)
RecvTrigger ==
  /\ Reads("trigger")
  /\ method' = "setup"
  /\ infos' = <<IF infos = <<>> THEN 0 ELSE infos[1]>>
  /\ setupStep' = setupStep + 1
  /\ PostBoth("setup", transport)
  /\ UNCHANGED <<transport, made, escaped>>

(* SET_PARAMETER with a URL, of which the path of request_ is made, and any *)
(* other request.                                                           *)
RecvSetParameter ==
  /\ Reads("set_parameter")
  /\ PostBoth(method, transport)
  /\ UNCHANGED <<headVars, made, escaped>>

(* on_recv(RtspResponse): the answer to OPTIONS, like any that comes while  *)
(* there is no request, only matters when it is a refusal.                  *)
RecvNoted(resp) ==
  /\ Receives(resp) /\ method \in {"options", "invalid"}
  /\ method' = "invalid"
  /\ IF resp.ok THEN UNCHANGED answerVars ELSE Answer("error")
  /\ UNCHANGED <<session, setupStep, infos, transport, mediaVars, toServer>>

WfdRecvResponse ==
  /\ toClient # <<>>
  /\ LET resp == Head(toClient)
     IN  \/ RecvNoted(resp)
         \/ method \in {"setup", "play"} /\ RecvRefusal(resp)
         \/ RecvSetup(resp)
         \/ RecvPlay(resp)
  /\ UNCHANGED escaped

WfdRecvRequest ==
  RecvServerOptions \/ RecvGetParameter \/ RecvTrigger \/ RecvSetParameter

WfdSourceNext ==
  /\ ~escaped /\ ~thrown
  /\ \/ AsyncOpen /\ UNCHANGED escaped
     \/ ConnectFails /\ UNCHANGED escaped
     \/ WfdConnect
     \/ WfdRecvRequest
     \/ WfdRecvResponse
     \/ Close /\ UNCHANGED escaped
     \/ ConnectionLost /\ UNCHANGED escaped
     \/ OnError /\ UNCHANGED escaped
============================================================================
