----------------------------- MODULE RtspSource -----------------------------
(***************************************************************************)
(* RtspSource (src/RtspSource.cpp): the client side of an RTSP session,    *)
(* which async_open drives from OPTIONS over DESCRIBE and a SETUP for each *)
(* medium of the SDP to PLAY.  The source keeps one request, request_,     *)
(* which every handler edits and posts again; what a response answers is   *)
(* decided by the method that request has when the response comes.         *)
(*                                                                         *)
(* External, modelled from its use here: RtspSession connects, carries the *)
(* posted messages over one TCP connection, hands what comes to on_recv,   *)
(* and calls on_error once from its reader and once from its writer when   *)
(* the connection is broken or stopped, in any order.  What had come       *)
(* before that may still be handed to on_recv until the reader reports.    *)
(* (What the server may still get then changes nothing for the source.)    *)
(* create_transport and connect_transport open the RTP sockets of a        *)
(* medium.  The server of the session is RtspServer's.  An exception that  *)
(* response throws leaves the io_service: nothing after it is modelled.    *)
(***************************************************************************)
EXTENDS Integers, Sequences

CONSTANTS
  MaxMedia,   \* bound on the media of an SDP
  NoSession   \* the request has no Session header

ASSUME SourceAssumption == MaxMedia \in Nat

VARIABLES
  method,     \* request_.head().method
  session,    \* request_.head()["Session"]
  setupStep,  \* setup_step_
  infos,      \* rtp_infos_: the sequence of each, as the medium it belongs to
              \* (0: the default)
  transport,  \* request_.head()[f_transport]: the RTP sockets it names, 0: none
  made,       \* how many pairs of RTP sockets create_transport made for
              \* rtp_socket_ (0: it is NULL)
  connected,  \* those of them connect_transport connected
  pending,    \* resp_ is not empty
  answers,    \* what the handlers given to async_open were called with
  thrown,     \* an empty resp_ was called: boost::bad_function_call
  conn,       \* the TCP connection
  stopped,    \* RtspSession::stop or cancel was called
  reporters,  \* who has not called on_error yet
  toServer,   \* messages posted, in the order the server reads them
  toClient    \* messages of the server, in the order the client reads them

headVars   == <<method, session, setupStep, infos, transport>>
mediaVars  == <<made, connected>>
answerVars == <<pending, answers, thrown>>
connVars   == <<conn, stopped, reporters>>
sourceVars == <<method, session, setupStep, infos, transport, made, connected, pending,
                answers, thrown, conn, stopped, reporters, toServer, toClient>>

Methods == {"invalid", "options", "describe", "setup", "play"}
Results == {"ok", "error"}
Reporters == {"reader", "writer"}

Request(m, i, s, r) ==
  [kind |-> "request", method |-> m, medium |-> i, session |-> s, transport |-> r]
Reply == [kind |-> "response"]

----------------------------------------------------------------------------
(* response(ec): the handler is swapped out before it is called. *)
Answer(result) ==
  /\ pending' = FALSE
  /\ answers' = IF pending THEN Append(answers, result) ELSE answers
  /\ thrown' = (thrown \/ ~pending)

Post(msg) == toServer' = Append(toServer, msg)

Init ==
  /\ method = "invalid"
  /\ session = NoSession
  /\ setupStep = 0
  /\ infos = <<>>
  /\ transport = 0 /\ made = 0 /\ connected = {}
  /\ pending = FALSE /\ answers = <<>> /\ thrown = FALSE
  /\ conn = "idle" /\ stopped = FALSE /\ reporters = Reporters
  /\ toServer = <<>> /\ toClient = <<>>

(* RtspMedia opens a source once, right after it made it. *)
AsyncOpen ==
  /\ conn = "idle"
  /\ ~stopped
  /\ conn' = "connecting"
  /\ pending' = TRUE
  /\ UNCHANGED <<headVars, mediaVars, answers, thrown, stopped, reporters, toServer, toClient>>

(* handle_connect with an error. *)
ConnectFails ==
  /\ conn = "connecting"
  /\ conn' = "broken"
  /\ reporters' = {}
  /\ Answer("error")
  /\ UNCHANGED <<headVars, mediaVars, stopped, toServer, toClient>>

(* handle_connect without one: start, and on_connect.  The completion may   *)
(* have been on its way when the session was stopped.                       *)
Connect ==
  /\ conn = "connecting"
  /\ conn' = IF stopped THEN "broken" ELSE "up"
  /\ method' = "options"
  /\ Post(Request("options", 0, session, transport))
  /\ UNCHANGED <<session, setupStep, infos, transport, mediaVars, answerVars, stopped, reporters, toClient>>

----------------------------------------------------------------------------
(* There is something to read, also when it came just before a stop. *)
Readable == ~thrown /\ "reader" \in reporters /\ toClient # <<>>

(* Mutant of RecvRequest: request_ is posted again behind the answer. *)
RecvRequestReposts ==
  /\ Readable /\ Head(toClient).kind = "request"
  /\ toClient' = Tail(toClient)
  /\ toServer' = toServer \o <<Reply, Request(method, setupStep, session, transport)>>
  /\ UNCHANGED <<headVars, mediaVars, answerVars, connVars>>

(* on_recv(RtspRequest): an empty answer. *)
RecvRequest ==
  /\ Readable /\ Head(toClient).kind = "request"
  /\ toClient' = Tail(toClient)
  /\ Post(Reply)
  /\ UNCHANGED <<headVars, mediaVars, answerVars, connVars>>

(* on_recv(RtspResponse) reads a response of the connection. *)
Receives(resp) ==
  /\ Readable /\ Head(toClient).kind = "response"
  /\ resp = Head(toClient)
  /\ toClient' = Tail(toClient)
  /\ UNCHANGED connVars

(* An error status ends the open. *)
RecvRefusal(resp) ==
  /\ Receives(resp) /\ ~resp.ok
  /\ Answer("error")
  /\ UNCHANGED <<headVars, mediaVars, toServer>>

RecvOptions(resp) ==
  /\ Receives(resp) /\ resp.ok /\ method = "options"
  /\ method' = "describe"
  /\ Post(Request("describe", 0, session, transport))
  /\ UNCHANGED <<session, setupStep, infos, transport, mediaVars, answerVars>>

(* The SETUP of the next medium; failed says whether ec is set already.     *)
(* create_transport may fail, and need not clear an ec it finds set.        *)
SendSetup(failed, sess) ==
  /\ method' = "setup"
  /\ setupStep' = setupStep + 1
  /\ \E ok \in BOOLEAN, cleared \in BOOLEAN :
       /\ made' = IF ok THEN made + 1 ELSE made
       /\ transport' = IF ok THEN made + 1 ELSE 0
       /\ IF ok /\ (failed => cleared)
          THEN Post(Request("setup", setupStep + 1, sess, made + 1)) /\ UNCHANGED answerVars
          ELSE Answer("error") /\ UNCHANGED toServer

(* PLAY, with the Transport header gone; m is the method request_ keeps. *)
SendPlayAs(m, failed, sess) ==
  /\ method' = m
  /\ transport' = 0
  /\ UNCHANGED <<setupStep, made>>
  /\ IF failed
     THEN Answer("error") /\ UNCHANGED toServer
     ELSE Post(Request("play", 0, sess, 0)) /\ UNCHANGED answerVars

(* Mutant of SendPlay: request_ is posted before it is edited. *)
SendPlayFirst(failed, sess) == SendPlayAs(method, failed, sess)

SendPlay(failed, sess) == SendPlayAs("play", failed, sess)

(* Mutant of NextSetup: one SETUP too few. *)
NextSetupShort(n, failed, sess) ==
  \/ setupStep + 1 < n /\ SendSetup(failed, sess)
  \/ setupStep + 1 >= n /\ SendPlay(failed, sess)

(* From a described or set up medium to the next SETUP, or to PLAY when     *)
(* none is left.                                                            *)
NextSetup(n, failed, sess) ==
  \/ setupStep < n /\ SendSetup(failed, sess)
  \/ setupStep >= n /\ SendPlay(failed, sess)

(* Mutant of RecvBadSdp: the error of parse_sdp is not reported. *)
RecvBadSdpSilent(resp) ==
  /\ Receives(resp) /\ resp.ok /\ method = "describe" /\ resp.media = -1
  /\ UNCHANGED <<headVars, mediaVars, answerVars, toServer>>

(* parse_sdp cannot read the SDP. *)
RecvBadSdp(resp) ==
  /\ Receives(resp) /\ resp.ok /\ method = "describe" /\ resp.media = -1
  /\ Answer("error")
  /\ UNCHANGED <<headVars, mediaVars, toServer>>

(* parse_sdp sizes rtp_infos_, and the first SETUP goes out. *)
RecvDescribe(resp) ==
  /\ Receives(resp) /\ resp.ok /\ method = "describe" /\ resp.media # -1
  /\ infos' = [i \in 1 .. resp.media |-> IF i <= Len(infos) THEN infos[i] ELSE 0]
  /\ NextSetup(resp.media, FALSE, session)
  /\ UNCHANGED <<session, connected>>

(* Mutant of RecvSetup: connect_transport's error is dropped. *)
RecvSetupDeaf(resp) ==
  /\ Receives(resp) /\ resp.ok /\ method = "setup"
  /\ session' = resp.session
  /\ \E ok \in BOOLEAN : connected' = IF ok THEN connected \union {made} ELSE connected
  /\ NextSetup(Len(infos), FALSE, resp.session)
  /\ UNCHANGED infos

(* The RTP sockets are connected to the server's ports, and on to the next. *)
RecvSetup(resp) ==
  /\ Receives(resp) /\ resp.ok /\ method = "setup"
  /\ session' = resp.session
  /\ \E ok \in BOOLEAN :
       /\ connected' = IF ok THEN connected \union {made} ELSE connected
       /\ NextSetup(Len(infos), ~ok, resp.session)
  /\ UNCHANGED infos

(* The entries of RTP-Info go to rtp_infos_ in the order they come. *)
RecvPlay(resp) ==
  /\ Receives(resp) /\ resp.ok /\ method = "play"
  /\ Len(resp.rtpInfo) <= Len(infos)
  /\ infos' = [i \in DOMAIN infos |-> IF i <= Len(resp.rtpInfo) THEN resp.rtpInfo[i] ELSE infos[i]]
  /\ Answer("ok")
  /\ UNCHANGED <<method, session, setupStep, transport, mediaVars, toServer>>

RecvResponse ==
  toClient # <<>> /\ LET resp == Head(toClient) IN
    \/ RecvRefusal(resp) \/ RecvOptions(resp) \/ RecvBadSdp(resp)
    \/ RecvDescribe(resp) \/ RecvSetup(resp) \/ RecvPlay(resp)

----------------------------------------------------------------------------
(* Mutant of Close: the session is not told. *)
CloseQuiet ==
  /\ ~stopped /\ ~thrown
  /\ stopped' = TRUE
  /\ UNCHANGED <<headVars, mediaVars, answerVars, conn, reporters, toServer, toClient>>

(* close and cancel: the pending operations of the session are aborted, and *)
(* none is started for it any more; one that is done already is not undone. *)
Close ==
  /\ ~stopped /\ ~thrown
  /\ stopped' = TRUE
  /\ conn' = IF conn = "up" THEN "broken" ELSE conn
  /\ UNCHANGED <<headVars, mediaVars, answerVars, reporters, toServer, toClient>>

(* The connection is lost: nothing comes any more. *)
ConnectionLost ==
  /\ conn = "up"
  /\ conn' = "broken"
  /\ UNCHANGED <<headVars, mediaVars, answerVars, stopped, reporters, toServer, toClient>>

(* Mutant of OnError: it does not look whether resp_ is empty. *)
OnErrorBlind ==
  /\ conn = "broken" /\ ~thrown
  /\ \E who \in reporters : reporters' = reporters \ {who}
  /\ Answer("error")
  /\ UNCHANGED <<headVars, mediaVars, conn, stopped, toServer, toClient>>

(* on_error answers an open still under way, and only that. *)
OnError ==
  /\ conn = "broken" /\ ~thrown
  /\ \E who \in reporters : reporters' = reporters \ {who}
  /\ IF pending THEN Answer("error") ELSE UNCHANGED answerVars
  /\ UNCHANGED <<headVars, mediaVars, conn, stopped, toServer, toClient>>

SourceNext ==
  \/ AsyncOpen \/ ConnectFails \/ Connect
  \/ RecvRequest \/ RecvResponse
  \/ Close \/ ConnectionLost \/ OnError
=============================================================================
