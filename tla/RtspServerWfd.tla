--------------------------- MODULE RtspServerWfd ---------------------------
(***************************************************************************)
(* RtspSourceWfd with the source of the Wi-Fi Display session, which is    *)
(* external: it sends OPTIONS, GET_PARAMETER, SET_PARAMETER with the URL   *)
(* and SET_PARAMETER with the trigger, in this order, may go on with       *)
(* GET_PARAMETER to keep the session alive, and answers the sink's         *)
(* requests as RtspServer does.  It need not wait for the sink: late says  *)
(* that it asked while something was under way, or after the open was      *)
(* answered, by a refusal of its own or by its playing.                    *)
(***************************************************************************)
EXTENDS RtspSourceWfd, RtspServer

VARIABLE late

WfdServerInit ==
  WfdInit /\ media = 1 /\ setups = {} /\ ports = {} /\ playing = FALSE /\ requests = 0 /\ late = FALSE

wfdAllVars == <<wfdVars, serverVars, late>>

Asks(n) ==
  CASE n = 0 -> "options"
    [] n = 1 -> "get_parameter"
    [] n = 2 -> "set_parameter"
    [] n = 3 -> "trigger"
    [] OTHER -> "get_parameter"

WfdSend ==
  /\ conn = "up" /\ requests < MaxRequests
  /\ requests' = requests + 1
  /\ Send([kind |-> "request", what |-> Asks(requests)])
  /\ late' = (late \/ ~pending \/ toServer # <<>> \/ toClient # <<>>)
  /\ UNCHANGED <<headVars, mediaVars, answerVars, connVars, toServer, media, setups, ports, playing, escaped>>

WfdServe ==
  /\ ~escaped /\ ~thrown
  /\ Refuse \/ ServeOptions \/ ServeSetup \/ ServePlay \/ ReadReply
  /\ UNCHANGED <<escaped, late>>

WfdNext ==
  \/ WfdSourceNext /\ UNCHANGED <<serverVars, late>>
  \/ WfdServe
  \/ ~escaped /\ ~thrown /\ WfdSend

WfdSpec == WfdServerInit /\ [][WfdNext]_wfdAllVars

SinkConnects == WfdConnect \/ (ConnectFails /\ UNCHANGED escaped)
SinkReceives == ~escaped /\ ~thrown /\ (WfdRecvRequest \/ WfdRecvResponse)
SinkReports  == ~escaped /\ ~thrown /\ OnError /\ UNCHANGED escaped

(* As in RtspServer; and the server goes on to its trigger. *)
WfdFairness ==
  /\ WF_wfdAllVars(SinkConnects /\ UNCHANGED <<serverVars, late>>)
  /\ WF_wfdAllVars(SinkReceives /\ UNCHANGED <<serverVars, late>>)
  /\ WF_wfdAllVars(SinkReports /\ UNCHANGED <<serverVars, late>>)
  /\ WF_wfdAllVars(WfdServe)
  /\ WF_wfdAllVars(~escaped /\ ~thrown /\ requests < 4 /\ WfdSend)

WfdFairSpec == WfdSpec /\ WfdFairness

----------------------------------------------------------------------------
(* As long as the server waits its turn and is silent once the open is      *)
(* answered, the handler of async_open is called at most once; it is the    *)
(* reposting of request_ after each request of the server                   *)
(* (src/RtspSourceWfd.cpp:130) that makes a later one answer it again.      *)
WfdAnsweredOnce == late \/ AnsweredOnce

(* Under the same condition each response is read as the answer to the      *)
(* request it is for, by the method request_ has then                       *)
(* (src/RtspSourceWfd.cpp:139, src/RtspSource.cpp:120).                     *)
WfdInStep ==
  \/ late
  \/ \A i \in DOMAIN toClient : toClient[i].kind = "response" => toClient[i].to = method \/ method = "invalid"

(* Under the same condition an open that succeeds leaves the server playing *)
(* to the sockets the sink told it of and reads from, and those connected   *)
(* (src/RtspSourceWfd.cpp:88-94).                                           *)
WfdSuccessMeansPlaying ==
  \/ late
  \/ \A i \in DOMAIN answers : answers[i] = "ok" =>
        playing /\ ports = {made} /\ made \in connected

(* However the requests of both sides cross, an open is answered, unless an *)
(* exception ends the session.                                              *)
WfdEventuallyAnswered == pending ~> (~pending \/ escaped)
============================================================================
