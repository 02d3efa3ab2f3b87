----------------------------- MODULE RtspServer -----------------------------
(***************************************************************************)
(* RtspSource with the server it talks to.  The server is external: it     *)
(* answers each request once, in order, may refuse any of them, describes  *)
(* what media it likes or sends an SDP that cannot be read, names in       *)
(* RTP-Info media of its SDP from the first on, and may send requests of   *)
(* its own at any time.                                                    *)
(***************************************************************************)
EXTENDS RtspSource

CONSTANTS
  Session,    \* the identifier the server gives its session
  MaxRequests \* bound on the requests the server sends

ASSUME ServerAssumption == Session # NoSession /\ MaxRequests \in Nat

VARIABLES
  media,      \* how many media the SDP sent has, -1: none sent
  setups,     \* the media set up
  ports,      \* the client's RTP sockets it was told to send to
  playing,    \* the server sends RTP
  requests    \* how many requests the server sent

serverVars == <<media, setups, ports, playing, requests>>
vars == <<sourceVars, serverVars>>

ServerInit ==
  Init /\ media = -1 /\ setups = {} /\ ports = {} /\ playing = FALSE /\ requests = 0

Send(msg) == toClient' = Append(toClient, msg)

(* A request is at the server; what the client sees of the answer, and the *)
(* method of the request it is for (which the client does not see).        *)
Serves(m) ==
  /\ conn = "up" /\ toServer # <<>> /\ Head(toServer).kind = "request"
  /\ Head(toServer).method = m
  /\ toServer' = Tail(toServer)
  /\ UNCHANGED <<headVars, mediaVars, answerVars, connVars>>

(* What is not for the method is empty. *)
Response(m, ok, n, s, f) ==
  [kind |-> "response", to |-> m, ok |-> ok, media |-> n, session |-> s, rtpInfo |-> f]

Refuse ==
  \E m \in Methods :
    /\ Serves(m)
    /\ Send(Response(m, FALSE, 0, NoSession, <<>>))
    /\ UNCHANGED serverVars

ServeOptions ==
  Serves("options") /\ Send(Response("options", TRUE, 0, NoSession, <<>>)) /\ UNCHANGED serverVars

ServeDescribe ==
  \E n \in -1 .. MaxMedia :
    /\ Serves("describe")
    /\ media' = n
    /\ Send(Response("describe", TRUE, n, NoSession, <<>>))
    /\ UNCHANGED <<setups, ports, playing, requests>>

ServeSetup ==
  /\ Serves("setup")
  /\ setups' = setups \union {Head(toServer).medium}
  /\ ports' = ports \union {Head(toServer).transport}
  /\ Send(Response("setup", TRUE, 0, Session, <<>>))
  /\ UNCHANGED <<media, playing, requests>>

ServePlay ==
  \E k \in 0 .. media :
    /\ Serves("play")
    /\ playing' = TRUE
    /\ Send(Response("play", TRUE, 0, NoSession, [i \in 1 .. k |-> i]))
    /\ UNCHANGED <<media, setups, ports, requests>>

ReadReply ==
  /\ conn = "up" /\ toServer # <<>> /\ Head(toServer).kind = "response"
  /\ toServer' = Tail(toServer)
  /\ UNCHANGED <<headVars, mediaVars, answerVars, connVars, toClient, serverVars>>

SendRequest ==
  /\ conn = "up" /\ requests < MaxRequests
  /\ requests' = requests + 1
  /\ Send([kind |-> "request"])
  /\ UNCHANGED <<headVars, mediaVars, answerVars, connVars, toServer, media, setups, ports, playing>>

ServerAnswers ==
  Refuse \/ ServeOptions \/ ServeDescribe \/ ServeSetup \/ ServePlay \/ ReadReply

ServerNext == ServerAnswers \/ SendRequest

Next == (SourceNext /\ UNCHANGED serverVars) \/ ServerNext

Spec == ServerInit /\ [][Next]_vars

(* The io_service runs what is ready, a connection attempt ends, the server *)
(* answers as long as the connection lasts, and a broken connection is      *)
(* reported.  Nothing makes a connection break or a server refuse.          *)
Fairness ==
  /\ WF_vars((Connect \/ ConnectFails) /\ UNCHANGED serverVars)
  /\ WF_vars((RecvRequest \/ RecvResponse) /\ UNCHANGED serverVars)
  /\ WF_vars(OnError /\ UNCHANGED serverVars)
  /\ WF_vars(ServerAnswers)

FairSpec == Spec /\ Fairness

----------------------------------------------------------------------------
TypeOK ==
  /\ method \in Methods /\ session \in {NoSession, Session}
  /\ setupStep \in 0 .. MaxMedia
  /\ infos \in Seq(0 .. MaxMedia)
  /\ made \in 0 .. MaxMedia /\ connected \subseteq 1 .. made /\ transport \in 0 .. made
  /\ pending \in BOOLEAN /\ answers \in Seq(Results) /\ thrown \in BOOLEAN
  /\ conn \in {"idle", "connecting", "up", "broken"}
  /\ stopped \in BOOLEAN /\ reporters \subseteq Reporters
  /\ media \in -1 .. MaxMedia /\ setups \subseteq 1 .. MaxMedia /\ ports \subseteq 1 .. made
  /\ playing \in BOOLEAN /\ requests \in 0 .. MaxRequests

(* The handler given to async_open is called at most once, whatever order a *)
(* refusal, a broken connection, a close and the reports of the reader and  *)
(* the writer come in.  response calls an empty one only for what the       *)
(* reader still hands over after the writer's report has answered the open  *)
(* (src/RtspSource.cpp:178, 217; only on_error, :208, looks before it calls).*)
AnsweredOnce ==
  /\ Len(answers) + (IF pending THEN 1 ELSE 0) <= 1
  /\ thrown => answers = <<"error">> /\ reporters = {"reader"}

(* The method request_ has when a response is read is the one of the        *)
(* request it answers, though nothing in the response is compared           *)
(* (src/RtspSource.cpp:120), and no other request is under way.             *)
InStep ==
  LET asked    == {i \in DOMAIN toServer : toServer[i].kind = "request"}
      answered == {i \in DOMAIN toClient : toClient[i].kind = "response"}
  IN  /\ \A i \in asked : toServer[i].method = method
      /\ \A i \in answered : toClient[i].to = method
      /\ \A i, j \in asked : i = j
      /\ \A i, j \in answered : i = j
      /\ asked = {} \/ answered = {}

(* What reaches the server is a legal dialogue: a SETUP for one medium      *)
(* after the other, with sockets of its own, PLAY when all are set up,      *)
(* and each of them but the first in the session the server gave            *)
(* (src/RtspSource.cpp:137-165).                                            *)
LegalDialogue ==
  \A i \in DOMAIN toServer :
    LET q == toServer[i]
    IN  q.kind = "request" =>
          /\ q.method = "setup" => setups = 1 .. q.medium - 1 /\ q.medium <= media /\ q.transport = q.medium
          /\ q.method = "play" => setups = 1 .. media
          /\ q.session = IF setups = {} THEN NoSession ELSE Session

(* An open that succeeds leaves the server playing to the RTP sockets made, *)
(* a pair for each medium, those of the last one connected, and each        *)
(* sequence that of its own medium or the default                           *)
(* (src/RtspSource.cpp:142-179).                                            *)
SuccessMeansPlaying ==
  \A i \in DOMAIN answers : answers[i] = "ok" =>
    /\ playing
    /\ made = media /\ ports = 1 .. made
    /\ media > 0 => media \in connected
    /\ Len(infos) = media /\ \A k \in DOMAIN infos : infos[k] \in {0, k}

(* To its owner the source is one that is opened once, answers once, and    *)
(* succeeds only if the server had granted PLAY before a close or cancel:   *)
(* no handler looks whether the session was stopped                         *)
(* (src/RtspSource.cpp:57, 167-179, 217, 236-247).  RtspMedia builds on it. *)
Opening == INSTANCE OpenOnce WITH
  granted <- playing,
  status <- IF pending THEN "opening" ELSE IF answers = <<>> THEN "new" ELSE answers[Len(answers)]

ImplementsOpenOnce == Opening!Spec

(* An open is answered, unless the connection attempt or the server never   *)
(* end (src/RtspSource.cpp:114, 178, 186, 212).                             *)
EventuallyAnswered == pending ~> ~pending
=============================================================================
