-------------------------- MODULE RtspServerProofs --------------------------
(***************************************************************************)
(* Proofs about RtspServer, for any number of media and of requests of the *)
(* server.  The argument is that at most one request or response is under  *)
(* way, that it belongs to the method request_ has, and that what the      *)
(* source and the server know fits the place of that method in the         *)
(* dialogue.                                                               *)
(***************************************************************************)
EXTENDS RtspServer, TLAPS

ClientMsgs ==
  {Reply} \union [kind : {"request"}, method : Methods, medium : 0 .. MaxMedia,
                  session : {NoSession, Session}, transport : Nat]
ServerMsgs ==
  {[kind |-> "request"]} \union
  [kind : {"response"}, to : Methods, ok : BOOLEAN, media : -1 .. MaxMedia,
   session : {NoSession, Session}, rtpInfo : Seq(Nat)]

MessagesOK == toServer \in Seq(ClientMsgs) /\ toClient \in Seq(ServerMsgs)

(* No request and no response is among the messages ts and tc. *)
Quiet(ts, tc) ==
  /\ \A i \in 1 .. Len(ts) : ts[i].kind # "request"
  /\ \A i \in 1 .. Len(tc) : tc[i].kind # "response"

(* At most one is. *)
OneUnderWay(ts, tc) ==
  /\ \A i, j \in 1 .. Len(ts) : ts[i].kind = "request" /\ ts[j].kind = "request" => i = j
  /\ \A i, j \in 1 .. Len(tc) : tc[i].kind = "response" /\ tc[j].kind = "response" => i = j
  /\ \A i \in 1 .. Len(ts), j \in 1 .. Len(tc) : ts[i].kind # "request" \/ tc[j].kind # "response"

----------------------------------------------------------------------------
(* The places of a method in the dialogue. *)
Blank ==
  /\ setupStep = 0 /\ infos = <<>> /\ made = 0 /\ transport = 0
  /\ session = NoSession /\ setups = {} /\ ports = {}

SettingUp == setupStep \in 1 .. media /\ made = setupStep /\ Len(infos) = media

AllSetUp ==
  /\ media \in 0 .. MaxMedia /\ made = media /\ Len(infos) = media
  /\ setups = 1 .. media /\ ports = 1 .. media
  /\ media > 0 => media \in connected

(* The open was answered by the report of an error, and the other of reader *)
(* and writer may still report its own.                                     *)
Reported ==
  conn = "broken" /\ ~pending /\ answers = <<"error">> /\ reporters # Reporters

(* What is true while the request q is on its way. *)
Asked(q) ==
  /\ q.method = method /\ method # "invalid"
  /\ pending \/ Reported
  /\ q.session = IF setups = {} THEN NoSession ELSE Session
  /\ method \in {"options", "describe"} => Blank
  /\ method = "setup" =>
       /\ SettingUp
       /\ setups = 1 .. setupStep - 1 /\ ports = 1 .. setupStep - 1
       /\ q.medium = setupStep /\ q.transport = setupStep
  /\ method = "play" => AllSetUp

(* What is true while the response r is. *)
Told(r) ==
  /\ r.to = method /\ method # "invalid"
  /\ pending \/ Reported
  /\ r.ok =>
       /\ method \in {"options", "describe"} => Blank
       /\ method = "describe" => media = r.media
       /\ method = "setup" =>
            /\ SettingUp
            /\ setups = 1 .. setupStep /\ ports = 1 .. setupStep
            /\ r.session = Session
       /\ method = "play" =>
            /\ AllSetUp /\ playing
            /\ Len(r.rtpInfo) <= media /\ \A k \in 1 .. Len(r.rtpInfo) : r.rtpInfo[k] = k

Dialogue ==
  /\ OneUnderWay(toServer, toClient)
  /\ \A i \in 1 .. Len(toServer) : toServer[i].kind = "request" => Asked(toServer[i])
  /\ \A i \in 1 .. Len(toClient) : toClient[i].kind = "response" => Told(toClient[i])

(* Before the connection is there, nothing has happened. *)
Unconnected ==
  conn \in {"idle", "connecting"} =>
    Blank /\ method = "invalid" /\ toServer = <<>> /\ toClient = <<>> /\ answers = <<>> /\ ~playing

Answering ==
  /\ thrown => conn = "broken" /\ ~pending /\ answers = <<"error">> /\ reporters = {"reader"}
  /\ pending => answers = <<>>
  /\ Len(answers) <= 1
  /\ conn = "idle" => ~pending
  /\ conn = "connecting" => pending
  /\ conn = "up" => ~stopped

OwnSequences == \A k \in 1 .. Len(infos) : infos[k] \in {0, k}

SInv ==
  TypeOK /\ MessagesOK /\ Dialogue /\ Unconnected /\ Answering /\ OwnSequences /\ SuccessMeansPlaying

----------------------------------------------------------------------------
(* What comes to the queues of messages, and goes. *)
LEMMA TailOf ==
  ASSUME NEW S, NEW s \in Seq(S), s # <<>>
  PROVE  /\ Tail(s) \in Seq(S) /\ Head(s) = s[1] /\ Head(s) \in S
         /\ 1 \in 1 .. Len(s) /\ Len(Tail(s)) = Len(s) - 1
         /\ \A i \in 1 .. Len(Tail(s)) : Tail(s)[i] = s[i + 1] /\ i + 1 \in 1 .. Len(s)
<1>1. Len(s) \in Nat /\ Len(s) >= 1
  OBVIOUS
<1>2. Tail(s) \in Seq(S) /\ Head(s) = s[1] /\ Len(Tail(s)) = Len(s) - 1
  BY <1>1
<1>3. s[1] \in S
  BY <1>1
<1>4. \A i \in 1 .. Len(Tail(s)) : Tail(s)[i] = s[i + 1] /\ i + 1 \in 1 .. Len(s)
  BY <1>1, <1>2
<1> QED
  BY <1>1, <1>2, <1>3, <1>4

LEMMA AppendTo ==
  ASSUME NEW S, NEW s \in Seq(S), NEW x \in S
  PROVE  /\ Append(s, x) \in Seq(S)
         /\ \A i \in 1 .. Len(Append(s, x)) : \/ i = Len(s) + 1 /\ Append(s, x)[i] = x
                                              \/ i \in 1 .. Len(s) /\ Append(s, x)[i] = s[i]
  OBVIOUS

LEMMA KindsOfMessages ==
  /\ Reply \in ClientMsgs /\ Reply.kind = "response" /\ [kind |-> "request"] \in ServerMsgs
  /\ \A q \in ClientMsgs : q.kind = "request" => q \in [kind : {"request"}, method : Methods,
       medium : 0 .. MaxMedia, session : {NoSession, Session}, transport : Nat]
  /\ \A r \in ServerMsgs : r.kind = "response" => r \in [kind : {"response"}, to : Methods,
       ok : BOOLEAN, media : -1 .. MaxMedia, session : {NoSession, Session}, rtpInfo : Seq(Nat)]
  BY DEF ClientMsgs, ServerMsgs, Reply

(* Who reads the message under way leaves none. *)
LEMMA ReadResponse ==
  ASSUME NEW ts \in Seq(ClientMsgs), NEW tc \in Seq(ServerMsgs), OneUnderWay(ts, tc),
         tc # <<>>, Head(tc).kind = "response"
  PROVE  Quiet(ts, Tail(tc)) /\ Tail(tc) \in Seq(ServerMsgs) /\ Head(tc) \in ServerMsgs
<1>1. /\ Tail(tc) \in Seq(ServerMsgs) /\ Head(tc) = tc[1] /\ Head(tc) \in ServerMsgs /\ 1 \in 1 .. Len(tc)
      /\ Len(Tail(tc)) = Len(tc) - 1
      /\ \A i \in 1 .. Len(Tail(tc)) : Tail(tc)[i] = tc[i + 1] /\ i + 1 \in 1 .. Len(tc)
  BY TailOf
<1>2. \A i \in 1 .. Len(Tail(tc)) : Tail(tc)[i].kind # "response"
  BY <1>1 DEF OneUnderWay
<1>3. \A i \in 1 .. Len(ts) : ts[i].kind # "request"
  BY <1>1 DEF OneUnderWay
<1> QED
  BY <1>1, <1>2, <1>3 DEF Quiet

LEMMA ReadRequest ==
  ASSUME NEW ts \in Seq(ClientMsgs), NEW tc \in Seq(ServerMsgs), OneUnderWay(ts, tc),
         ts # <<>>, Head(ts).kind = "request"
  PROVE  Quiet(Tail(ts), tc) /\ Tail(ts) \in Seq(ClientMsgs) /\ Head(ts) \in ClientMsgs
<1>1. /\ Tail(ts) \in Seq(ClientMsgs) /\ Head(ts) = ts[1] /\ Head(ts) \in ClientMsgs /\ 1 \in 1 .. Len(ts)
      /\ Len(Tail(ts)) = Len(ts) - 1
      /\ \A i \in 1 .. Len(Tail(ts)) : Tail(ts)[i] = ts[i + 1] /\ i + 1 \in 1 .. Len(ts)
  BY TailOf
<1>2. \A i \in 1 .. Len(Tail(ts)) : Tail(ts)[i].kind # "request"
  BY <1>1 DEF OneUnderWay
<1>3. \A i \in 1 .. Len(tc) : tc[i].kind # "response"
  BY <1>1 DEF OneUnderWay
<1> QED
  BY <1>1, <1>2, <1>3 DEF Quiet

(* Who posts one when there is none makes it the only one. *)
LEMMA PostOnly ==
  ASSUME NEW ts \in Seq(ClientMsgs), NEW tc \in Seq(ServerMsgs), Quiet(ts, tc), NEW q \in ClientMsgs
  PROVE  /\ Append(ts, q) \in Seq(ClientMsgs)
         /\ OneUnderWay(Append(ts, q), tc)
         /\ \A i \in 1 .. Len(Append(ts, q)) : Append(ts, q)[i].kind = "request" => Append(ts, q)[i] = q
         /\ \A i \in 1 .. Len(tc) : tc[i].kind # "response"
<1>1. /\ Append(ts, q) \in Seq(ClientMsgs)
      /\ \A i \in 1 .. Len(Append(ts, q)) : \/ i = Len(ts) + 1 /\ Append(ts, q)[i] = q
                                            \/ i \in 1 .. Len(ts) /\ Append(ts, q)[i] = ts[i]
  BY AppendTo
<1> QED
  BY <1>1 DEF Quiet, OneUnderWay

LEMMA SendOnly ==
  ASSUME NEW ts \in Seq(ClientMsgs), NEW tc \in Seq(ServerMsgs), Quiet(ts, tc), NEW r \in ServerMsgs
  PROVE  /\ Append(tc, r) \in Seq(ServerMsgs)
         /\ OneUnderWay(ts, Append(tc, r))
         /\ \A i \in 1 .. Len(Append(tc, r)) : Append(tc, r)[i].kind = "response" => Append(tc, r)[i] = r
         /\ \A i \in 1 .. Len(ts) : ts[i].kind # "request"
<1>1. /\ Append(tc, r) \in Seq(ServerMsgs)
      /\ \A i \in 1 .. Len(Append(tc, r)) : \/ i = Len(tc) + 1 /\ Append(tc, r)[i] = r
                                            \/ i \in 1 .. Len(tc) /\ Append(tc, r)[i] = tc[i]
  BY AppendTo
<1> QED
  BY <1>1 DEF Quiet, OneUnderWay

(* A queue that is read by others than the dialogue, or posted to, keeps    *)
(* its messages of the dialogue in their order.                             *)
LEMMA ClientQueue ==
  ASSUME NEW ts \in Seq(ClientMsgs), NEW us,
         us = ts \/ us = Append(ts, Reply) \/ (ts # <<>> /\ us = Tail(ts))
  PROVE  /\ us \in Seq(ClientMsgs)
         /\ \E d \in {0, 1} : \A i \in 1 .. Len(us) : us[i].kind = "request" =>
              i + d \in 1 .. Len(ts) /\ us[i] = ts[i + d]
<1>1. CASE us = ts
  BY <1>1
<1>2. CASE us = Append(ts, Reply)
  <2>1. /\ us \in Seq(ClientMsgs)
        /\ \A i \in 1 .. Len(us) : \/ i = Len(ts) + 1 /\ us[i] = Reply
                                   \/ i \in 1 .. Len(ts) /\ us[i] = ts[i]
    BY <1>2, AppendTo, KindsOfMessages
  <2>2. \A i \in 1 .. Len(us) : us[i].kind = "request" => i + 0 \in 1 .. Len(ts) /\ us[i] = ts[i + 0]
    BY <2>1, KindsOfMessages
  <2> QED
    BY <2>1, <2>2
<1>3. CASE ts # <<>> /\ us = Tail(ts)
  BY <1>3, TailOf
<1> QED
  BY <1>1, <1>2, <1>3

LEMMA ServerQueue ==
  ASSUME NEW tc \in Seq(ServerMsgs), NEW us,
         us = tc \/ us = Append(tc, [kind |-> "request"]) \/ (tc # <<>> /\ us = Tail(tc))
  PROVE  /\ us \in Seq(ServerMsgs)
         /\ \E e \in {0, 1} : \A i \in 1 .. Len(us) : us[i].kind = "response" =>
              i + e \in 1 .. Len(tc) /\ us[i] = tc[i + e]
<1>1. CASE us = tc
  BY <1>1
<1>2. CASE us = Append(tc, [kind |-> "request"])
  <2>1. /\ us \in Seq(ServerMsgs)
        /\ \A i \in 1 .. Len(us) : \/ i = Len(tc) + 1 /\ us[i] = [kind |-> "request"]
                                   \/ i \in 1 .. Len(tc) /\ us[i] = tc[i]
    BY <1>2, AppendTo, KindsOfMessages
  <2>2. \A i \in 1 .. Len(us) : us[i].kind = "response" => i + 0 \in 1 .. Len(tc) /\ us[i] = tc[i + 0]
    BY <2>1
  <2> QED
    BY <2>1, <2>2
<1>3. CASE tc # <<>> /\ us = Tail(tc)
  BY <1>3, TailOf
<1> QED
  BY <1>1, <1>2, <1>3

(* The requests of the server, their answers, and what breaks the           *)
(* connection leave the message under way where it is in the dialogue.      *)
LEMMA OthersStay ==
  ASSUME MessagesOK, Dialogue,
         UNCHANGED <<method, session, setups, ports, media, made, infos, setupStep,
                     transport, connected, playing>>,
         pending \/ Reported => (pending \/ Reported)',
         toServer' = toServer \/ toServer' = Append(toServer, Reply)
           \/ (toServer # <<>> /\ toServer' = Tail(toServer)),
         toClient' = toClient \/ toClient' = Append(toClient, [kind |-> "request"])
           \/ (toClient # <<>> /\ toClient' = Tail(toClient))
  PROVE  Dialogue' /\ MessagesOK'
<1>1. PICK d \in {0, 1} : \A i \in 1 .. Len(toServer') : toServer'[i].kind = "request" =>
          i + d \in 1 .. Len(toServer) /\ toServer'[i] = toServer[i + d]
  BY ClientQueue DEF MessagesOK
<1>2. PICK e \in {0, 1} : \A i \in 1 .. Len(toClient') : toClient'[i].kind = "response" =>
          i + e \in 1 .. Len(toClient) /\ toClient'[i] = toClient[i + e]
  BY ServerQueue DEF MessagesOK
<1>3. MessagesOK'
  BY ClientQueue, ServerQueue DEF MessagesOK
<1>4. OneUnderWay(toServer', toClient')
  <2>1. \A i, j \in 1 .. Len(toServer') :
          toServer'[i].kind = "request" /\ toServer'[j].kind = "request" => i = j
    <3> SUFFICES ASSUME NEW i \in 1 .. Len(toServer'), NEW j \in 1 .. Len(toServer'),
                        toServer'[i].kind = "request", toServer'[j].kind = "request"
                 PROVE  i = j
      OBVIOUS
    <3>1. i + d = j + d
      BY <1>1 DEF OneUnderWay, Dialogue
    <3> QED
      BY <3>1
  <2>2. \A i, j \in 1 .. Len(toClient') :
          toClient'[i].kind = "response" /\ toClient'[j].kind = "response" => i = j
    <3> SUFFICES ASSUME NEW i \in 1 .. Len(toClient'), NEW j \in 1 .. Len(toClient'),
                        toClient'[i].kind = "response", toClient'[j].kind = "response"
                 PROVE  i = j
      OBVIOUS
    <3>1. i + e = j + e
      BY <1>2 DEF OneUnderWay, Dialogue
    <3> QED
      BY <3>1
  <2>3. \A i \in 1 .. Len(toServer'), j \in 1 .. Len(toClient') :
          toServer'[i].kind # "request" \/ toClient'[j].kind # "response"
    BY <1>1, <1>2 DEF OneUnderWay, Dialogue
  <2> QED
    BY <2>1, <2>2, <2>3 DEF OneUnderWay
<1>5. ASSUME NEW i \in 1 .. Len(toServer'), toServer'[i].kind = "request" PROVE Asked(toServer[i])'
  <2>1. Asked(toServer[i + d]) /\ toServer'[i] = toServer[i + d]
    BY <1>1, <1>5 DEF Dialogue
  <2> QED
    BY <2>1 DEF Asked, Blank, SettingUp, AllSetUp
<1>6. ASSUME NEW i \in 1 .. Len(toClient'), toClient'[i].kind = "response" PROVE Told(toClient[i])'
  <2>1. Told(toClient[i + e]) /\ toClient'[i] = toClient[i + e]
    BY <1>2, <1>6 DEF Dialogue
  <2> QED
    BY <2>1 DEF Told, Blank, SettingUp, AllSetUp
<1> QED
  BY <1>3, <1>4, <1>5, <1>6 DEF Dialogue

----------------------------------------------------------------------------
(* Nothing under way satisfies whatever is said of what is. *)
LEMMA QuietDialogue ==
  ASSUME MessagesOK', Quiet(toServer', toClient')
  PROVE  Dialogue'
<1>1. OneUnderWay(toServer', toClient')
  BY DEF Quiet, OneUnderWay
<1> QED
  BY <1>1 DEF Quiet, Dialogue

(* A response is read: it is the one under way. *)
LEMMA ResponseRead ==
  ASSUME SInv, NEW resp, Receives(resp)
  PROVE  /\ resp \in ServerMsgs /\ resp.kind = "response" /\ Told(resp)
         /\ toClient' \in Seq(ServerMsgs) /\ Quiet(toServer, toClient')
         /\ thrown = FALSE /\ conn \in {"up", "broken"}
         /\ \/ pending /\ answers = <<>>
            \/ Reported /\ reporters = {"reader"}
<1>1. /\ toClient # <<>> /\ resp = Head(toClient) /\ resp.kind = "response"
      /\ toClient' = Tail(toClient) /\ "reader" \in reporters /\ thrown = FALSE
  BY DEF Receives, Readable, SInv, TypeOK
<1>2. toServer \in Seq(ClientMsgs) /\ toClient \in Seq(ServerMsgs) /\ OneUnderWay(toServer, toClient)
  BY DEF SInv, MessagesOK, Dialogue
<1>3. resp \in ServerMsgs /\ toClient' \in Seq(ServerMsgs) /\ Quiet(toServer, toClient')
  BY <1>1, <1>2, ReadResponse
<1>4. 1 \in 1 .. Len(toClient) /\ toClient[1] = resp
  BY <1>1, <1>2, TailOf
<1>5. Told(resp)
  BY <1>1, <1>4 DEF SInv, Dialogue
<1>6. conn \in {"up", "broken"}
  BY <1>1 DEF SInv, Unconnected, TypeOK
<1>7. CASE pending
  BY <1>1, <1>3, <1>5, <1>6, <1>7 DEF SInv, Answering
<1>8. CASE Reported
  <2>1. reporters = {"reader"}
    BY <1>1, <1>8 DEF Reported, Reporters, SInv, TypeOK
  <2> QED
    BY <1>1, <1>3, <1>5, <1>6, <1>8, <2>1
<1> QED
  BY <1>5, <1>7, <1>8 DEF Told

(* What is left to be answered then is left, or is answered. *)
LEMMA ReadKeeps ==
  ASSUME SInv, NEW resp, Receives(resp), UNCHANGED answerVars
  PROVE  (pending \/ Reported)'
<1>1. /\ (pending /\ answers = <<>>) \/ (Reported /\ reporters = {"reader"})
      /\ UNCHANGED <<pending, answers, conn, reporters>>
  BY ResponseRead DEF Receives, connVars, answerVars
<1> QED
  BY <1>1 DEF Reported

LEMMA ReadAnswers ==
  ASSUME SInv, NEW resp, Receives(resp), NEW result \in Results, Answer(result)
  PROVE  /\ pending' = FALSE
         /\ \/ answers' = <<result>> /\ thrown' = FALSE
            \/ answers' = <<"error">> /\ thrown' = TRUE /\ conn = "broken" /\ reporters = {"reader"}
<1>1. /\ thrown = FALSE /\ pending \in BOOLEAN
      /\ (pending /\ answers = <<>>) \/ (Reported /\ reporters = {"reader"})
  BY ResponseRead DEF SInv, TypeOK
<1>2. /\ pending' = FALSE /\ thrown' = (thrown \/ ~pending)
      /\ answers' = IF pending THEN Append(answers, result) ELSE answers
  BY DEF Answer
<1>3. CASE pending /\ answers = <<>>
  <2>1. pending = TRUE
    BY <1>1, <1>3
  <2>2. thrown' = FALSE
    BY <1>1, <1>2, <2>1
  <2>3. Append(<<>>, result) = <<result>>
    OBVIOUS
  <2> QED
    BY <1>2, <1>3, <2>1, <2>2, <2>3
<1>4. CASE Reported /\ reporters = {"reader"}
  <2>1. pending = FALSE /\ answers = <<"error">> /\ conn = "broken"
    BY <1>1, <1>4 DEF Reported
  <2>2. thrown' = TRUE
    BY <1>1, <1>2, <2>1
  <2> QED
    BY <1>2, <1>4, <2>1, <2>2
<1> QED
  BY <1>1, <1>3, <1>4

(* The server reads a request: it is the one under way. *)
LEMMA RequestServed ==
  ASSUME SInv, NEW m \in Methods, Serves(m)
  PROVE  /\ Head(toServer) \in ClientMsgs /\ Head(toServer).kind = "request"
         /\ Asked(Head(toServer)) /\ method = m
         /\ toServer' \in Seq(ClientMsgs) /\ Quiet(toServer', toClient)
         /\ conn = "up" /\ pending /\ answers = <<>>
<1>1. /\ toServer # <<>> /\ Head(toServer).kind = "request" /\ Head(toServer).method = m
      /\ toServer' = Tail(toServer) /\ conn = "up"
  BY DEF Serves
<1>2. toServer \in Seq(ClientMsgs) /\ toClient \in Seq(ServerMsgs) /\ OneUnderWay(toServer, toClient)
  BY DEF SInv, MessagesOK, Dialogue
<1>3. Head(toServer) \in ClientMsgs /\ toServer' \in Seq(ClientMsgs) /\ Quiet(toServer', toClient)
  BY <1>1, <1>2, ReadRequest
<1>4. 1 \in 1 .. Len(toServer) /\ toServer[1] = Head(toServer)
  BY <1>1, <1>2, TailOf
<1>5. Asked(Head(toServer))
  BY <1>1, <1>4 DEF SInv, Dialogue
<1>6. pending /\ method = m
  BY <1>1, <1>5 DEF Asked, Reported
<1> QED
  BY <1>1, <1>3, <1>5, <1>6 DEF SInv, Answering

(* A request is posted, or a response sent, when there is none under way. *)
LEMMA RequestPosted ==
  ASSUME toServer \in Seq(ClientMsgs), toClient' \in Seq(ServerMsgs), Quiet(toServer, toClient'),
         NEW q \in ClientMsgs, Post(q), Asked(q)'
  PROVE  MessagesOK' /\ Dialogue'
<1>1. /\ toServer' \in Seq(ClientMsgs) /\ OneUnderWay(toServer', toClient')
      /\ \A i \in 1 .. Len(toServer') : toServer'[i].kind = "request" => toServer'[i] = q
      /\ \A i \in 1 .. Len(toClient') : toClient'[i].kind # "response"
  BY PostOnly DEF Post
<1>2. ASSUME NEW i \in 1 .. Len(toServer'), toServer'[i].kind = "request" PROVE Asked(toServer[i])'
  <2>1. toServer'[i] = q
    BY <1>1, <1>2
  <2> QED
    BY <2>1 DEF Asked
<1> QED
  BY <1>1, <1>2 DEF MessagesOK, Dialogue

LEMMA ResponseSent ==
  ASSUME toServer' \in Seq(ClientMsgs), toClient \in Seq(ServerMsgs), Quiet(toServer', toClient),
         NEW r \in ServerMsgs, Send(r), Told(r)'
  PROVE  MessagesOK' /\ Dialogue'
<1>1. /\ toClient' \in Seq(ServerMsgs) /\ OneUnderWay(toServer', toClient')
      /\ \A i \in 1 .. Len(toClient') : toClient'[i].kind = "response" => toClient'[i] = r
      /\ \A i \in 1 .. Len(toServer') : toServer'[i].kind # "request"
  BY SendOnly DEF Send
<1>2. ASSUME NEW i \in 1 .. Len(toClient'), toClient'[i].kind = "response" PROVE Told(toClient[i])'
  <2>1. toClient'[i] = r
    BY <1>1, <1>2
  <2> QED
    BY <2>1 DEF Told
<1> QED
  BY <1>1, <1>2 DEF MessagesOK, Dialogue

----------------------------------------------------------------------------
(* The answers of the server. *)
LEMMA ResponseMsg ==
  ASSUME NEW m \in Methods, NEW b \in BOOLEAN, NEW n \in -1 .. MaxMedia,
         NEW s \in {NoSession, Session}, NEW f \in Seq(Nat)
  PROVE  Response(m, b, n, s, f) \in ServerMsgs
  BY DEF Response, ServerMsgs

LEMMA NothingElse == <<>> \in Seq(Nat) /\ 0 \in -1 .. MaxMedia
  BY SourceAssumption

LEMMA UpTo ==
  ASSUME NEW k \in Nat
  PROVE  /\ (1 .. k) \union {k + 1} = 1 .. k + 1
         /\ [i \in 1 .. k |-> i] \in Seq(Nat) /\ Len([i \in 1 .. k |-> i]) = k
  OBVIOUS

(* What the invariant says of the source alone survives an answer.  *)
LEMMA ServedRest ==
  ASSUME SInv, NEW m \in Methods, Serves(m)
  PROVE  Unconnected' /\ Answering' /\ OwnSequences' /\ SuccessMeansPlaying'
<1>1. conn = "up" /\ pending /\ answers = <<>>
  BY RequestServed
<1>2. UNCHANGED <<headVars, mediaVars, answerVars, connVars>>
  BY DEF Serves
<1>3. Unconnected' /\ Answering'
  BY <1>1, <1>2 DEF SInv, Unconnected, Answering, connVars, answerVars
<1>4. OwnSequences' /\ SuccessMeansPlaying'
  BY <1>1, <1>2 DEF SInv, OwnSequences, SuccessMeansPlaying, headVars, answerVars
<1> QED
  BY <1>3, <1>4

LEMMA ServeStep ==
  ASSUME SInv, Refuse \/ ServeOptions \/ ServeDescribe \/ ServeSetup \/ ServePlay
  PROVE  SInv'
<1> USE DEF serverVars, headVars, mediaVars, answerVars, connVars
<1>1. ASSUME NEW m \in Methods, Serves(m), Send(Response(m, FALSE, 0, NoSession, <<>>)), UNCHANGED serverVars
      PROVE  SInv'
  <2>1. PICK r : r = Response(m, FALSE, 0, NoSession, <<>>)
    OBVIOUS
  <2>2. r \in ServerMsgs /\ Send(r)
    BY <1>1, <2>1, ResponseMsg, NothingElse
  <2>3. Told(r)'
    BY <1>1, <2>1, RequestServed DEF Response, Told, Serves, Asked
  <2>4. MessagesOK' /\ Dialogue'
    <3>1. toServer' \in Seq(ClientMsgs) /\ Quiet(toServer', toClient)
      BY <1>1, RequestServed
    <3>2. toClient \in Seq(ServerMsgs)
      BY DEF SInv, MessagesOK
    <3> QED
      BY <2>2, <2>3, <3>1, <3>2, ResponseSent
  <2>5. TypeOK'
    BY <1>1 DEF SInv, TypeOK, Serves
  <2> QED
    BY <1>1, <2>4, <2>5, ServedRest DEF SInv
<1>2. CASE ServeOptions
  <2> DEFINE m == "options"
  <2>0. Serves(m) /\ m \in Methods
    BY <1>2 DEF ServeOptions, Methods
  <2>1. PICK r : r = Response(m, TRUE, 0, NoSession, <<>>)
    OBVIOUS
  <2>2. r \in ServerMsgs /\ Send(r)
    BY <1>2, <2>0, <2>1, ResponseMsg, NothingElse DEF ServeOptions
  <2>3. Told(r)'
    BY <1>2, <2>0, <2>1, RequestServed DEF Response, ServeOptions, Told, Serves, Asked, Blank
  <2>4. MessagesOK' /\ Dialogue'
    BY <2>0, <2>2, <2>3, RequestServed, ResponseSent DEF SInv, MessagesOK
  <2>5. TypeOK'
    BY <1>2 DEF ServeOptions, SInv, TypeOK, Serves
  <2> QED
    BY <2>0, <2>4, <2>5, ServedRest DEF SInv
<1>3. CASE ServeDescribe
  <2> DEFINE m == "describe"
  <2>0. PICK n \in -1 .. MaxMedia :
           /\ Serves(m) /\ media' = n /\ Send(Response(m, TRUE, n, NoSession, <<>>))
           /\ UNCHANGED <<setups, ports, playing, requests>>
    BY <1>3 DEF ServeDescribe
  <2>m. m \in Methods
    BY DEF Methods
  <2>1. PICK r : r = Response(m, TRUE, n, NoSession, <<>>)
    OBVIOUS
  <2>2. r \in ServerMsgs /\ Send(r)
    BY <2>0, <2>m, <2>1, ResponseMsg, NothingElse
  <2>3. Told(r)'
    BY <2>0, <2>m, <2>1, RequestServed DEF Response, Told, Serves, Asked, Blank
  <2>4. MessagesOK' /\ Dialogue'
    BY <2>0, <2>m, <2>2, <2>3, RequestServed, ResponseSent DEF SInv, MessagesOK
  <2>5. TypeOK'
    BY <2>0 DEF SInv, TypeOK, Serves
  <2> QED
    BY <2>0, <2>m, <2>4, <2>5, ServedRest DEF SInv
<1>4. CASE ServeSetup
  <2> DEFINE m == "setup"
  <2>0. /\ Serves(m) /\ m \in Methods
        /\ setups' = setups \union {Head(toServer).medium}
        /\ ports' = ports \union {Head(toServer).transport}
        /\ UNCHANGED <<media, playing, requests>>
    BY <1>4 DEF ServeSetup, Methods
  <2>1. PICK r : r = Response(m, TRUE, 0, Session, <<>>)
    OBVIOUS
  <2>2. r \in ServerMsgs /\ Send(r)
    BY <1>4, <2>0, <2>1, ResponseMsg, NothingElse DEF ServeSetup
  <2>a. /\ conn = "up" /\ pending /\ method = m /\ SettingUp
        /\ setups = 1 .. setupStep - 1 /\ ports = 1 .. setupStep - 1
        /\ Head(toServer).medium = setupStep /\ Head(toServer).transport = setupStep
    BY <2>0, RequestServed DEF Asked
  <2>b. UNCHANGED <<headVars, mediaVars, answerVars, connVars>>
    BY <2>0 DEF Serves
  <2>t. setupStep - 1 \in Nat /\ setupStep \in 1 .. media /\ media \in -1 .. MaxMedia
    BY <2>a, SourceAssumption DEF SettingUp, SInv, TypeOK
  <2>c. setups' = 1 .. setupStep /\ ports' = 1 .. setupStep
    <3>1. (1 .. setupStep - 1) \union {setupStep - 1 + 1} = 1 .. setupStep - 1 + 1
      BY <2>t, UpTo
    <3>2. setupStep - 1 + 1 = setupStep
      BY <2>t
    <3> QED
      BY <2>0, <2>a, <3>1, <3>2
  <2>3. Told(r)'
    BY <2>0, <2>1, <2>a, <2>b, <2>c DEF Response, Told, SettingUp
  <2>4. MessagesOK' /\ Dialogue'
    BY <2>0, <2>2, <2>3, RequestServed, ResponseSent DEF SInv, MessagesOK
  <2>5. TypeOK'
    <3>1. setups' \subseteq 1 .. MaxMedia /\ ports' \subseteq 1 .. made'
      BY <2>a, <2>b, <2>t, <2>c, SourceAssumption DEF SettingUp
    <3> QED
      BY <2>0, <2>b, <3>1 DEF SInv, TypeOK
  <2> QED
    BY <2>0, <2>4, <2>5, ServedRest DEF SInv
<1>5. CASE ServePlay
  <2> DEFINE m == "play"
  <2>0. PICK k \in 0 .. media :
           /\ Serves(m) /\ playing' = TRUE /\ Send(Response(m, TRUE, 0, NoSession, [i \in 1 .. k |-> i]))
           /\ UNCHANGED <<media, setups, ports, requests>>
    BY <1>5 DEF ServePlay
  <2>m. m \in Methods
    BY DEF Methods
  <2>k. k \in Nat /\ k <= media
    BY DEF SInv, TypeOK
  <2>f. [i \in 1 .. k |-> i] \in Seq(Nat) /\ Len([i \in 1 .. k |-> i]) = k
    BY <2>k, UpTo
  <2>1. PICK r : r = Response(m, TRUE, 0, NoSession, [i \in 1 .. k |-> i])
    OBVIOUS
  <2>2. r \in ServerMsgs /\ Send(r)
    BY <2>0, <2>m, <2>f, <2>1, ResponseMsg, NothingElse
  <2>a. conn = "up" /\ pending /\ method = m /\ AllSetUp
    BY <2>0, <2>m, RequestServed DEF Asked
  <2>3. Told(r)'
    <3>1. r.to = m /\ Len(r.rtpInfo) <= media /\ \A j \in 1 .. Len(r.rtpInfo) : r.rtpInfo[j] = j
      BY <2>1, <2>f, <2>k DEF Response
    <3> QED
      BY <2>0, <2>a, <3>1 DEF Response, Told, Serves, AllSetUp
  <2>4. MessagesOK' /\ Dialogue'
    BY <2>0, <2>m, <2>2, <2>3, RequestServed, ResponseSent DEF SInv, MessagesOK
  <2>5. TypeOK'
    BY <2>0 DEF SInv, TypeOK, Serves
  <2> QED
    BY <2>0, <2>m, <2>4, <2>5, ServedRest DEF SInv
<1> QED
  BY <1>1, <1>2, <1>3, <1>4, <1>5 DEF Refuse

----------------------------------------------------------------------------
(* What is beside the dialogue: requests of the server, their answers, and  *)
(* the end of the connection.                                               *)
LEMMA BesideStep ==
  ASSUME SInv,
         ReadReply \/ SendRequest \/ RecvRequest \/ Close \/ ConnectionLost \/ OnError,
         UNCHANGED <<media, setups, ports, playing>>,
         ReadReply \/ SendRequest \/ requests' = requests
  PROVE  SInv'
<1> USE DEF serverVars, headVars, mediaVars, answerVars, connVars
<1>1. /\ UNCHANGED <<method, session, setups, ports, media, made, infos, setupStep, transport, connected, playing>>
      /\ toServer' = toServer \/ toServer' = Append(toServer, Reply)
           \/ (toServer # <<>> /\ toServer' = Tail(toServer))
      /\ toClient' = toClient \/ toClient' = Append(toClient, [kind |-> "request"])
           \/ (toClient # <<>> /\ toClient' = Tail(toClient))
  BY DEF ReadReply, SendRequest, RecvRequest, Readable, Close, ConnectionLost, OnError, Post, Send
<1>e. ASSUME OnError
      PROVE  /\ conn = "broken" /\ conn' = "broken" /\ stopped' = stopped /\ reporters' \subseteq Reporters
             /\ thrown' = FALSE /\ pending' = FALSE
             /\ answers' = answers \/ (answers = <<>> /\ answers' = Append(<<>>, "error"))
             /\ (pending \/ Reported) => (pending \/ Reported)'
  <2>1. /\ conn = "broken" /\ conn' = "broken" /\ stopped' = stopped /\ thrown = FALSE /\ thrown' = FALSE
        /\ pending' = FALSE
        /\ answers' = answers \/ (answers = <<>> /\ answers' = Append(<<>>, "error"))
        /\ pending => answers' = Append(<<>>, "error")
        /\ ~pending => answers' = answers
    <3>1. CASE pending
      BY <1>e, <3>1 DEF OnError, Answer, SInv, TypeOK, Answering
    <3>2. CASE ~pending
      BY <1>e, <3>2 DEF OnError, SInv, TypeOK, Answering
    <3> QED
      BY <3>1, <3>2
  <2>2. reporters' \subseteq Reporters /\ reporters' # Reporters
    BY <1>e DEF OnError, SInv, TypeOK
  <2>3. Append(<<>>, "error") = <<"error">> /\ <<"error">> \in Seq(Results)
    BY DEF Results
  <2>4. (pending \/ Reported) => (pending \/ Reported)'
    BY <2>1, <2>2, <2>3 DEF Reported
  <2> QED
    BY <2>1, <2>2, <2>3, <2>4
<1>b. ASSUME ReadReply \/ SendRequest \/ RecvRequest \/ Close \/ ConnectionLost
      PROVE  (pending \/ Reported) => (pending \/ Reported)'
  BY <1>b DEF ReadReply, SendRequest, RecvRequest, Readable, Close, ConnectionLost, Reported
<1>2. Dialogue' /\ MessagesOK'
  BY <1>1, <1>e, <1>b, OthersStay DEF SInv
<1>3. OwnSequences'
  BY <1>1 DEF SInv, OwnSequences
<1>4. CASE ReadReply \/ SendRequest \/ RecvRequest \/ Close \/ ConnectionLost
  <2>1. /\ UNCHANGED <<pending, answers, thrown, reporters>>
        /\ conn' = conn \/ (conn = "up" /\ conn' = "broken")
        /\ stopped' \in BOOLEAN /\ (conn' = "up" => stopped' = stopped)
        /\ requests' \in 0 .. MaxRequests
        /\ conn \in {"idle", "connecting"} => toServer' = toServer /\ toClient' = toClient
    <3>1. requests \in 0 .. MaxRequests /\ stopped \in BOOLEAN
      BY DEF SInv, TypeOK
    <3>r. requests' \in 0 .. MaxRequests
      BY <3>1, ServerAssumption DEF ReadReply, SendRequest
    <3>2. CASE SendRequest
      BY <3>1, <3>2, <3>r DEF SendRequest
    <3>3. CASE ReadReply
      BY <3>1, <3>3, <3>r DEF ReadReply
    <3>4. CASE RecvRequest
      <4>1. toClient # <<>> /\ UNCHANGED <<pending, answers, thrown, reporters, conn, stopped>>
        BY <3>4 DEF RecvRequest, Readable
      <4>2. conn \notin {"idle", "connecting"}
        BY <4>1 DEF SInv, Unconnected
      <4> QED
        BY <3>1, <3>r, <4>1, <4>2
    <3>5. CASE Close
      BY <3>1, <3>5, <3>r DEF Close
    <3>6. CASE ConnectionLost
      BY <3>1, <3>6, <3>r DEF ConnectionLost
    <3> QED
      BY <1>4, <3>2, <3>3, <3>4, <3>5, <3>6
  <2>2. TypeOK'
    BY <1>1, <2>1 DEF SInv, TypeOK
  <2>3. Unconnected' /\ Answering'
    BY <1>1, <2>1 DEF SInv, Unconnected, Answering, Blank
  <2>4. SuccessMeansPlaying'
    BY <1>1, <2>1 DEF SInv, SuccessMeansPlaying
  <2> QED
    BY <1>2, <1>3, <2>2, <2>3, <2>4 DEF SInv
<1>5. CASE OnError
  <2>0. /\ conn = "broken" /\ conn' = "broken" /\ stopped' = stopped /\ reporters' \subseteq Reporters
        /\ thrown' = FALSE /\ pending' = FALSE
        /\ answers' = answers \/ (answers = <<>> /\ answers' = Append(<<>>, "error"))
    BY <1>e, <1>5
  <2>r. requests' = requests
    BY <1>5 DEF OnError, ReadReply, SendRequest
  <2>1. Append(<<>>, "error") = <<"error">> /\ <<"error">> \in Seq(Results)
    BY DEF Results
  <2>2. TypeOK'
    BY <1>1, <2>0, <2>r, <2>1 DEF SInv, TypeOK
  <2>3. Unconnected' /\ Answering'
    <3>1. Len(answers') <= 1
      <4>1. CASE answers' = answers
        BY <4>1 DEF SInv, Answering
      <4>2. CASE answers' = <<"error">>
        BY <4>2
      <4> QED
        BY <2>0, <2>1, <4>1, <4>2
    <3> QED
      BY <2>0, <3>1 DEF SInv, Unconnected, Answering
  <2>4. SuccessMeansPlaying'
    <3>1. CASE answers' = answers
      BY <1>1, <3>1 DEF SInv, SuccessMeansPlaying
    <3>2. CASE answers' = <<"error">>
      BY <3>2 DEF SuccessMeansPlaying
    <3> QED
      BY <2>0, <2>1, <3>1, <3>2
  <2> QED
    BY <1>2, <1>3, <2>2, <2>3, <2>4 DEF SInv
<1> QED
  BY <1>4, <1>5

(* From the call of async_open to the first request. *)
LEMMA OpenStep ==
  ASSUME SInv, AsyncOpen \/ ConnectFails \/ Connect, UNCHANGED serverVars
  PROVE  SInv'
<1> USE DEF serverVars, headVars, mediaVars, answerVars, connVars
<1>1. conn \in {"idle", "connecting"} /\ conn' \in {"connecting", "broken", "up"}
  BY DEF AsyncOpen, ConnectFails, Connect
<1>2. /\ Blank /\ method = "invalid" /\ toServer = <<>> /\ toClient = <<>> /\ answers = <<>> /\ ~playing
      /\ toServer \in Seq(ClientMsgs) /\ toClient \in Seq(ServerMsgs)
  BY <1>1 DEF SInv, Unconnected, MessagesOK
<1>3. CASE AsyncOpen
  <2>1. MessagesOK' /\ Quiet(toServer', toClient')
    BY <1>2, <1>3 DEF AsyncOpen, MessagesOK, Quiet
  <2>2. TypeOK' /\ Unconnected' /\ Answering'
    BY <1>2, <1>3 DEF AsyncOpen, SInv, TypeOK, Unconnected, Answering, Blank
  <2>3. OwnSequences' /\ SuccessMeansPlaying'
    BY <1>2, <1>3 DEF AsyncOpen, SInv, OwnSequences, SuccessMeansPlaying
  <2> QED
    BY <2>1, <2>2, <2>3, QuietDialogue DEF SInv
<1>4. CASE ConnectFails
  <2>0. pending /\ answers' = Append(<<>>, "error") /\ thrown' = FALSE /\ pending' = FALSE /\ conn' = "broken"
    BY <1>2, <1>4 DEF ConnectFails, Answer, SInv, Answering, TypeOK
  <2>m. Append(<<>>, "error") = <<"error">> /\ <<"error">> \in Seq(Results)
    BY DEF Results
  <2>1. MessagesOK' /\ Quiet(toServer', toClient')
    BY <1>2, <1>4 DEF ConnectFails, MessagesOK, Quiet
  <2>2. TypeOK'
    <3>1. answers' \in Seq(Results) /\ reporters' \subseteq Reporters
      BY <1>4, <2>0, <2>m DEF ConnectFails
    <3> QED
      BY <1>4, <2>0, <3>1 DEF ConnectFails, SInv, TypeOK
  <2>3. Unconnected' /\ Answering'
    BY <1>4, <2>0, <2>m DEF SInv, Unconnected, Answering
  <2>4. OwnSequences' /\ SuccessMeansPlaying'
    BY <1>4, <2>0, <2>m DEF ConnectFails, SInv, OwnSequences, SuccessMeansPlaying
  <2> QED
    BY <2>1, <2>2, <2>3, <2>4, QuietDialogue DEF SInv
<1>5. CASE Connect
  <2>0. /\ conn = "connecting" /\ conn' = (IF stopped THEN "broken" ELSE "up") /\ method' = "options"
        /\ UNCHANGED <<session, setupStep, infos, transport, made, connected, pending, answers, thrown,
                       stopped, reporters, toClient, setups, ports, media, playing, requests>>
    BY <1>5 DEF Connect
  <2>1. PICK q : q = Request("options", 0, session, transport)
    OBVIOUS
  <2>2. q \in ClientMsgs /\ Post(q)
    BY <1>2, <1>5, <2>1, SourceAssumption DEF Connect, ClientMsgs, Request, Methods, Blank
  <2>3. Quiet(toServer, toClient') /\ toClient' \in Seq(ServerMsgs)
    BY <1>2, <2>0 DEF Quiet
  <2>4. Asked(q)'
    BY <1>2, <2>0, <2>1 DEF Asked, Request, Blank, SInv, Answering
  <2>5. MessagesOK' /\ Dialogue'
    BY <1>2, <2>2, <2>3, <2>4, RequestPosted
  <2>6. TypeOK'
    BY <2>0 DEF SInv, TypeOK, Methods
  <2>7. Unconnected' /\ Answering'
    BY <2>0 DEF SInv, Unconnected, Answering
  <2>8. OwnSequences' /\ SuccessMeansPlaying'
    BY <1>2, <2>0 DEF SInv, OwnSequences, SuccessMeansPlaying
  <2> QED
    BY <2>5, <2>6, <2>7, <2>8 DEF SInv
<1> QED
  BY <1>3, <1>4, <1>5

----------------------------------------------------------------------------
(* A response that ends the open without success, and one that is followed  *)
(* by a request.                                                            *)
LEMMA GivesUp ==
  ASSUME SInv, NEW resp, Receives(resp), Answer("error"), toServer' = toServer, UNCHANGED serverVars,
         method' \in Methods, session' \in {NoSession, Session}, setupStep' \in 0 .. MaxMedia,
         infos' \in Seq(0 .. MaxMedia), made' \in 0 .. MaxMedia, connected' \subseteq 1 .. made',
         transport' \in 0 .. made', ports \subseteq 1 .. made', OwnSequences'
  PROVE  SInv'
<1>1. /\ toClient' \in Seq(ServerMsgs) /\ Quiet(toServer, toClient')
      /\ thrown = FALSE /\ conn \in {"up", "broken"}
      /\ (pending /\ answers = <<>>) \/ (Reported /\ reporters = {"reader"})
  BY ResponseRead
<1>2. UNCHANGED <<conn, stopped, reporters>>
  BY DEF Receives, connVars
<1>3. /\ pending' = FALSE /\ answers' = <<"error">>
      /\ thrown' \in BOOLEAN /\ (thrown' => conn = "broken" /\ reporters = {"reader"})
  BY ReadAnswers DEF Results
<1>4. Append(<<>>, "error") = <<"error">> /\ <<"error">> \in Seq(Results)
  BY DEF Results
<1>5. MessagesOK' /\ Dialogue'
  <2>1. MessagesOK' /\ Quiet(toServer', toClient')
    BY <1>1 DEF SInv, MessagesOK
  <2> QED
    BY <2>1, QuietDialogue
<1>6. TypeOK'
  BY <1>2, <1>3, <1>4 DEF SInv, TypeOK, serverVars
<1>7. Unconnected' /\ Answering' /\ SuccessMeansPlaying'
  <2>1. conn' = "up" => ~stopped'
    BY <1>2 DEF SInv, Answering
  <2>2. Len(answers') = 1 /\ answers'[1] = "error" /\ DOMAIN answers' = 1 .. 1
    BY <1>3
  <2>3. Answering' /\ Unconnected'
    BY <1>1, <1>2, <1>3, <2>1, <2>2 DEF Unconnected, Answering
  <2>4. SuccessMeansPlaying'
    BY <2>2 DEF SuccessMeansPlaying
  <2> QED
    BY <2>3, <2>4
<1> QED
  BY <1>5, <1>6, <1>7 DEF SInv

LEMMA GoesOn ==
  ASSUME SInv, NEW resp, Receives(resp), UNCHANGED <<answerVars, serverVars>>,
         NEW q \in ClientMsgs, Post(q), Asked(q)',
         method' \in Methods, session' \in {NoSession, Session}, setupStep' \in 0 .. MaxMedia,
         infos' \in Seq(0 .. MaxMedia), made' \in 0 .. MaxMedia, connected' \subseteq 1 .. made',
         transport' \in 0 .. made', ports \subseteq 1 .. made', OwnSequences'
  PROVE  SInv'
<1>1. /\ toClient' \in Seq(ServerMsgs) /\ Quiet(toServer, toClient')
      /\ thrown = FALSE /\ conn \in {"up", "broken"}
      /\ (pending /\ answers = <<>>) \/ (Reported /\ answers = <<"error">>)
  BY ResponseRead DEF Reported
<1>2. UNCHANGED <<conn, stopped, reporters, pending, answers, thrown>>
  BY DEF Receives, connVars, answerVars
<1>3. MessagesOK' /\ Dialogue'
  BY <1>1, RequestPosted DEF SInv, MessagesOK
<1>4. TypeOK'
  BY <1>2 DEF SInv, TypeOK, serverVars
<1>5. Unconnected' /\ Answering' /\ SuccessMeansPlaying'
  BY <1>1, <1>2 DEF SInv, Unconnected, Answering, SuccessMeansPlaying
<1> QED
  BY <1>3, <1>4, <1>5 DEF SInv

(* The next SETUP or PLAY, when the media before it are set up. *)
LEMMA NextSetupStep ==
  ASSUME SInv, NEW resp, Receives(resp), UNCHANGED serverVars,
         NEW n \in 0 .. MaxMedia, NEW failed, NEW sess \in {NoSession, Session},
         NextSetup(n, failed, sess), media = n,
         session' = sess, sess = IF setups = {} THEN NoSession ELSE Session,
         setupStep \in 0 .. n, made = setupStep, setups = 1 .. setupStep, ports = 1 .. setupStep,
         infos' \in Seq(0 .. MaxMedia), Len(infos') = n, OwnSequences',
         connected' \subseteq 1 .. made,
         n > 0 /\ setupStep = n /\ ~failed => n \in connected'
  PROVE  SInv'
<1>0. /\ MaxMedia \in Nat /\ UNCHANGED <<media, setups, ports, playing, requests>>
      /\ UNCHANGED answerVars => (pending \/ Reported)'
  BY SourceAssumption, ReadKeeps DEF serverVars
<1>1. CASE setupStep < n /\ SendSetup(failed, sess)
  <2>0. /\ setupStep + 1 \in 1 .. n /\ method' = "setup" /\ setupStep' = setupStep + 1
        /\ method' \in Methods /\ ports \subseteq 1 .. made
    BY <1>0, <1>1 DEF SendSetup, Methods
  <2>1. PICK ok \in BOOLEAN, cleared \in BOOLEAN :
          /\ made' = (IF ok THEN made + 1 ELSE made)
          /\ transport' = (IF ok THEN made + 1 ELSE 0)
          /\ IF ok /\ (failed => cleared)
             THEN Post(Request("setup", setupStep + 1, sess, made + 1)) /\ UNCHANGED answerVars
             ELSE Answer("error") /\ UNCHANGED toServer
    BY <1>1 DEF SendSetup
  <2>2. /\ made' \in 0 .. MaxMedia /\ transport' \in 0 .. made' /\ setupStep' \in 0 .. MaxMedia
        /\ connected' \subseteq 1 .. made' /\ ports \subseteq 1 .. made'
    BY <1>0, <2>0, <2>1
  <2>3. CASE ok /\ (failed => cleared)
    <3>1. PICK q : q = Request("setup", setupStep + 1, sess, made + 1)
      OBVIOUS
    <3>2. q \in ClientMsgs /\ Post(q) /\ UNCHANGED answerVars
      <4>1. setupStep + 1 \in 0 .. MaxMedia /\ made + 1 \in Nat /\ "setup" \in Methods
        BY <1>0, <2>0 DEF Methods
      <4> QED
        BY <2>1, <2>3, <3>1, <4>1 DEF ClientMsgs, Request
    <3>3. Asked(q)'
      <4>1. SettingUp'
        BY <1>0, <2>0, <2>1, <2>3 DEF SettingUp
      <4>2. setups' = 1 .. setupStep' - 1 /\ ports' = 1 .. setupStep' - 1
        BY <1>0, <2>0
      <4>3. q.method = "setup" /\ q.session = sess /\ q.medium = setupStep' /\ q.transport = setupStep'
        BY <2>0, <3>1 DEF Request
      <4> QED
        BY <1>0, <2>0, <3>2, <4>1, <4>2, <4>3 DEF Asked, answerVars
    <3> QED
      BY <2>0, <2>2, <3>2, <3>3, GoesOn
  <2>4. CASE ~(ok /\ (failed => cleared))
    BY <2>0, <2>1, <2>2, <2>4, GivesUp
  <2> QED
    BY <2>3, <2>4
<1>2. CASE setupStep >= n /\ SendPlay(failed, sess)
  <2>0. /\ method' = "play" /\ transport' = 0 /\ setupStep' = setupStep /\ made' = made /\ setupStep = n
        /\ method' \in Methods /\ ports \subseteq 1 .. made' /\ transport' \in 0 .. made'
        /\ made' \in 0 .. MaxMedia /\ connected' \subseteq 1 .. made' /\ setupStep' \in 0 .. MaxMedia
    BY <1>0, <1>2 DEF SendPlay, SendPlayAs, Methods
  <2>1. CASE failed
    <3>1. Answer("error") /\ toServer' = toServer
      BY <1>2, <2>1 DEF SendPlay, SendPlayAs
    <3> QED
      BY <2>0, <3>1, GivesUp
  <2>2. CASE ~failed
    <3>1. PICK q : q = Request("play", 0, sess, 0)
      OBVIOUS
    <3>2. q \in ClientMsgs /\ Post(q) /\ UNCHANGED answerVars
      <4>1. 0 \in 0 .. MaxMedia /\ 0 \in Nat /\ "play" \in Methods
        BY <1>0 DEF Methods
      <4> QED
        BY <1>2, <2>2, <3>1, <4>1 DEF SendPlay, SendPlayAs, ClientMsgs, Request
    <3>3. Asked(q)'
      <4>1. AllSetUp'
        BY <1>0, <2>0, <2>2 DEF AllSetUp
      <4>2. q.method = "play" /\ q.session = sess
        BY <3>1 DEF Request
      <4> QED
        BY <1>0, <2>0, <3>2, <4>1, <4>2 DEF Asked, answerVars
    <3> QED
      BY <2>0, <3>2, <3>3, GoesOn
  <2> QED
    BY <2>1, <2>2
<1> QED
  BY <1>1, <1>2 DEF NextSetup

(* Each response the source reads. *)
LEMMA ResponseStep ==
  ASSUME SInv, RecvResponse, UNCHANGED serverVars
  PROVE  SInv'
<1> DEFINE resp == Head(toClient)
<1>0. MaxMedia \in Nat /\ UNCHANGED <<media, setups, ports, playing, requests>>
  BY SourceAssumption DEF serverVars
<1>t. /\ method \in Methods /\ session \in {NoSession, Session} /\ setupStep \in 0 .. MaxMedia
      /\ infos \in Seq(0 .. MaxMedia) /\ made \in 0 .. MaxMedia /\ connected \subseteq 1 .. made
      /\ transport \in 0 .. made /\ ports \subseteq 1 .. made /\ OwnSequences
  BY DEF SInv, TypeOK
<1>o. UNCHANGED infos => OwnSequences'
  BY <1>t DEF OwnSequences
<1>r. ASSUME Receives(resp)
      PROVE  /\ resp \in ServerMsgs /\ resp.kind = "response" /\ Told(resp)
             /\ UNCHANGED answerVars => (pending \/ Reported)'
  BY <1>r, ResponseRead, ReadKeeps
<1> HIDE DEF resp
<1>1. CASE RecvRefusal(resp) \/ RecvBadSdp(resp)
  <2>1. Receives(resp) /\ Answer("error") /\ toServer' = toServer /\ UNCHANGED <<headVars, mediaVars>>
    BY <1>1 DEF RecvRefusal, RecvBadSdp
  <2> QED
    BY <2>1, <1>t, <1>o, GivesUp DEF headVars, mediaVars
<1>2. CASE RecvOptions(resp)
  <2>1. /\ Receives(resp) /\ resp.ok /\ method = "options" /\ method' = "describe" /\ method' \in Methods
        /\ UNCHANGED <<session, setupStep, infos, transport, made, connected>>
        /\ UNCHANGED answerVars
    BY <1>2 DEF RecvOptions, mediaVars, answerVars, Methods
  <2>2. Blank /\ (pending \/ Reported)'
    BY <1>r, <2>1 DEF Told
  <2>3. PICK q : q = Request("describe", 0, session, transport)
    OBVIOUS
  <2>4. q \in ClientMsgs /\ Post(q)
    <3>1. 0 \in 0 .. MaxMedia /\ transport \in Nat /\ "describe" \in Methods
      BY <1>0, <2>2 DEF Methods, Blank
    <3> QED
      BY <1>2, <1>t, <2>3, <3>1 DEF RecvOptions, ClientMsgs, Request
  <2>5. Asked(q)'
    BY <1>0, <2>1, <2>2, <2>3 DEF Asked, Blank, Request
  <2> QED
    BY <1>0, <1>t, <1>o, <2>1, <2>4, <2>5, GoesOn
<1>3. CASE RecvDescribe(resp)
  <2>1. /\ Receives(resp) /\ resp.ok /\ method = "describe" /\ resp.media # -1
        /\ infos' = [i \in 1 .. resp.media |-> IF i <= Len(infos) THEN infos[i] ELSE 0]
        /\ NextSetup(resp.media, FALSE, session)
        /\ UNCHANGED <<session, connected>>
    BY <1>3 DEF RecvDescribe
  <2>2. Blank /\ media = resp.media
    BY <1>r, <2>1 DEF Told
  <2>3. media \in 0 .. MaxMedia
    BY <2>1, <2>2, <1>0 DEF SInv, TypeOK
  <2>4. infos' = [i \in 1 .. media |-> 0]
    BY <2>1, <2>2, <2>3 DEF Blank
  <2>5. infos' \in Seq(0 .. MaxMedia) /\ Len(infos') = media /\ OwnSequences'
    <3>1. infos' \in Seq(0 .. MaxMedia) /\ Len(infos') = media
      BY <1>0, <2>3, <2>4
    <3>2. \A k \in 1 .. Len(infos') : infos'[k] = 0
      BY <2>4, <3>1
    <3> QED
      BY <3>1, <3>2 DEF OwnSequences
  <2>6. setupStep = 0 /\ made = 0 /\ setups = 1 .. 0 /\ ports = 1 .. 0 /\ session = NoSession /\ setups = {}
    BY <2>2 DEF Blank
  <2>7. /\ setupStep \in 0 .. media /\ made = setupStep /\ setups = 1 .. setupStep /\ ports = 1 .. setupStep
        /\ session' = session /\ session = IF setups = {} THEN NoSession ELSE Session
        /\ connected' \subseteq 1 .. made
        /\ (media > 0 /\ setupStep = media /\ ~FALSE => media \in connected')
    BY <1>t, <2>1, <2>3, <2>6
  <2>8. NextSetup(media, FALSE, session)
    BY <2>1, <2>2
  <2> QED
    BY <1>t, <2>1, <2>3, <2>5, <2>7, <2>8, NextSetupStep
<1>4. CASE RecvSetup(resp)
  <2>1. PICK ok \in BOOLEAN :
          /\ Receives(resp) /\ resp.ok /\ method = "setup" /\ session' = resp.session
          /\ connected' = (IF ok THEN connected \union {made} ELSE connected)
          /\ NextSetup(Len(infos), ~ok, resp.session)
          /\ UNCHANGED infos
    BY <1>4 DEF RecvSetup
  <2>2. /\ SettingUp /\ setups = 1 .. setupStep /\ ports = 1 .. setupStep /\ resp.session = Session
    BY <1>r, <2>1 DEF Told
  <2>3. media \in 0 .. MaxMedia /\ setupStep \in 1 .. media /\ made = setupStep /\ Len(infos) = media
    BY <1>0, <2>2 DEF SettingUp, SInv, TypeOK
  <2>4. setups # {}
    <3>1. setupStep \in 1 .. setupStep
      BY <2>3
    <3> QED
      BY <2>2, <3>1
  <2>5. /\ session' = Session /\ Session = IF setups = {} THEN NoSession ELSE Session
        /\ setupStep \in 0 .. media /\ connected' \subseteq 1 .. made
        /\ (media > 0 /\ setupStep = media /\ ~(~ok) => media \in connected')
        /\ infos' \in Seq(0 .. MaxMedia) /\ Len(infos') = media /\ OwnSequences'
    <3>1. session' = Session /\ Session = IF setups = {} THEN NoSession ELSE Session
      BY <2>1, <2>2, <2>4
    <3>2. setupStep \in 0 .. media /\ connected' \subseteq 1 .. made
      BY <1>t, <2>1, <2>3
    <3>3. media > 0 /\ setupStep = media /\ ~(~ok) => media \in connected'
      BY <2>1, <2>3
    <3>4. infos' \in Seq(0 .. MaxMedia) /\ Len(infos') = media /\ OwnSequences'
      BY <1>t, <1>o, <2>1, <2>3
    <3> QED
      BY <3>1, <3>2, <3>3, <3>4, Zenon
  <2>6. NextSetup(media, ~ok, Session)
    BY <2>1, <2>2, <2>3
  <2> QED
    BY <2>1, <2>2, <2>3, <2>5, <2>6, NextSetupStep
<1>5. CASE RecvPlay(resp)
  <2>1. /\ Receives(resp) /\ resp.ok /\ method = "play" /\ Len(resp.rtpInfo) <= Len(infos)
        /\ infos' = [i \in DOMAIN infos |-> IF i <= Len(resp.rtpInfo) THEN resp.rtpInfo[i] ELSE infos[i]]
        /\ Answer("ok") /\ toServer' = toServer
        /\ UNCHANGED <<method, session, setupStep, transport, made, connected>>
    BY <1>5 DEF RecvPlay, mediaVars
  <2>2. AllSetUp /\ playing /\ \A k \in 1 .. Len(resp.rtpInfo) : resp.rtpInfo[k] = k
    BY <1>r, <2>1 DEF Told
  <2>3. /\ toClient' \in Seq(ServerMsgs) /\ Quiet(toServer, toClient')
        /\ thrown = FALSE /\ conn \in {"up", "broken"} /\ resp \in ServerMsgs
        /\ (pending /\ answers = <<>>) \/ (Reported /\ reporters = {"reader"})
    BY <2>1, ResponseRead
  <2>4. UNCHANGED <<conn, stopped, reporters>>
    BY <2>1 DEF Receives, connVars
  <2>5. /\ pending' = FALSE
        /\ \/ answers' = <<"ok">> /\ thrown' = FALSE
           \/ answers' = <<"error">> /\ thrown' = TRUE /\ conn = "broken" /\ reporters = {"reader"}
    BY <2>1, ReadAnswers DEF Results
  <2>6. <<"ok">> \in Seq(Results) /\ <<"error">> \in Seq(Results)
    BY DEF Results
  <2>7. /\ infos' \in Seq(0 .. MaxMedia) /\ Len(infos') = media
        /\ \A k \in 1 .. Len(infos') : infos'[k] \in {0, k}
    <3>1. resp.rtpInfo \in Seq(Nat)
      BY <2>1, <2>3, <1>r, KindsOfMessages
    <3>2. Len(infos) = media /\ media \in 0 .. MaxMedia /\ DOMAIN infos = 1 .. media
      BY <1>t, <2>2 DEF AllSetUp
    <3>3. \A k \in 1 .. media : infos'[k] \in {0, k} /\ infos'[k] \in 0 .. MaxMedia
      BY <1>0, <1>t, <2>1, <2>2, <3>1, <3>2 DEF OwnSequences
    <3> QED
      BY <1>0, <2>1, <3>2, <3>3
  <2>8. MessagesOK' /\ Dialogue'
    <3>1. MessagesOK' /\ Quiet(toServer', toClient')
      BY <2>1, <2>3 DEF SInv, MessagesOK
    <3> QED
      BY <3>1, QuietDialogue
  <2>9. TypeOK'
    BY <1>0, <2>1, <2>4, <2>5, <2>6, <2>7 DEF SInv, TypeOK
  <2>10. Unconnected' /\ Answering' /\ OwnSequences'
    <3>1. Len(answers') = 1
      BY <2>5
    <3>2. conn' = "up" => ~stopped'
      BY <2>4 DEF SInv, Answering
    <3> QED
      BY <2>3, <2>4, <2>5, <2>7, <3>1, <3>2 DEF Unconnected, Answering, OwnSequences
  <2>11. SuccessMeansPlaying'
    BY <1>0, <2>1, <2>2, <2>7 DEF SuccessMeansPlaying, AllSetUp
  <2> QED
    BY <2>8, <2>9, <2>10, <2>11 DEF SInv
<1> QED
  BY <1>1, <1>2, <1>3, <1>4, <1>5 DEF RecvResponse, resp

----------------------------------------------------------------------------
LEMMA SInvInit == ServerInit => SInv
<1> SUFFICES ASSUME ServerInit PROVE SInv
  OBVIOUS
<1> USE DEF ServerInit, Init
<1>0. MaxMedia \in Nat /\ MaxRequests \in Nat
  BY SourceAssumption, ServerAssumption
<1>1. TypeOK
  <2>1. <<>> \in Seq(0 .. MaxMedia) /\ <<>> \in Seq(Results)
    OBVIOUS
  <2>2. infos \in Seq(0 .. MaxMedia) /\ answers \in Seq(Results)
    BY <2>1
  <2>3. connected \subseteq 1 .. made /\ setups \subseteq 1 .. MaxMedia /\ ports \subseteq 1 .. made
    OBVIOUS
  <2>4. /\ method \in Methods /\ session \in {NoSession, Session}
        /\ pending \in BOOLEAN /\ thrown \in BOOLEAN /\ stopped \in BOOLEAN /\ playing \in BOOLEAN
        /\ conn \in {"idle", "connecting", "up", "broken"}
    BY DEF Methods
  <2>5. /\ setupStep \in 0 .. MaxMedia /\ made \in 0 .. MaxMedia /\ transport \in 0 .. made
        /\ reporters \subseteq Reporters /\ media \in -1 .. MaxMedia /\ requests \in 0 .. MaxRequests
    BY <1>0
  <2> HIDE DEF ServerInit, Init
  <2> QED
    BY <2>2, <2>3, <2>4, <2>5 DEF TypeOK
<1>2. MessagesOK
  BY DEF MessagesOK
<1>3. Dialogue /\ OwnSequences
  BY DEF Dialogue, OneUnderWay, OwnSequences
<1>4. Unconnected /\ Answering
  BY DEF Unconnected, Answering, Blank
<1>5. SuccessMeansPlaying
  BY DEF SuccessMeansPlaying
<1> QED
  BY <1>1, <1>2, <1>3, <1>4, <1>5 DEF SInv

LEMMA SInvStep == SInv /\ [Next]_vars => SInv'
<1> SUFFICES ASSUME SInv, [Next]_vars PROVE SInv'
  OBVIOUS
<1>1. CASE Refuse \/ ServeOptions \/ ServeDescribe \/ ServeSetup \/ ServePlay
  BY <1>1, ServeStep
<1>2. CASE ReadReply \/ SendRequest
  BY <1>2, BesideStep DEF ReadReply, SendRequest, serverVars
<1>3. CASE (RecvRequest \/ Close \/ ConnectionLost \/ OnError) /\ UNCHANGED serverVars
  BY <1>3, BesideStep DEF serverVars
<1>4. CASE (AsyncOpen \/ ConnectFails \/ Connect) /\ UNCHANGED serverVars
  BY <1>4, OpenStep
<1>5. CASE RecvResponse /\ UNCHANGED serverVars
  BY <1>5, ResponseStep
<1>6. CASE UNCHANGED vars
  BY <1>6 DEF vars, sourceVars, serverVars, SInv, TypeOK, MessagesOK, Dialogue, OneUnderWay, Asked, Told,
              Reported, Blank, SettingUp, AllSetUp, Unconnected, Answering, OwnSequences, SuccessMeansPlaying
<1> QED
  BY <1>1, <1>2, <1>3, <1>4, <1>5, <1>6 DEF Next, ServerNext, ServerAnswers, SourceNext

LEMMA AlwaysSInv == Spec => []SInv
  BY SInvInit, SInvStep, PTL DEF Spec

(* Every variable keeps its type: the SETUPs stay within the media of the   *)
(* SDP, and the server is told of no sockets but those made.                *)
THEOREM ServerTypeCorrect == Spec => []TypeOK
  BY AlwaysSInv, PTL DEF SInv

(* The handler of async_open is called at most once. *)
THEOREM AlwaysAnsweredOnce == Spec => []AnsweredOnce
<1>1. SInv => AnsweredOnce
  BY DEF SInv, TypeOK, Answering, AnsweredOnce
<1> QED
  BY <1>1, AlwaysSInv, PTL

(* Each response is read as the answer to the request it is for. *)
THEOREM AlwaysInStep == Spec => []InStep
<1>1. SInv => InStep
  <2> SUFFICES ASSUME SInv PROVE InStep
    OBVIOUS
  <2>1. DOMAIN toServer = 1 .. Len(toServer) /\ DOMAIN toClient = 1 .. Len(toClient)
    BY DEF SInv, MessagesOK
  <2> QED
    BY <2>1 DEF SInv, Dialogue, OneUnderWay, Asked, Told, InStep
<1> QED
  BY <1>1, AlwaysSInv, PTL

(* What is sent to the server is a legal dialogue. *)
THEOREM AlwaysLegalDialogue == Spec => []LegalDialogue
<1>1. SInv => LegalDialogue
  <2> SUFFICES ASSUME SInv, NEW i \in 1 .. Len(toServer), toServer[i].kind = "request"
               PROVE  LET q == toServer[i]
                      IN  /\ q.method = "setup" => setups = 1 .. q.medium - 1 /\ q.medium <= media /\ q.transport = q.medium
                          /\ q.method = "play" => setups = 1 .. media
                          /\ q.session = IF setups = {} THEN NoSession ELSE Session
    BY DEF SInv, MessagesOK, LegalDialogue
  <2>1. Asked(toServer[i])
    BY DEF SInv, Dialogue
  <2> QED
    BY <2>1 DEF Asked, SettingUp, AllSetUp
<1> QED
  BY <1>1, AlwaysSInv, PTL

(* An open that succeeded left the server playing to the source's sockets. *)
THEOREM AlwaysSuccessMeansPlaying == Spec => []SuccessMeansPlaying
  BY AlwaysSInv, PTL DEF SInv

----------------------------------------------------------------------------
(* The source as its owner sees it. *)
LEMMA AnswersOpening ==
  ASSUME SInv, pending, NEW result \in Results, Answer(result), result = "ok" => playing,
         UNCHANGED <<stopped, playing>>
  PROVE  Opening!Next
<1>1. answers = <<>>
  BY DEF SInv, Answering
<1>2. pending' = FALSE /\ answers' = Append(<<>>, result)
  BY <1>1 DEF Answer
<1>3. answers' = <<result>> /\ Len(answers') = 1 /\ answers' # <<>> /\ answers'[Len(answers')] = result
  BY <1>2
<1>4. Opening!Answered(result)
  BY <1>2, <1>3 DEF Opening!Answered
<1> QED
  BY <1>4 DEF Opening!Next, Results

LEMMA OpeningStep == SInv /\ [Next]_vars => [Opening!Next]_(Opening!vars)
<1> SUFFICES ASSUME SInv, [Next]_vars PROVE [Opening!Next]_(Opening!vars)
  OBVIOUS
<1> USE DEF headVars, mediaVars, answerVars, connVars
<1>1. ASSUME UNCHANGED <<pending, answers, stopped, playing>> PROVE UNCHANGED Opening!vars
  BY <1>1 DEF Opening!vars
<1>2. CASE ServerNext
  <2>1. UNCHANGED <<pending, answers, stopped>>
    BY <1>2 DEF ServerNext, ServerAnswers, Refuse, ServeOptions, ServeDescribe, ServeSetup, ServePlay,
                Serves, ReadReply, SendRequest
  <2>2. CASE ServePlay
    <3>1. Serves("play") /\ playing' = TRUE /\ "play" \in Methods
      BY <2>2 DEF ServePlay, Methods
    <3>2. pending /\ conn = "up"
      BY <3>1, RequestServed
    <3>3. ~stopped
      BY <3>2 DEF SInv, Answering
    <3>4. Opening!Grant
      BY <2>1, <3>1, <3>2, <3>3 DEF Opening!Grant
    <3> QED
      BY <3>4 DEF Opening!Next
  <2>3. CASE ~ServePlay
    <3>1. playing' = playing
      BY <1>2, <2>3 DEF ServerNext, ServerAnswers, Refuse, ServeOptions, ServeDescribe, ServeSetup,
                        ReadReply, SendRequest, serverVars
    <3> QED
      BY <1>1, <2>1, <3>1
  <2> QED
    BY <2>2, <2>3
<1>s. ASSUME UNCHANGED serverVars PROVE playing' = playing
  BY <1>s DEF serverVars
<1>3. CASE AsyncOpen /\ UNCHANGED serverVars
  <2>1. conn = "idle" /\ ~stopped /\ pending' = TRUE /\ answers' = answers /\ stopped' = stopped
    BY <1>3 DEF AsyncOpen
  <2>2. ~pending /\ answers = <<>> /\ playing' = playing
    BY <1>3, <1>s, <2>1 DEF SInv, Answering, Unconnected
  <2>3. Opening!Start
    BY <2>1, <2>2 DEF Opening!Start
  <2> QED
    BY <2>3 DEF Opening!Next
<1>4. CASE ConnectFails /\ UNCHANGED serverVars
  <2>1. pending /\ Answer("error") /\ stopped' = stopped
    BY <1>4 DEF ConnectFails, SInv, Answering
  <2> QED
    BY <1>4, <1>s, <2>1, AnswersOpening DEF Results
<1>5. CASE (Connect \/ RecvRequest \/ ConnectionLost) /\ UNCHANGED serverVars
  <2>1. UNCHANGED <<pending, answers, stopped>>
    BY <1>5 DEF Connect, RecvRequest, ConnectionLost
  <2> QED
    BY <1>1, <1>5, <1>s, <2>1
<1>6. CASE RecvResponse /\ UNCHANGED serverVars
  <2>1. PICK resp : /\ Receives(resp)
                    /\ \/ RecvRefusal(resp) \/ RecvOptions(resp) \/ RecvBadSdp(resp)
                       \/ RecvDescribe(resp) \/ RecvSetup(resp) \/ RecvPlay(resp)
    BY <1>6 DEF RecvResponse, RecvRefusal, RecvOptions, RecvBadSdp, RecvDescribe, RecvSetup, RecvPlay
  <2>2. UNCHANGED <<stopped, playing>>
    BY <1>6, <1>s, <2>1 DEF Receives
  <2>3. ASSUME NEW n, NEW failed, NEW sess, NextSetup(n, failed, sess)
        PROVE  Answer("error") \/ UNCHANGED <<pending, answers>>
    BY <2>3 DEF NextSetup, SendSetup, SendPlay, SendPlayAs
  <2>4. \/ Answer("error") \/ UNCHANGED <<pending, answers>>
        \/ Answer("ok") /\ resp.ok /\ method = "play"
    BY <2>1, <2>3 DEF RecvRefusal, RecvOptions, RecvBadSdp, RecvDescribe, RecvSetup, RecvPlay
  <2>5. CASE pending
    <3>1. CASE Answer("ok") /\ resp.ok /\ method = "play"
      <4>1. playing
        BY <2>1, <3>1, ResponseRead DEF Told
      <4> QED
        BY <2>2, <2>5, <3>1, <4>1, AnswersOpening DEF Results
    <3>2. CASE Answer("error")
      BY <2>2, <2>5, <3>2, AnswersOpening DEF Results
    <3> QED
      BY <1>1, <2>2, <2>4, <3>1, <3>2
  <2>6. CASE ~pending
    <3>1. pending = FALSE
      BY <2>6 DEF SInv, TypeOK
    <3>2. UNCHANGED <<pending, answers>>
      BY <2>4, <3>1 DEF Answer
    <3> QED
      BY <1>1, <2>2, <3>2
  <2> QED
    BY <2>5, <2>6
<1>7. CASE Close /\ UNCHANGED serverVars
  <2>1. Opening!Stop
    BY <1>7, <1>s DEF Close, Opening!Stop
  <2> QED
    BY <2>1 DEF Opening!Next
<1>8. CASE OnError /\ UNCHANGED serverVars
  <2>1. stopped' = stopped /\ ((pending /\ Answer("error")) \/ UNCHANGED <<pending, answers>>)
    BY <1>8 DEF OnError
  <2> QED
    BY <1>1, <1>8, <1>s, <2>1, AnswersOpening DEF Results
<1>9. CASE UNCHANGED vars
  BY <1>1, <1>9 DEF vars, sourceVars, serverVars
<1> QED
  BY <1>2, <1>3, <1>4, <1>5, <1>6, <1>7, <1>8, <1>9 DEF Next, SourceNext

(* The client's side of the dialogue is, to its owner, an open that is      *)
(* answered at most once, and that succeeds only if the server had granted  *)
(* PLAY before a close.                                                     *)
THEOREM ServerImplementsOpenOnce == Spec => ImplementsOpenOnce
<1>1. ServerInit => Opening!Init
  BY DEF ServerInit, Init, Opening!Init
<1> QED
  BY <1>1, OpeningStep, AlwaysSInv, PTL DEF Spec, ImplementsOpenOnce, Opening!Spec
=============================================================================
