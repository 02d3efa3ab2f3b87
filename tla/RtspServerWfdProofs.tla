------------------------ MODULE RtspServerWfdProofs ------------------------
(***************************************************************************)
(* Proofs about RtspServerWfd, for any number of requests of the server.   *)
(* As long as the server waits its turn, the queues of messages only take  *)
(* a few shapes, one after the other; the invariant names them, and what   *)
(* request_, the sockets and the server are like in each.                  *)
(***************************************************************************)
EXTENDS RtspServerWfd, SequenceTheorems, TLAPS

Ask(what) == [kind |-> "request", what |-> what]

(* The sockets made by GET_PARAMETER, the second request of the server.     *)
Sockets(n) ==
  /\ n < 2 => made = 0 /\ transport = 0
  /\ n >= 2 => made = 1 /\ transport = 1
  /\ infos = <<>> /\ setupStep = 0 /\ ports = {}

(* Nothing is asked; the answer of the sink may be on its way.              *)
Between ==
  /\ requests \in 0 .. 3 /\ method = "invalid" /\ Sockets(requests)
  /\ toServer \in {<<>>, <<Reply>>} /\ toClient = <<>>

(* A request of the server is on its way.                                   *)
Asking ==
  /\ requests \in 1 .. 4 /\ method = "invalid" /\ Sockets(requests - 1)
  /\ toServer = <<>> /\ toClient = <<Ask(Asks(requests - 1))>>

(* What is true while a request q of the sink is on its way.                *)
SinkAsked(q) ==
  /\ q.kind = "request" /\ q.method = method
  /\ \/ method = "options" /\ requests = 1 /\ Sockets(1)
     \/ /\ method = "setup" /\ q.transport = 1 /\ made = 1
        /\ ports = {} /\ setupStep = 1 /\ Len(infos) = 1
     \/ method = "play" /\ made = 1 /\ ports = {1} /\ 1 \in connected

(* What is true while an answer r of the server is.                         *)
SinkTold(r) ==
  /\ r.kind = "response" /\ r.to = method /\ r.ok \in BOOLEAN
  /\ \/ method = "options" /\ requests = 1 /\ Sockets(1)
     \/ method = "setup" /\ (r.ok => made = 1 /\ ports = {1} /\ setupStep = 1 /\ Len(infos) = 1)
     \/ method = "play" /\ (r.ok => playing /\ made = 1 /\ ports = {1} /\ 1 \in connected)

Requesting ==
  /\ toClient = <<>> /\ toServer # <<>>
  /\ \E q \in {toServer[Len(toServer)]} : SinkAsked(q) /\ toServer \in {<<Reply, q>>, <<q>>}

Answered ==
  /\ toServer = <<>> /\ toClient # <<>>
  /\ \E r \in {toClient[1]} : SinkTold(r) /\ toClient = <<r>>

(* The open is answered, or an exception ended it.                          *)
Over ==
  toServer = <<>> /\ toClient = <<>> /\ (~pending \/ escaped)

Place == Between \/ Asking \/ Requesting \/ Answered \/ Over

(* It was answered by the report of an error, and the other of reader and   *)
(* writer may still report its own.                                         *)
Reported ==
  conn = "broken" /\ ~pending /\ answers = <<"error">> /\ reporters # Reporters

Awaited ==
  /\ thrown \in BOOLEAN /\ pending \in BOOLEAN /\ reporters \subseteq Reporters
  /\ thrown => ~pending /\ answers = <<"error">> /\ reporters = {"reader"}
  /\ pending => answers = <<>>
  /\ answers \in {<<>>, <<"error">>, <<"ok">>}
  /\ answers = <<"ok">> => playing /\ made = 1 /\ ports = {1} /\ 1 \in connected
  /\ conn \in {"idle", "connecting"} => Between /\ requests = 0 /\ toServer = <<>> /\ answers = <<>>
  /\ conn = "connecting" => pending
  /\ conn \notin {"idle", "connecting"} => conn \in {"up", "broken"} /\ (pending \/ Over \/ Reported)

WInv == late \in BOOLEAN /\ (late \/ (Place /\ Awaited))
----------------------------------------------------------------------------
(* Queues of one and two messages. *)
LEMMA ShortQueues ==
  /\ Len(<<>>) = 0
  /\ \A x : /\ Append(<<>>, x) = <<x>> /\ Tail(<<x>>) = <<>> /\ Head(<<x>>) = x
            /\ <<x>> # <<>> /\ Len(<<x>>) = 1 /\ <<x>>[1] = x /\ <<>> \o <<x>> = <<x>>
  /\ \A x, y : /\ Tail(<<x, y>>) = <<y>> /\ Head(<<x, y>>) = x /\ <<x, y>> # <<>>
               /\ Len(<<x, y>>) = 2 /\ <<x, y>>[2] = y /\ <<x>> \o <<y>> = <<x, y>>
  /\ \A x : <<x>> \o <<>> = <<x>>
<1>1. \A x : /\ Append(<<>>, x) = <<x>> /\ Tail(<<x>>) = <<>> /\ Head(<<x>>) = x
             /\ <<x>> # <<>> /\ Len(<<x>>) = 1 /\ <<x>>[1] = x
  OBVIOUS
<1>2. \A x : <<>> \o <<x>> = <<x>> /\ <<x>> \o <<>> = <<x>>
  OBVIOUS
<1>3. \A x, y : Tail(<<x, y>>) = <<y>> /\ Head(<<x, y>>) = x /\ <<x, y>> # <<>>
                /\ Len(<<x, y>>) = 2 /\ <<x, y>>[2] = y
  OBVIOUS
<1>4. \A x, y : <<x>> \o <<y>> = <<x, y>>
  <2> SUFFICES ASSUME NEW S, NEW x \in S, NEW y \in S PROVE <<x>> \o <<y>> = <<x, y>>
    <3> TAKE x, y
    <3>1. x \in {x, y} /\ y \in {x, y}
      OBVIOUS
    <3> QED
      BY <3>1
  <2>0. <<x>> \in Seq(S) /\ <<y>> \in Seq(S) /\ <<x, y>> \in Seq(S)
    OBVIOUS
  <2>1. PICK s \in Seq(S), t \in Seq(S), u \in Seq(S) : s = <<x>> /\ t = <<y>> /\ u = <<x, y>>
    BY <2>0, Zenon
  <2>2. Len(s) = 1 /\ Len(t) = 1 /\ Len(u) = 2 /\ s[1] = x /\ t[1] = y /\ u[1] = x /\ u[2] = y
    BY <2>1
  <2>v. PICK v : v = s \o t
    OBVIOUS
  <2>3. /\ v \in Seq(S) /\ Len(v) = Len(s) + Len(t)
        /\ \A i \in 1 .. Len(s) + Len(t) : v[i] = IF i <= Len(s) THEN s[i] ELSE t[i - Len(s)]
    BY <2>v, ConcatProperties, Zenon
  <2>4. v[1] = x /\ v[2] = y /\ Len(v) = 2
    BY <2>2, <2>3
  <2>5. \A i \in 1 .. 2 : v[i] = u[i]
    <3>1. \A i \in 1 .. 2 : i = 1 \/ i = 2
      OBVIOUS
    <3> QED
      BY <2>2, <2>4, <3>1
  <2>6. v = u
    BY <2>2, <2>3, <2>4, <2>5, SeqEqual
  <2> QED
    BY <2>v, <2>1, <2>6
<1> QED
  BY <1>1, <1>2, <1>3, <1>4

LEMMA MessageFields ==
  /\ Reply.kind = "response"
  /\ \A w : Ask(w).kind = "request" /\ Ask(w).what = w
  /\ \A m, i, s, r : /\ Request(m, i, s, r).kind = "request" /\ Request(m, i, s, r).method = m
                     /\ Request(m, i, s, r).transport = r
  /\ \A m, ok, n, s, f : /\ Response(m, ok, n, s, f).kind = "response" /\ Response(m, ok, n, s, f).to = m
                         /\ Response(m, ok, n, s, f).ok = ok
  BY DEF Reply, Ask, Request, Response

LEMMA Turns ==
  /\ Asks(0) = "options" /\ Asks(1) = "get_parameter" /\ Asks(2) = "set_parameter" /\ Asks(3) = "trigger"
  BY DEF Asks

(* The two places with a message of the dialogue, by the message.           *)
LEMMA RequestingIs ==
  Requesting <=> toClient = <<>> /\ \E q : SinkAsked(q) /\ toServer \in {<<Reply, q>>, <<q>>}
<1>1. ASSUME NEW q, toServer \in {<<Reply, q>>, <<q>>} PROVE toServer # <<>> /\ toServer[Len(toServer)] = q
  BY <1>1, ShortQueues
<1> QED
  BY <1>1 DEF Requesting

LEMMA AnsweredIs ==
  Answered <=> toServer = <<>> /\ \E r : SinkTold(r) /\ toClient = <<r>>
<1>1. ASSUME NEW r, toClient = <<r>> PROVE toClient # <<>> /\ toClient[1] = r
  BY <1>1, ShortQueues
<1> QED
  BY <1>1 DEF Answered

LEMMA ToRequesting ==
  ASSUME NEW q, SinkAsked(q)', toServer' = <<Reply, q>> \/ toServer' = <<q>>, toClient' = <<>>
  PROVE  Requesting'
<1>1. toServer' # <<>> /\ toServer'[Len(toServer')] = q
  BY ShortQueues
<1> QED
  BY <1>1 DEF Requesting

LEMMA ToAnswered ==
  ASSUME NEW r, SinkTold(r)', toClient' = <<r>>, toServer' = <<>>
  PROVE  Answered'
<1>1. toClient' # <<>> /\ toClient'[1] = r
  BY ShortQueues
<1> QED
  BY <1>1 DEF Answered

(* What the message that is read says of the place.                         *)
LEMMA AtClient ==
  ASSUME Place, toClient # <<>>
  PROVE  /\ toServer = <<>> /\ toClient = <<Head(toClient)>> /\ Tail(toClient) = <<>>
         /\ Head(toClient).kind = "request" => Asking
         /\ Head(toClient).kind = "response" => SinkTold(Head(toClient))
<1>1. CASE Asking
  BY <1>1, ShortQueues, MessageFields DEF Asking
<1>2. CASE Answered
  <2>1. PICK r : SinkTold(r) /\ toClient = <<r>>
    BY <1>2, AnsweredIs
  <2>2. Head(toClient) = r /\ Tail(toClient) = <<>> /\ r.kind = "response"
    BY <2>1, ShortQueues DEF SinkTold
  <2> QED
    BY <1>2, <2>1, <2>2, AnsweredIs
<1>3. ~Between /\ ~Requesting /\ ~Over
  BY RequestingIs DEF Between, Over
<1> QED
  BY <1>1, <1>2, <1>3 DEF Place

LEMMA AtServer ==
  ASSUME Place, toServer # <<>>
  PROVE  /\ toClient = <<>>
         /\ Head(toServer).kind = "request" => SinkAsked(Head(toServer)) /\ Tail(toServer) = <<>>
         /\ Head(toServer).kind = "response" =>
              \/ Between /\ Tail(toServer) = <<>>
              \/ \E q : SinkAsked(q) /\ Tail(toServer) = <<q>>
<1>1. CASE Between
  BY <1>1, ShortQueues, MessageFields DEF Between
<1>2. CASE Requesting
  <2>1. PICK q : SinkAsked(q) /\ toServer \in {<<Reply, q>>, <<q>>}
    BY <1>2, RequestingIs
  <2>2. CASE toServer = <<Reply, q>>
    <3>1. Head(toServer) = Reply /\ Tail(toServer) = <<q>>
      BY <2>2, ShortQueues
    <3> QED
      BY <1>2, <2>1, <3>1, MessageFields, RequestingIs
  <2>3. CASE toServer = <<q>>
    <3>1. Head(toServer) = q /\ Tail(toServer) = <<>> /\ q.kind = "request"
      BY <2>1, <2>3, ShortQueues DEF SinkAsked
    <3> QED
      BY <1>2, <2>1, <3>1, RequestingIs
  <2> QED
    BY <2>1, <2>2, <2>3
<1>3. ~Asking /\ ~Answered /\ ~Over
  BY AnsweredIs DEF Asking, Over
<1> QED
  BY <1>1, <1>2, <1>3 DEF Place
----------------------------------------------------------------------------
(* The connection: it is made, lost and closed beside the dialogue.         *)
LEMMA WfdOpenStep ==
  ASSUME Place, Awaited, AsyncOpen \/ ConnectFails \/ WfdConnect, UNCHANGED <<serverVars, escaped>>
  PROVE  (Place /\ Awaited)'
<1> USE DEF headVars, mediaVars, answerVars, connVars, serverVars
<1>1. Between /\ requests = 0 /\ toServer = <<>> /\ answers = <<>> /\ thrown = FALSE /\ conn \in {"idle", "connecting"}
  BY ShortQueues DEF Awaited, AsyncOpen, ConnectFails, WfdConnect
<1>2. UNCHANGED <<method, infos, setupStep, transport, made, connected, toServer, toClient,
                  requests, ports, playing>>
  BY DEF AsyncOpen, ConnectFails, WfdConnect
<1>3. Between'
  BY <1>1, <1>2 DEF Between, Sockets
<1>4. CASE AsyncOpen
  BY <1>1, <1>2, <1>3, <1>4 DEF AsyncOpen, Awaited, Place
<1>5. CASE ConnectFails
  <2>1. /\ pending /\ conn' = "broken" /\ pending' = FALSE /\ answers' = <<"error">> /\ thrown' = FALSE
        /\ reporters' = {}
    BY <1>1, <1>5, ShortQueues DEF ConnectFails, Answer, Awaited
  <2> QED
    BY <1>3, <2>1 DEF Awaited, Reported, Reporters, Place
<1>6. CASE WfdConnect
  <2>1. pending /\ UNCHANGED <<pending, answers, thrown, reporters>> /\ conn' \in {"broken", "up"}
    BY <1>6 DEF WfdConnect, Awaited
  <2> QED
    BY <1>1, <1>3, <2>1 DEF Awaited, Place
<1> QED
  BY <1>4, <1>5, <1>6

LEMMA PlaceStays ==
  ASSUME Place, UNCHANGED <<method, infos, setupStep, transport, made, connected, toServer, toClient,
                            requests, ports, playing, escaped>>,
         pending' => pending
  PROVE  Place' /\ (Between => Between') /\ (Over => Over')
<1>1. (Between => Between') /\ (Asking => Asking') /\ (Over => Over')
  BY DEF Between, Asking, Over, Sockets
<1>2. Requesting => Requesting'
  BY DEF Requesting, SinkAsked, Sockets
<1>3. Answered => Answered'
  BY DEF Answered, SinkTold, Sockets
<1> QED
  BY <1>1, <1>2, <1>3 DEF Place

LEMMA WfdBreakStep ==
  ASSUME Place, Awaited, Close \/ ConnectionLost \/ OnError, UNCHANGED <<serverVars, escaped>>
  PROVE  (Place /\ Awaited)'
<1> USE DEF headVars, mediaVars, answerVars, connVars, serverVars
<1>1. UNCHANGED <<method, infos, setupStep, transport, made, connected, toServer, toClient,
                  requests, ports, playing, escaped>>
  BY DEF Close, ConnectionLost, OnError
<1>2. CASE Close \/ ConnectionLost
  <2>1. UNCHANGED <<pending, answers, thrown, reporters>>
    BY <1>2 DEF Close, ConnectionLost
  <2>2. conn' = conn \/ (conn = "up" /\ conn' = "broken")
    BY <1>2 DEF Close, ConnectionLost
  <2>3. Place' /\ (Between => Between') /\ (Over => Over')
    BY <1>1, <2>1, PlaceStays
  <2>4. Reported => Reported'
    BY <2>1, <2>2 DEF Reported
  <2> QED
    BY <1>1, <2>1, <2>2, <2>3, <2>4 DEF Awaited
<1>3. CASE OnError
  <2>1. /\ conn = "broken" /\ conn' = "broken" /\ thrown = FALSE
        /\ reporters' \subseteq Reporters /\ reporters' # Reporters
    BY <1>3 DEF OnError, Awaited
  <2>2. CASE pending
    <3>1. pending' = FALSE /\ answers' = <<"error">> /\ thrown' = FALSE
      BY <1>3, <2>2, ShortQueues DEF OnError, Answer, Awaited
    <3>2. Place'
      BY <1>1, <3>1, PlaceStays
    <3> QED
      BY <1>1, <2>1, <3>1, <3>2 DEF Awaited, Reported
  <2>3. CASE ~pending
    <3>1. UNCHANGED <<pending, answers, thrown>>
      BY <1>3, <2>3 DEF OnError
    <3>2. Place' /\ (Over => Over')
      BY <1>1, <3>1, PlaceStays
    <3>3. Reported => Reported'
      BY <2>1, <3>1 DEF Reported
    <3> QED
      BY <1>1, <2>1, <2>3, <3>1, <3>2, <3>3 DEF Awaited
  <2> QED
    BY <2>2, <2>3
<1> QED
  BY <1>2, <1>3

----------------------------------------------------------------------------
(* A request of the server is read: the sink answers, and asks.             *)
LEMMA WfdRequestStep ==
  ASSUME Place, Awaited, WfdRecvRequest, UNCHANGED serverVars
  PROVE  (Place /\ Awaited)'
<1> USE DEF headVars, mediaVars, answerVars, connVars, serverVars
<1>1. PICK w : Reads(w)
  BY DEF WfdRecvRequest, RecvServerOptions, RecvGetParameter, RecvTrigger, RecvSetParameter
<1>2. /\ toClient # <<>> /\ thrown = FALSE /\ Asking /\ toServer = <<>> /\ toClient' = <<>>
      /\ UNCHANGED <<pending, answers, thrown, conn, reporters, requests, ports, playing, connected, session>>
  BY <1>1, AtClient DEF Reads, Readable, Awaited
<1>3. conn \in {"up", "broken"} /\ (pending \/ Reported)
  <2>1. ~Over /\ ~Between
    BY <1>2 DEF Over, Between
  <2> QED
    BY <2>1 DEF Awaited
<1>4. Head(toClient) = Ask(Asks(requests - 1)) /\ requests \in {1, 2, 3, 4} /\ method = "invalid" /\ Sockets(requests - 1)
  BY <1>2, ShortQueues DEF Asking
<1>5. ASSUME NEW v, Reads(v) PROVE Asks(requests - 1) = v
  BY <1>4, <1>5, MessageFields DEF Reads
<1>6. \/ requests = 1 /\ Asks(requests - 1) = "options"
      \/ requests = 2 /\ Asks(requests - 1) = "get_parameter"
      \/ requests = 3 /\ Asks(requests - 1) = "set_parameter"
      \/ requests = 4 /\ Asks(requests - 1) = "trigger"
  BY <1>4, Turns
<1>7. Place' => Awaited'
  <2>1. Reported => Reported'
    BY <1>2 DEF Reported
  <2>2. answers \in {<<>>, <<"error">>} /\ (pending => answers = <<>>)
    BY <1>3 DEF Awaited, Reported
  <2>3. <<"ok">> # <<"error">> /\ <<"ok">> # <<>>
    BY ShortQueues
  <2> QED
    BY <1>2, <1>3, <2>1, <2>2, <2>3 DEF Awaited
<1>8. ASSUME NEW m, NEW r, PostBoth(m, r)
      PROVE  /\ m = "invalid" => toServer' = <<Reply>>
             /\ m # "invalid" => toServer' = <<Reply, Request(m, IF m = "setup" THEN 1 ELSE 0, session, r)>>
  BY <1>2, <1>8, ShortQueues DEF PostBoth
<1>9. CASE RecvServerOptions
  <2>1. /\ Reads("options") /\ method' = "options" /\ PostBoth("options", transport)
        /\ UNCHANGED <<setupStep, infos, transport, made>>
    BY <1>9 DEF RecvServerOptions
  <2>2. requests = 1 /\ Sockets(0)
    BY <1>4, <1>5, <1>6, <2>1
  <2>3. PICK q : q = Request("options", 0, session, transport)
    OBVIOUS
  <2>4. toServer' = <<Reply, q>> /\ q.kind = "request" /\ q.method = "options"
    BY <1>8, <2>1, <2>3, MessageFields
  <2>5. SinkAsked(q)'
    BY <1>2, <2>1, <2>2, <2>4 DEF SinkAsked, Sockets
  <2>7. Requesting'
    BY <1>2, <2>4, <2>5, ToRequesting
  <2> QED
    BY <1>7, <2>7 DEF Place
<1>10. CASE RecvGetParameter
  <2>1. /\ Reads("get_parameter") /\ UNCHANGED <<method, setupStep, infos>>
        /\ \/ made' = made + 1 /\ transport' = made + 1 /\ PostBoth(method, made + 1)
           \/ escaped' = TRUE /\ made' = made /\ toServer' = toServer
    BY <1>10 DEF RecvGetParameter
  <2>2. requests = 2 /\ Sockets(1)
    BY <1>4, <1>5, <1>6, <2>1
  <2>3. CASE escaped' = TRUE /\ toServer' = toServer
    BY <1>2, <1>7, <2>3 DEF Over, Place
  <2>4. CASE made' = made + 1 /\ transport' = made + 1 /\ PostBoth(method, made + 1)
    <3>1. toServer' = <<Reply>>
      BY <1>4, <1>8, <2>4
    <3>2. Sockets(requests)'
      BY <1>2, <2>1, <2>2, <2>4 DEF Sockets
    <3> QED
      BY <1>2, <1>4, <1>7, <2>1, <2>2, <3>1, <3>2 DEF Between, Place
  <2> QED
    BY <2>1, <2>3, <2>4
<1>11. CASE RecvSetParameter
  <2>1. /\ Reads("set_parameter") /\ PostBoth(method, transport)
        /\ UNCHANGED <<method, setupStep, infos, transport, made>>
    BY <1>11 DEF RecvSetParameter
  <2>2. requests = 3 /\ Sockets(2)
    BY <1>4, <1>5, <1>6, <2>1
  <2>3. toServer' = <<Reply>>
    BY <1>4, <1>8, <2>1
  <2>4. Sockets(requests)'
    BY <1>2, <2>1, <2>2 DEF Sockets
  <2> QED
    BY <1>2, <1>4, <1>7, <2>1, <2>2, <2>3, <2>4 DEF Between, Place
<1>12. CASE RecvTrigger
  <2>1. /\ Reads("trigger") /\ method' = "setup" /\ setupStep' = setupStep + 1
        /\ infos' = <<IF infos = <<>> THEN 0 ELSE infos[1]>>
        /\ PostBoth("setup", transport) /\ UNCHANGED <<transport, made>>
    BY <1>12 DEF RecvTrigger
  <2>2. requests = 4 /\ Sockets(3)
    BY <1>4, <1>5, <1>6, <2>1
  <2>3. PICK q : q = Request("setup", 1, session, transport)
    OBVIOUS
  <2>4. toServer' = <<Reply, q>> /\ q.kind = "request" /\ q.method = "setup" /\ q.transport = transport
    BY <1>8, <2>1, <2>3, MessageFields
  <2>5. Len(infos') = 1
    BY <2>1, ShortQueues
  <2>6. made = 1 /\ transport = 1 /\ ports = {} /\ setupStep = 0
    BY <2>2 DEF Sockets
  <2>7. SinkAsked(q)'
    BY <1>2, <2>1, <2>4, <2>5, <2>6 DEF SinkAsked
  <2>9. Requesting'
    BY <1>2, <2>4, <2>7, ToRequesting
  <2> QED
    BY <1>7, <2>9 DEF Place
<1> QED
  BY <1>9, <1>10, <1>11, <1>12 DEF WfdRecvRequest
(* An answer of the server is read, for the method request_ has.            *)
LEMMA WfdResponseStep ==
  ASSUME Place, Awaited, WfdRecvResponse, UNCHANGED serverVars
  PROVE  (Place /\ Awaited)'
<1> USE DEF headVars, mediaVars, answerVars, connVars, serverVars
<1> DEFINE r == Head(toClient)
<1>2. /\ Receives(r) /\ UNCHANGED escaped
      /\ \/ RecvNoted(r) \/ RecvRefusal(r)
         \/ RecvSetup(r) \/ RecvPlay(r)
  <2>1. \/ RecvNoted(r) \/ RecvRefusal(r)
        \/ RecvSetup(r) \/ RecvPlay(r)
    BY DEF WfdRecvResponse
  <2>2. RecvNoted(r) \/ RecvRefusal(r) \/ RecvSetup(r) \/ RecvPlay(r) => Receives(r)
    BY DEF RecvNoted, RecvRefusal, RecvSetup, RecvPlay
  <2>3. UNCHANGED escaped
    BY DEF WfdRecvResponse
  <2> QED
    BY <2>1, <2>2, <2>3
<1>3. /\ toClient # <<>> /\ toServer = <<>> /\ toClient' = <<>> /\ SinkTold(r)
      /\ "reader" \in reporters /\ thrown = FALSE
      /\ UNCHANGED <<conn, reporters, requests, ports, playing>>
  BY <1>2, AtClient DEF Receives, Readable, Awaited
<1> HIDE DEF r
<1>c. conn \in {"up", "broken"} /\ (pending \/ Reported)
  <2>1. ~Over /\ ~Between
    BY <1>3 DEF Over, Between
  <2> QED
    BY <2>1 DEF Awaited
<1>4. /\ pending \in BOOLEAN
      /\ (pending /\ answers = <<>>) \/ (Reported /\ reporters = {"reader"})
  <2>1. Reported => reporters = {"reader"}
    BY <1>3 DEF Reported, Reporters, Awaited
  <2> QED
    BY <1>c, <2>1 DEF Awaited
<1>5. ASSUME NEW result, Answer(result)
      PROVE  /\ pending' = FALSE /\ thrown' \in BOOLEAN
             /\ \/ answers' = <<result>> /\ thrown' = FALSE
                \/ answers' = <<"error">> /\ reporters = {"reader"}
  <2>1. CASE pending /\ answers = <<>>
    <3>1. pending = TRUE
      BY <1>4, <2>1
    <3> QED
      BY <1>3, <1>5, <2>1, <3>1, ShortQueues DEF Answer
  <2>2. CASE Reported /\ reporters = {"reader"}
    <3>1. pending = FALSE /\ answers = <<"error">>
      BY <1>4, <2>2 DEF Reported
    <3> QED
      BY <1>3, <1>5, <2>2, <3>1 DEF Answer
  <2> QED
    BY <1>4, <2>1, <2>2
<1>6. ASSUME Answer("error"), toServer' = toServer PROVE (Place /\ Awaited)'
  <2>1. /\ pending' = FALSE /\ answers' = <<"error">>
        /\ thrown' \in BOOLEAN /\ (thrown' => reporters' = {"reader"}) /\ reporters' \subseteq Reporters
    BY <1>3, <1>5, <1>6 DEF Awaited
  <2>2. Over'
    BY <1>3, <1>6, <2>1 DEF Over
  <2>3. conn' \in {"up", "broken"}
    BY <1>3, <1>c
  <2> HIDE DEF headVars, mediaVars, answerVars, connVars, serverVars
  <2> QED
    BY <2>1, <2>2, <2>3, ShortQueues DEF Place, Awaited
<1>7. ASSUME UNCHANGED answerVars, Place' PROVE Awaited'
  <2>1. Reported => Reported'
    BY <1>3, <1>7 DEF Reported
  <2>2. answers \in {<<>>, <<"error">>} /\ (pending => answers = <<>>)
    BY <1>4 DEF Awaited, Reported
  <2>3. <<"ok">> # <<"error">> /\ <<"ok">> # <<>>
    BY ShortQueues
  <2> QED
    BY <1>3, <1>c, <1>7, <2>1, <2>2, <2>3 DEF Awaited
<1>8. CASE RecvNoted(r)
  <2>1. /\ method \in {"options", "invalid"} /\ method' = "invalid" /\ toServer' = toServer
        /\ UNCHANGED <<setupStep, infos, transport, made>>
        /\ Answer("error") \/ UNCHANGED answerVars
    BY <1>8 DEF RecvNoted
  <2>2. method = "options" /\ requests = 1 /\ Sockets(1)
    BY <1>3, <2>1 DEF SinkTold
  <2>3. Sockets(requests)'
    BY <1>3, <2>1, <2>2 DEF Sockets
  <2>4. Between'
    BY <1>3, <2>1, <2>2, <2>3 DEF Between
  <2> QED
    BY <1>6, <1>7, <2>1, <2>4 DEF Place
<1>9. CASE RecvRefusal(r)
  BY <1>6, <1>9 DEF RecvRefusal
<1>10. CASE RecvSetup(r)
  <2>1. PICK ok \in BOOLEAN :
          /\ r.ok /\ method = "setup" /\ session' = r.session
          /\ connected' = (IF ok THEN connected \union {made} ELSE connected)
          /\ NextSetup(Len(infos), ~ok, r.session)
    BY <1>10 DEF RecvSetup
  <2>2. made = 1 /\ ports = {1} /\ setupStep = 1 /\ Len(infos) = 1
    BY <1>3, <2>1 DEF SinkTold
  <2>3. SendPlayAs("play", ~ok, r.session)
    BY <2>1, <2>2 DEF NextSetup, SendPlay
  <2>4. CASE ok = FALSE
    BY <1>6, <2>3, <2>4 DEF SendPlayAs
  <2>5. CASE ok = TRUE
    <3>1. PICK q : q = Request("play", 0, r.session, 0)
      OBVIOUS
    <3>2. /\ method' = "play" /\ made' = made /\ toServer' = <<q>> /\ UNCHANGED answerVars
          /\ 1 \in connected' /\ q.kind = "request" /\ q.method = "play"
      BY <1>3, <2>1, <2>2, <2>3, <2>5, <3>1, ShortQueues, MessageFields DEF SendPlayAs, Post
    <3>3. SinkAsked(q)'
      BY <1>3, <2>2, <3>2 DEF SinkAsked
    <3>4. Requesting'
      BY <1>3, <3>2, <3>3, ToRequesting
    <3> QED
      BY <1>7, <3>2, <3>4 DEF Place
  <2> QED
    BY <2>4, <2>5
<1>11. CASE RecvPlay(r)
  <2>1. r.ok /\ method = "play" /\ Answer("ok") /\ toServer' = toServer /\ UNCHANGED <<made, connected>>
    BY <1>11 DEF RecvPlay
  <2>2. playing /\ made = 1 /\ ports = {1} /\ 1 \in connected
    BY <1>3, <2>1 DEF SinkTold
  <2>3. /\ pending' = FALSE /\ thrown' \in BOOLEAN /\ reporters' \subseteq Reporters
        /\ \/ answers' = <<"ok">> /\ thrown' = FALSE
           \/ answers' = <<"error">> /\ reporters' = {"reader"}
    BY <1>3, <1>5, <2>1 DEF Awaited
  <2>4. Over'
    BY <1>3, <2>1, <2>3 DEF Over
  <2>5. playing' /\ made' = 1 /\ ports' = {1} /\ 1 \in connected' /\ conn' \in {"up", "broken"}
    BY <1>3, <1>c, <2>1, <2>2
  <2> HIDE DEF headVars, mediaVars, answerVars, connVars, serverVars
  <2> QED
    BY <2>3, <2>4, <2>5 DEF Place, Awaited
<1> QED
  BY <1>2, <1>8, <1>9, <1>10, <1>11

----------------------------------------------------------------------------
(* The server answers the request of the sink that is on its way.           *)
LEMMA WfdAnswerStep ==
  ASSUME Place, Awaited, Refuse \/ ServeOptions \/ ServeSetup \/ ServePlay, UNCHANGED escaped
  PROVE  (Place /\ Awaited)'
<1> USE DEF headVars, mediaVars, answerVars, connVars, serverVars
<1>1. PICK m : Serves(m)
  BY DEF Refuse, ServeOptions, ServeSetup, ServePlay
<1>2. PICK q : q = Head(toServer)
  OBVIOUS
<1>3. /\ conn = "up" /\ toServer # <<>> /\ q.method = m /\ SinkAsked(q) /\ method = m
      /\ toServer' = <<>> /\ toClient = <<>>
      /\ UNCHANGED <<method, setupStep, infos, transport, made, connected, pending, answers, thrown, conn,
                     reporters>>
  BY <1>1, <1>2, AtServer DEF Serves, SinkAsked
<1>4. pending /\ answers = <<>>
  BY <1>3 DEF Awaited, Over, Reported
<1>5. Place' => Awaited'
  BY <1>3, <1>4 DEF Awaited
<1>6. ASSUME NEW v, Serves(v) PROVE v = m
  BY <1>2, <1>3, <1>6 DEF Serves
<1>7. ASSUME NEW ok \in BOOLEAN, NEW n, NEW s, NEW f, Send(Response(m, ok, n, s, f))
      PROVE  \E r : /\ toClient' = <<r>> /\ r.kind = "response" /\ r.to = m /\ r.ok = ok
  <2>1. PICK r : r = Response(m, ok, n, s, f)
    OBVIOUS
  <2>2. toClient' = <<r>>
    BY <1>3, <1>7, <2>1, ShortQueues DEF Send
  <2> QED
    BY <2>1, <2>2, MessageFields
<1>8. CASE Refuse
  <2>1. /\ Send(Response(m, FALSE, 0, NoSession, <<>>)) /\ UNCHANGED serverVars
    BY <1>6, <1>8 DEF Refuse
  <2>2. PICK r : toClient' = <<r>> /\ r.kind = "response" /\ r.to = m /\ r.ok = FALSE
    BY <1>7, <2>1
  <2>3. SinkTold(r)'
    BY <1>3, <2>1, <2>2 DEF SinkTold, SinkAsked, Sockets
  <2> QED
    BY <1>3, <1>5, <2>2, <2>3, ToAnswered DEF Place
<1>9. CASE ServeOptions
  <2>1. m = "options" /\ Send(Response(m, TRUE, 0, NoSession, <<>>)) /\ UNCHANGED serverVars
    BY <1>6, <1>9 DEF ServeOptions
  <2>2. PICK r : toClient' = <<r>> /\ r.kind = "response" /\ r.to = m /\ r.ok = TRUE
    BY <1>7, <2>1
  <2>3. SinkTold(r)'
    BY <1>3, <2>1, <2>2 DEF SinkTold, SinkAsked, Sockets
  <2> QED
    BY <1>3, <1>5, <2>2, <2>3, ToAnswered DEF Place
<1>10. CASE ServeSetup
  <2>1. /\ m = "setup" /\ ports' = ports \union {q.transport}
        /\ Send(Response(m, TRUE, 0, Session, <<>>)) /\ UNCHANGED <<playing, requests>>
    BY <1>2, <1>6, <1>10 DEF ServeSetup
  <2>2. PICK r : toClient' = <<r>> /\ r.kind = "response" /\ r.to = m /\ r.ok = TRUE
    BY <1>7, <2>1
  <2>3. q.transport = 1 /\ made = 1 /\ ports = {} /\ setupStep = 1 /\ Len(infos) = 1
    BY <1>3, <2>1 DEF SinkAsked
  <2>4. ports' = {1}
    BY <2>1, <2>3
  <2>5. SinkTold(r)'
    BY <1>3, <2>1, <2>2, <2>3, <2>4 DEF SinkTold
  <2> QED
    BY <1>3, <1>5, <2>2, <2>5, ToAnswered DEF Place
<1>11. CASE ServePlay
  <2>1. PICK k : /\ m = "play" /\ playing' = TRUE
                 /\ Send(Response(m, TRUE, 0, NoSession, [i \in 1 .. k |-> i]))
                 /\ UNCHANGED <<ports, requests>>
    BY <1>6, <1>11 DEF ServePlay
  <2>2. PICK r : toClient' = <<r>> /\ r.kind = "response" /\ r.to = m /\ r.ok = TRUE
    BY <1>7, <2>1
  <2>3. SinkTold(r)'
    BY <1>3, <2>1, <2>2 DEF SinkTold, SinkAsked
  <2> QED
    BY <1>3, <1>5, <2>2, <2>3, ToAnswered DEF Place
<1> QED
  BY <1>8, <1>9, <1>10, <1>11

(* The server reads the sink's answer, behind which a request may wait.     *)
LEMMA WfdReplyStep ==
  ASSUME Place, Awaited, ReadReply, UNCHANGED escaped
  PROVE  (Place /\ Awaited)'
<1> USE DEF headVars, mediaVars, answerVars, connVars, serverVars
<1>1. /\ toServer' = Tail(toServer) /\ toServer # <<>> /\ Head(toServer).kind = "response" /\ conn = "up"
      /\ UNCHANGED <<method, setupStep, infos, transport, made, connected, pending, answers, thrown, conn,
                     reporters, toClient, requests, ports, playing>>
  BY DEF ReadReply
<1>2. toClient = <<>> /\ ((Between /\ toServer' = <<>>) \/ \E q : SinkAsked(q) /\ toServer' = <<q>>)
  BY <1>1, AtServer
<1>3. pending
  BY <1>1 DEF Awaited, Over, Reported
<1>4. Place' => Awaited'
  BY <1>1, <1>3 DEF Awaited
<1>5. CASE Between /\ toServer' = <<>>
  <2>1. Between'
    BY <1>1, <1>5 DEF Between, Sockets
  <2> QED
    BY <1>4, <2>1 DEF Place
<1>6. CASE \E q : SinkAsked(q) /\ toServer' = <<q>>
  <2>1. PICK q : SinkAsked(q) /\ toServer' = <<q>>
    BY <1>6
  <2>2. SinkAsked(q)'
    BY <1>1, <2>1 DEF SinkAsked, Sockets
  <2> QED
    BY <1>1, <1>2, <1>4, <2>1, <2>2, ToRequesting DEF Place
<1> QED
  BY <1>2, <1>5, <1>6

(* The server asks: in its turn when nothing is under way.                  *)
LEMMA WfdSendStep ==
  ASSUME Place, Awaited, WfdSend, ~escaped, toServer = <<>>, toClient = <<>>, pending
  PROVE  (Place /\ Awaited)'
<1> USE DEF headVars, mediaVars, answerVars, connVars
<1>1. /\ conn = "up" /\ requests' = requests + 1 /\ Send([kind |-> "request", what |-> Asks(requests)])
      /\ UNCHANGED <<method, setupStep, infos, transport, made, connected, pending, answers, thrown, conn,
                     reporters, toServer, ports, playing, escaped>>
  BY DEF WfdSend
<1>2. Between
  BY RequestingIs, AnsweredIs, ShortQueues DEF Place, Asking, Over
<1>3. requests \in 0 .. 3 /\ requests' \in 1 .. 4 /\ requests' - 1 = requests
  BY <1>1, <1>2 DEF Between
<1>4. toClient' = <<Ask(Asks(requests' - 1))>>
  BY <1>1, <1>3, ShortQueues DEF Send, Ask
<1>5. Sockets(requests - 1)'
  BY <1>1, <1>2, <1>3 DEF Between, Sockets
<1>6. Asking'
  BY <1>1, <1>2, <1>3, <1>4, <1>5 DEF Between, Asking
<1>7. Awaited'
  BY <1>1 DEF Awaited
<1> QED
  BY <1>6, <1>7 DEF Place

----------------------------------------------------------------------------
LEMMA WInvInit == WfdServerInit => WInv
<1> SUFFICES ASSUME WfdServerInit PROVE WInv
  OBVIOUS
<1> USE DEF WfdServerInit, WfdInit, Init
<1>1. Between /\ requests = 0
  BY DEF Between, Sockets
<1>2. Awaited
  BY <1>1 DEF Awaited
<1> QED
  BY <1>1, <1>2 DEF WInv, Place

LEMMA WInvStep == WInv /\ [WfdNext]_wfdAllVars => WInv'
<1> SUFFICES ASSUME WInv, [WfdNext]_wfdAllVars PROVE WInv'
  OBVIOUS
<1>1. CASE UNCHANGED late
  <2>1. CASE late
    BY <1>1, <2>1 DEF WInv
  <2>2. CASE ~late
    <3>0. Place /\ Awaited
      BY <2>2 DEF WInv
    <3> SUFFICES Place' /\ Awaited'
      BY <1>1 DEF WInv
    <3>1. CASE WfdSourceNext /\ UNCHANGED serverVars
      <4>1. CASE (AsyncOpen \/ ConnectFails \/ WfdConnect) /\ UNCHANGED escaped
        BY <3>0, <3>1, <4>1, WfdOpenStep
      <4>2. CASE (Close \/ ConnectionLost \/ OnError) /\ UNCHANGED escaped
        BY <3>0, <3>1, <4>2, WfdBreakStep
      <4>3. CASE WfdRecvRequest
        BY <3>0, <3>1, <4>3, WfdRequestStep
      <4>4. CASE WfdRecvResponse
        BY <3>0, <3>1, <4>4, WfdResponseStep
      <4>5. WfdConnect => UNCHANGED escaped
        BY DEF WfdConnect
      <4> QED
        BY <3>1, <4>1, <4>2, <4>3, <4>4, <4>5 DEF WfdSourceNext
    <3>2. CASE WfdServe
      BY <3>0, <3>2, WfdAnswerStep, WfdReplyStep DEF WfdServe
    <3>3. CASE ~escaped /\ ~thrown /\ WfdSend
      <4>1. ~(late \/ ~pending \/ toServer # <<>> \/ toClient # <<>>)
        <5>1. late' = late /\ late' = (late \/ ~pending \/ toServer # <<>> \/ toClient # <<>>)
          BY <1>1, <3>3 DEF WfdSend
        <5>2. late = FALSE
          BY <2>2 DEF WInv
        <5> QED
          BY <5>1, <5>2, Zenon
      <4> QED
        BY <3>0, <3>3, <4>1, WfdSendStep
    <3>4. CASE UNCHANGED wfdAllVars
      <4>1. UNCHANGED <<method, infos, setupStep, transport, made, connected, toServer, toClient,
                        requests, ports, playing, escaped, pending, answers, thrown, conn, reporters>>
        BY <3>4 DEF wfdAllVars, wfdVars, sourceVars, serverVars
      <4>2. Place' /\ (Between => Between') /\ (Over => Over')
        BY <3>0, <4>1, PlaceStays
      <4> QED
        BY <3>0, <4>1, <4>2 DEF Awaited, Reported
    <3> QED
      BY <3>1, <3>2, <3>3, <3>4 DEF WfdNext
  <2> QED
    BY <2>1, <2>2
<1>2. CASE ~UNCHANGED late
  <2>1. WfdSend
    BY <1>2 DEF WfdNext, WfdServe, wfdAllVars
  <2>2. late' = TRUE
    BY <1>2, <2>1 DEF WfdSend, WInv
  <2> QED
    BY <2>2 DEF WInv
<1> QED
  BY <1>1, <1>2

LEMMA AlwaysWInv == WfdSpec => []WInv
  BY WInvInit, WInvStep, PTL DEF WfdSpec

(* With a server that waits its turn the sink answers its open at most      *)
(* once, though it posts request_ behind the answer to every request        *)
(* (src/RtspSourceWfd.cpp:130), for any number of requests.                 *)
THEOREM AlwaysWfdAnsweredOnce == WfdSpec => []WfdAnsweredOnce
<1>1. WInv => WfdAnsweredOnce
  <2> SUFFICES ASSUME Awaited PROVE AnsweredOnce
    BY DEF WInv, WfdAnsweredOnce
  <2>1. CASE answers = <<>>
    BY <2>1, ShortQueues DEF Awaited, AnsweredOnce
  <2>2. CASE answers # <<>>
    <3>1. ~pending /\ (answers = <<"error">> \/ answers = <<"ok">>)
      BY <2>2 DEF Awaited
    <3>2. Len(answers) = 1
      BY <3>1, ShortQueues
    <3> QED
      BY <3>1, <3>2 DEF Awaited, AnsweredOnce
  <2> QED
    BY <2>1, <2>2
<1> QED
  BY <1>1, AlwaysWInv, PTL

(* Each response is read as the answer to the request it is for.            *)
THEOREM AlwaysWfdInStep == WfdSpec => []WfdInStep
<1>1. WInv => WfdInStep
  <2> SUFFICES ASSUME Place, NEW i \in DOMAIN toClient, toClient[i].kind = "response"
               PROVE  toClient[i].to = method
    BY DEF WInv, WfdInStep
  <2>1. toClient # <<>>
    OBVIOUS
  <2>2. toClient = <<Head(toClient)>>
    BY <2>1, AtClient
  <2>3. i = 1 /\ toClient[i] = Head(toClient)
    BY <2>2
  <2> QED
    BY <2>1, <2>3, AtClient DEF SinkTold
<1> QED
  BY <1>1, AlwaysWInv, PTL

(* An open that succeeds left the server playing to the sockets that        *)
(* GET_PARAMETER made, and those connected (src/RtspSourceWfd.cpp:88-94).   *)
THEOREM AlwaysWfdSuccessMeansPlaying == WfdSpec => []WfdSuccessMeansPlaying
<1>1. WInv => WfdSuccessMeansPlaying
  <2> SUFFICES ASSUME Awaited, NEW i \in DOMAIN answers, answers[i] = "ok"
               PROVE  playing /\ ports = {made} /\ made \in connected
    BY DEF WInv, WfdSuccessMeansPlaying
  <2>1. answers = <<"ok">>
    <3>1. answers \in {<<>>, <<"error">>, <<"ok">>}
      BY DEF Awaited
    <3>2. answers # <<>> /\ answers # <<"error">>
      BY ShortQueues
    <3> QED
      BY <3>1, <3>2
  <2> QED
    BY <2>1 DEF Awaited
<1> QED
  BY <1>1, AlwaysWInv, PTL
=============================================================================
