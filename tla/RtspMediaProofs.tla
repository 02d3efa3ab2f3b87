--------------------------- MODULE RtspMediaProofs ---------------------------
(* Proofs about RtspMedia, for any number of opens. *)
EXTENDS RtspMedia, TLAPS

LEMMA OpensAreNat == Opens \subseteq Nat /\ NoSource \notin Opens /\ (\A n \in Opens : n >= 1)
  BY MediaAssumption DEF Opens, NoSource

(* Every variable keeps its type: in particular source_ is NULL or one of   *)
(* the sources that were made.                                              *)
THEOREM MediaTypeCorrect == Spec => []TypeOK
<1>1. Init => TypeOK
  <2> SUFFICES ASSUME Init PROVE TypeOK
    OBVIOUS
  <2>1. resps \in [Opens -> Seq(Results)]
    <3>1. <<>> \in Seq(Results)
      OBVIOUS
    <3> QED
      BY <3>1 DEF Init
  <2>2. status \in [Opens -> {"new", "opening"} \union Results] /\ granted \in [Opens -> BOOLEAN]
       /\ stopped \in [Opens -> BOOLEAN]
    BY DEF Init
  <2> QED
    BY <2>1, <2>2 DEF Init, TypeOK, NoSource
<1>2. TypeOK /\ [Next]_vars => TypeOK'
  <2> SUFFICES ASSUME TypeOK, [Next]_vars PROVE TypeOK'
    OBVIOUS
  <2> USE DEF TypeOK, Results
  <2>1. ASSUME NEW n \in Opens, AsyncOpen(n) PROVE TypeOK'
    BY <2>1 DEF AsyncOpen, FailLater, Source!Start
  <2>2. ASSUME NEW n \in Opens, RunPosted(n) PROVE TypeOK'
    BY <2>2 DEF RunPosted, Respond
  <2>3. ASSUME NEW n \in Opens, NEW result \in Results, HandleOpen(n, result) PROVE TypeOK'
    <3>1. resps' \in [Opens -> Seq(Results)]
      <4>1. Append(resps[n], result) \in Seq(Results)
        OBVIOUS
      <4> QED
        BY <2>3, <4>1 DEF HandleOpen, Respond
    <3>2. status' \in [Opens -> {"new", "opening"} \union Results]
      BY <2>3 DEF HandleOpen
    <3>3. info' \in Opens \union {NoSource} /\ fault' \in {"none", "cancel", "handle_open"}
      BY <2>3 DEF HandleOpen, TakeInfo
    <3> QED
      BY <2>3, <3>1, <3>2, <3>3 DEF HandleOpen
  <2>w. ASSUME Withdraw PROVE withdrawn' \in BOOLEAN
    BY <2>w DEF Withdraw
  <2>4. CASE Cancel
    BY <2>w, <2>4 DEF Cancel
  <2>5. CASE Close
    BY <2>w, <2>5 DEF Close
  <2>6. CASE UNCHANGED vars
    BY <2>6 DEF vars
  <2>7. ASSUME NEW n \in Opens, Granted(n) PROVE TypeOK'
    BY <2>7 DEF Granted
  <2> QED
    BY <2>1, <2>2, <2>3, <2>4, <2>5, <2>6, <2>7 DEF Next
<1> QED
  BY <1>1, <1>2, PTL DEF Spec

----------------------------------------------------------------------------
(* An open is known to one side only: to the source it made, or to the      *)
(* queue of the io_service.                                                 *)
OneSide ==
  \A n \in Opens :
    /\ n > opens => status[n] = "new" /\ n \notin posted /\ resps[n] = <<>>
    /\ n \in posted \/ status[n] = "opening" => resps[n] = <<>>
    /\ n \in posted => status[n] = "new"
    /\ Len(resps[n]) <= 1

(* source_ is the source of the last open, if opens make sources at all. *)
LastSource ==
  /\ source = IF known THEN opens ELSE NoSource
  /\ ~known => \A n \in Opens : status[n] = "new"

(* The source that was closed in time is stopped, and will not be granted. *)
ClosedInTime == withdrawn /\ source # NoSource => stopped[source] /\ ~granted[source]

MInv == OneSide /\ LastSource /\ ClosedInTime /\ NullOnlyByCancel

LEMMA MInvStep == TypeOK /\ MInv /\ [Next]_vars => MInv'
<1> SUFFICES ASSUME TypeOK, MInv, [Next]_vars PROVE MInv'
  OBVIOUS
<1> USE OpensAreNat DEF TypeOK, Results, MInv, OneSide, LastSource, ClosedInTime, NullOnlyByCancel
<1>1. ASSUME NEW n \in Opens, AsyncOpen(n) PROVE MInv'
  BY <1>1 DEF AsyncOpen, FailLater, Source!Start
<1>2. ASSUME NEW n \in Opens, RunPosted(n) PROVE MInv'
  BY <1>2 DEF RunPosted, Respond
<1>3. ASSUME NEW n \in Opens, NEW result \in Results, HandleOpen(n, result) PROVE MInv'
  BY <1>3 DEF HandleOpen, Respond, TakeInfo, Source!Answered
<1>4. CASE Cancel
  BY <1>4 DEF Cancel, Withdraw
<1>5. CASE Close
  BY <1>5 DEF Close, Withdraw
<1>6. CASE UNCHANGED vars
  BY <1>6 DEF vars
<1>7. ASSUME NEW n \in Opens, Granted(n) PROVE MInv'
  BY <1>7 DEF Granted, Source!Grant
<1> QED
  BY <1>1, <1>2, <1>3, <1>4, <1>5, <1>6, <1>7 DEF Next

LEMMA AlwaysMInv == Spec => [](TypeOK /\ MInv)
<1>1. Init => MInv
  <2> SUFFICES ASSUME Init PROVE MInv
    OBVIOUS
  <2>1. OneSide
    BY DEF Init, OneSide
  <2>2. LastSource
    BY DEF Init, LastSource, NoSource
  <2> QED
    BY <2>1, <2>2 DEF Init, MInv, ClosedInTime, NullOnlyByCancel
<1> QED
  BY <1>1, MInvStep, MediaTypeCorrect, PTL DEF Spec

(* Only a cancel meets a source_ that is NULL. *)
THEOREM AlwaysNullOnlyByCancel == Spec => []NullOnlyByCancel
  BY AlwaysMInv, PTL DEF MInv

LEMMA FirstOne ==
  ASSUME NEW x \in Results PROVE Append(<<>>, x) = <<x>>
  OBVIOUS

(* What answers an open, and with what. *)
LEMMA RespondStep ==
  ASSUME TypeOK, MInv, [Next]_vars, NEW n \in Opens, Responds(n)
  PROVE  \/ resps'[n] = <<"error">>
         \/ resps'[n] = <<"ok">> /\ granted[n] /\ info' = source /\ source # NoSource /\ status[n] = "opening"
<1> USE DEF TypeOK, Results, Responds
<1>1. CASE \E m \in Opens : AsyncOpen(m)
  BY <1>1 DEF AsyncOpen
<1>2. ASSUME NEW m \in Opens, RunPosted(m) PROVE resps'[n] = <<"error">>
  <2>1. m = n /\ resps'[n] = Append(resps[n], "error")
    BY <1>2 DEF RunPosted, Respond
  <2>2. resps[n] = <<>>
    BY <1>2, <2>1 DEF RunPosted, MInv, OneSide
  <2> QED
    BY <2>1, <2>2, FirstOne
<1>3. ASSUME NEW m \in Opens, NEW result \in Results, HandleOpen(m, result)
      PROVE  /\ m = n /\ status[n] = "opening" /\ resps'[n] = <<result>>
             /\ (result = "ok" => granted[n]) /\ info' = source /\ source # NoSource
  <2>1. /\ m = n /\ resps'[n] = Append(resps[n], result) /\ status[n] = "opening"
        /\ (result = "ok" => granted[n]) /\ info' = source /\ source # NoSource
    BY <1>3 DEF HandleOpen, Respond, TakeInfo, Source!Answered
  <2>2. resps[n] = <<>>
    BY <2>1 DEF MInv, OneSide
  <2> QED
    BY <2>1, <2>2, FirstOne
<1>4. CASE Cancel \/ Close \/ \E m \in Opens : Granted(m)
  BY <1>4 DEF Cancel, Close, Granted
<1>5. CASE UNCHANGED vars
  BY <1>5 DEF vars
<1> QED
  BY <1>1, <1>2, <1>3, <1>4, <1>5 DEF Next

(* An open that a later one did not orphan cannot succeed after a close     *)
(* that came before the server granted it, for any number of opens.         *)
THEOREM AlwaysNoSuccessAfterClose == Spec => NoSuccessAfterClose
<1> DEFINE A == \A n \in Opens : Responds(n) /\ withdrawn => n < opens \/ resps'[n] = <<"error">>
<1>1. TypeOK /\ MInv /\ [Next]_vars => A
  <2> SUFFICES ASSUME TypeOK, MInv, [Next]_vars, NEW n \in Opens, Responds(n), withdrawn, ~(n < opens)
               PROVE  resps'[n] = <<"error">>
    OBVIOUS
  <2>1. CASE ~(resps'[n] = <<"error">>)
    <3>1. granted[n] /\ source # NoSource /\ status[n] = "opening"
      BY <2>1, RespondStep
    <3>2. n = opens /\ source = n
      BY <3>1, OpensAreNat DEF MInv, OneSide, LastSource, TypeOK
    <3> QED
      BY <3>1, <3>2 DEF MInv, ClosedInTime
  <2> QED
    BY <2>1
<1>2. TypeOK /\ MInv /\ [Next]_vars => [A]_vars
  BY <1>1
<1> QED
  BY <1>2, AlwaysMInv, PTL DEF Spec, NoSuccessAfterClose

(* A success finds the info of its own source, unless opens overlapped. *)
THEOREM AlwaysInfoOfItsSource == Spec => InfoOfItsSource
<1> DEFINE A == \A n \in Opens : Responds(n) /\ resps'[n] = <<"ok">> => n < opens \/ info' = n
<1>1. TypeOK /\ MInv /\ [Next]_vars => A
  <2> SUFFICES ASSUME TypeOK, MInv, [Next]_vars, NEW n \in Opens, Responds(n),
                      resps'[n] = <<"ok">>, ~(n < opens)
               PROVE  info' = n
    OBVIOUS
  <2>1. info' = source /\ source # NoSource /\ status[n] = "opening"
    BY RespondStep
  <2>2. n = opens /\ source = opens
    BY <2>1, OpensAreNat DEF MInv, OneSide, LastSource, TypeOK
  <2> QED
    BY <2>1, <2>2
<1>2. TypeOK /\ MInv /\ [Next]_vars => [A]_vars
  BY <1>1
<1> QED
  BY <1>2, AlwaysMInv, PTL DEF Spec, InfoOfItsSource
=============================================================================
