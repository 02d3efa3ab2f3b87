-------------------------- MODULE RtpDemuxerProofs --------------------------
(***************************************************************************)
(* Proofs about RtpDemuxer: to the filter the demuxers are a user like any *)
(* other, so that what RtpFilterProofs shows holds under them; and the     *)
(* pointer the filter keeps survives a check_open that is tried again.     *)
(***************************************************************************)
EXTENDS RtpDemuxer, RtpFilterProofs

(* The steps of a demuxer, seen from the filter. *)
LEMMA FilterStep == DemuxNext => [Next]_vars
<1> SUFFICES ASSUME DemuxNext PROVE [Next]_vars
  OBVIOUS
<1>1. CASE CheckOpenTs \/ CheckOpenRaw \/ StartRead
  BY <1>1 DEF CheckOpenTs, CheckOpenRaw, CheckOpen, StartRead
<1>2. CASE LoopOn \/ Deliver \/ PushFails
  BY <1>2 DEF LoopOn, Deliver, PushFails, TakePacket, Fetch, Next
<1>3. CASE WouldBlock \/ Seek
  BY <1>3 DEF WouldBlock, Seek, Next
<1> QED
  BY <1>1, <1>2, <1>3 DEF DemuxNext

(* Whatever the demuxers do, the filter under them behaves as RtpFilter     *)
(* says: check_open, however often it is tried, disturbs no session.        *)
THEOREM DemuxerUsesFilter == DemuxSpec => Spec
<1>1. DemuxInit => Init
  BY DEF DemuxInit
<1>2. [DemuxNext]_allVars => [Next]_vars
  BY FilterStep DEF allVars, vars
<1> QED
  BY <1>1, <1>2, PTL DEF DemuxSpec, Spec

(* So no session that a demuxer reads from loses alignment or order. *)
THEOREM DemuxerDrainFirst == DemuxSpec => [](Aligned /\ OneLap /\ DrainFirst)
  BY DemuxerUsesFilter, AlwaysAligned, AlwaysOneLap, AlwaysDrainFirst, PTL

----------------------------------------------------------------------------
(* Nothing is ready while a demuxer waits to be opened again. *)
RetryIdle == state = "closed" /\ call = "none" => ready = NoTrack

RInv == ReadyInPlace /\ RetryIdle

LEMMA RInvStep == RInv /\ [DemuxNext]_allVars => RInv'
<1> SUFFICES ASSUME RInv, [DemuxNext]_allVars PROVE RInv'
  OBVIOUS
<1> USE DEF RInv, ReadyInPlace, RetryIdle
<1>1. CASE CheckOpenTs
  BY <1>1 DEF CheckOpenTs, CheckOpen, vars
<1>2. CASE CheckOpenRaw
  BY <1>2 DEF CheckOpenRaw, CheckOpen, vars
<1>3. CASE StartRead
  BY <1>3 DEF StartRead, vars
<1>4. ASSUME TakePacket PROVE ReadyInPlace' /\ call # "none"
  BY <1>4 DEF TakePacket, PointTo, PopReady
<1>5. CASE LoopOn
  BY <1>4, <1>5 DEF LoopOn
<1>6. CASE Deliver
  BY <1>4, <1>6 DEF Deliver
<1>7. CASE PushFails
  BY <1>4, <1>7 DEF PushFails
<1>8. CASE WouldBlock
  BY <1>8 DEF WouldBlock, FetchNothing
<1>9. CASE Seek
  BY <1>9 DEF Seek, BeforeSeek
<1>10. CASE UNCHANGED allVars
  BY <1>10 DEF allVars, demuxVars, vars
<1> QED
  BY <1>1, <1>2, <1>3, <1>5, <1>6, <1>7, <1>8, <1>9, <1>10 DEF DemuxNext

(* ready_session_ never points into an array that sessions_ has left. *)
THEOREM AlwaysReadyInPlace == DemuxSpec => []ReadyInPlace
<1>1. DemuxInit => RInv
  BY DEF DemuxInit, Init, RInv, ReadyInPlace, RetryIdle
<1>2. RInv => ReadyInPlace
  BY DEF RInv
<1> QED
  BY <1>1, <1>2, RInvStep, PTL DEF DemuxSpec

----------------------------------------------------------------------------
(* The loop of the raw demuxer over the media. *)
Pushed(f, n, made) ==
  f = [i \in 0 .. n |-> IF i = 0 THEN <<>>
                        ELSE IF i - 1 \in made THEN Append(f[i - 1], i - 1) ELSE f[i - 1]]

LEMMA PushedAt ==
  ASSUME NEW f, NEW n \in Nat, NEW made, Pushed(f, n, made)
  PROVE  /\ f[0] = <<>>
         /\ \A i \in 0 .. n : i # 0 =>
              f[i] = IF i - 1 \in made THEN Append(f[i - 1], i - 1) ELSE f[i - 1]
<1>1. \A i \in 0 .. n : f[i] = IF i = 0 THEN <<>>
                               ELSE IF i - 1 \in made THEN Append(f[i - 1], i - 1) ELSE f[i - 1]
  BY DEF Pushed
<1> QED
  BY <1>1

LEMMA PushedExists ==
  ASSUME NEW n \in Nat, NEW made
  PROVE  \E f : Pushed(f, n, made)
<1> DEFINE T == {m \in Nat : \E f : Pushed(f, m, made)}
<1>1. 0 \in T
  <2>1. PICK f : f = [i \in 0 .. 0 |-> <<>>]
    OBVIOUS
  <2>2. f = [i \in 0 .. 0 |-> IF i = 0 THEN <<>>
                              ELSE IF i - 1 \in made THEN Append(f[i - 1], i - 1) ELSE f[i - 1]]
    BY <2>1
  <2> QED
    BY <2>2 DEF Pushed
<1>2. ASSUME NEW m \in Nat, m \in T PROVE m + 1 \in T
  <2>1. PICK f : Pushed(f, m, made)
    BY <1>2
  <2>2. PICK g : g = [i \in 0 .. m + 1 |->
                        IF i = 0 THEN <<>>
                        ELSE IF i - 1 \in made THEN Append(f[i - 1], i - 1) ELSE f[i - 1]]
    OBVIOUS
  <2>3. \A i \in 0 .. m : g[i] = f[i]
    <3> TAKE i \in 0 .. m
    <3>1. CASE i = 0
      BY <2>1, <2>2, <3>1, PushedAt
    <3>2. CASE i # 0
      <4>1. f[i] = IF i - 1 \in made THEN Append(f[i - 1], i - 1) ELSE f[i - 1]
        BY <2>1, <3>2, PushedAt
      <4>2. g[i] = IF i - 1 \in made THEN Append(f[i - 1], i - 1) ELSE f[i - 1]
        BY <2>2, <3>2
      <4> QED
        BY <4>1, <4>2
    <3> QED
      BY <3>1, <3>2
  <2>4. g = [i \in 0 .. m + 1 |->
               IF i = 0 THEN <<>>
               ELSE IF i - 1 \in made THEN Append(g[i - 1], i - 1) ELSE g[i - 1]]
    <3>1. \A i \in 0 .. m + 1 : i # 0 => i - 1 \in 0 .. m
      OBVIOUS
    <3> QED
      BY <2>2, <2>3, <3>1
  <2> QED
    BY <2>4 DEF Pushed
<1>3. Nat \subseteq T
  BY <1>1, <1>2, SetInduction
<1> QED
  BY <1>3

(* A medium that is made has its stream, at its own index when no medium    *)
(* before it was passed over.                                               *)
Streamed(s, n, made) ==
  /\ s \in Seq(Nat)
  /\ \A t \in made : t < n => \E k \in 1 .. Len(s) : s[k] = t
  /\ \A t \in made : t < n /\ 0 .. t - 1 \subseteq made => t + 1 \in 1 .. Len(s) /\ s[t + 1] = t
  /\ 0 .. n - 1 \subseteq made => Len(s) = n

LEMMA StreamsOfFacts ==
  ASSUME Len(infos) \in Nat, NEW made \in SUBSET Media
  PROVE  Streamed(StreamsOf(made), Len(infos), made)
<1>1. PICK f : f = CHOOSE g : Pushed(g, Len(infos), made)
  OBVIOUS
<1>2. Pushed(f, Len(infos), made)
  BY <1>1, PushedExists
<1>3. StreamsOf(made) = f[Len(infos)]
  BY <1>1 DEF StreamsOf, Pushed
<1>4. made \subseteq Nat
  BY DEF Media
<1> DEFINE T == {m \in Nat : m <= Len(infos) => Streamed(f[m], m, made)}
<1>5. 0 \in T
  <2>1. f[0] = <<>>
    BY <1>2, PushedAt
  <2>2. Streamed(<<>>, 0, made)
    BY <1>4 DEF Streamed
  <2> QED
    BY <2>1, <2>2
<1>6. ASSUME NEW m \in Nat, m \in T PROVE m + 1 \in T
  <2> SUFFICES ASSUME m + 1 <= Len(infos) PROVE Streamed(f[m + 1], m + 1, made)
    OBVIOUS
  <2>1. Streamed(f[m], m, made)
    BY <1>6
  <2>2. f[m + 1] = IF m \in made THEN Append(f[m], m) ELSE f[m]
    <3>1. m + 1 \in 0 .. Len(infos) /\ m + 1 # 0 /\ (m + 1) - 1 = m
      OBVIOUS
    <3>2. f[m + 1] = IF (m + 1) - 1 \in made THEN Append(f[(m + 1) - 1], (m + 1) - 1) ELSE f[(m + 1) - 1]
      BY <1>2, <3>1, PushedAt
    <3> QED
      BY <3>1, <3>2
  <2>3. CASE m \notin made
    <3>1. \A t \in made : t < m + 1 => t < m
      BY <1>4, <2>3
    <3>2. ~(0 .. (m + 1) - 1 \subseteq made)
      BY <2>3
    <3> QED
      BY <2>1, <2>2, <2>3, <3>1, <3>2 DEF Streamed
  <2>4. CASE m \in made
    <3>1. PICK s \in Seq(Nat) : s = f[m]
      BY <2>1 DEF Streamed
    <3>2. PICK r : r = f[m + 1]
      OBVIOUS
    <3>3. /\ r \in Seq(Nat) /\ Len(r) = Len(s) + 1 /\ r[Len(s) + 1] = m
          /\ \A k \in 1 .. Len(s) : r[k] = s[k]
      BY <2>2, <2>4, <3>1, <3>2
    <3>4. ASSUME NEW t \in made, t < m + 1 PROVE \E k \in 1 .. Len(r) : r[k] = t
      <4>1. CASE t = m
        BY <3>3, <4>1
      <4>2. CASE t < m
        <5>1. PICK k \in 1 .. Len(s) : s[k] = t
          BY <2>1, <3>1, <4>2 DEF Streamed
        <5> QED
          BY <3>3, <5>1
      <4> QED
        BY <1>4, <3>4, <4>1, <4>2
    <3>5. ASSUME NEW t \in made, t < m + 1, 0 .. t - 1 \subseteq made
          PROVE  t + 1 \in 1 .. Len(r) /\ r[t + 1] = t
      <4>1. CASE t = m
        <5>1. Len(s) = m
          BY <2>1, <3>1, <3>5, <4>1 DEF Streamed
        <5> QED
          BY <3>3, <4>1, <5>1
      <4>2. CASE t < m
        <5>1. t + 1 \in 1 .. Len(s) /\ s[t + 1] = t
          BY <2>1, <3>1, <3>5, <4>2 DEF Streamed
        <5> QED
          BY <3>3, <5>1
      <4> QED
        BY <1>4, <3>5, <4>1, <4>2
    <3>6. ASSUME 0 .. (m + 1) - 1 \subseteq made PROVE Len(r) = m + 1
      <4>1. 0 .. m - 1 \subseteq made
        BY <3>6
      <4>2. Len(s) = m
        BY <2>1, <3>1, <4>1 DEF Streamed
      <4> QED
        BY <3>3, <4>2
    <3>7. Streamed(r, m + 1, made)
      BY <3>3, <3>4, <3>5, <3>6 DEF Streamed
    <3> QED
      BY <3>2, <3>7
  <2> QED
    BY <2>3, <2>4
<1>7. Nat \subseteq T
  <2> HIDE DEF T
  <2> QED
    BY <1>5, <1>6, SetInduction
<1> QED
  BY <1>3, <1>7

(* The streams of a raw demuxer that is open are those of its parsers.      *)
StInv ==
  /\ infos \in SDPs
  /\ kind = "raw" =>
       /\ returned = NoTrack \/ returned \in parsers
       /\ parsers \subseteq Media
       /\ state = "closed" => parsers = {} /\ streams = <<>>
       /\ Streamed(streams, Len(infos), parsers)

LEMMA StInvStep == StInv /\ [DemuxNext]_allVars => StInv'
<1> SUFFICES ASSUME StInv, [DemuxNext]_allVars PROVE StInv'
  OBVIOUS
<1>0. Len(infos) \in Nat
  BY DemuxerAssumption DEF StInv
<1>1. CASE kind # "raw"
  <2>1. UNCHANGED <<kind, infos>>
    BY DEF DemuxNext, CheckOpenTs, CheckOpenRaw, CheckOpen, StartRead, LoopOn, Deliver, PushFails,
           TakePacket, WouldBlock, Seek, allVars, demuxVars
  <2> QED
    BY <1>1, <2>1 DEF StInv
<1>2. CASE kind = "raw" /\ CheckOpenRaw
  <2>1. PICK made \in SUBSET Media :
          parsers' = made /\ streams' = streams \o StreamsOf(made)
    BY <1>2 DEF CheckOpenRaw, AddRawParsers
  <2>2. streams = <<>> /\ parsers = {} /\ returned = NoTrack
    BY <1>2 DEF CheckOpenRaw, CheckOpen, StInv
  <2>3. Streamed(StreamsOf(made), Len(infos), made)
    BY <1>0, StreamsOfFacts
  <2>4. StreamsOf(made) \in Seq(Nat)
    BY <2>3 DEF Streamed
  <2>5. streams' = StreamsOf(made)
    BY <2>1, <2>2, <2>4, ConcatEmptySeq
  <2>6. UNCHANGED <<kind, infos, returned>> /\ state' = "open"
    BY <1>2 DEF CheckOpenRaw, CheckOpen
  <2>7. Streamed(streams', Len(infos'), parsers')
    BY <2>1, <2>3, <2>5, <2>6
  <2> QED
    BY <1>2, <2>1, <2>2, <2>6, <2>7 DEF StInv, Media, Streamed
<1>3. CASE kind = "raw" /\ ~CheckOpenRaw
  <2>1. UNCHANGED <<kind, infos, parsers, streams>>
    BY <1>3 DEF DemuxNext, CheckOpenTs, CheckOpen, StartRead, LoopOn, Deliver, PushFails,
           TakePacket, WouldBlock, Seek, allVars, demuxVars
  <2>2. state' = "closed" => state = "closed"
    BY <1>3 DEF DemuxNext, CheckOpenTs, CheckOpen, StartRead, LoopOn, Deliver, PushFails,
           TakePacket, WouldBlock, Seek, allVars, demuxVars
  <2>3. returned' \in {returned, NoTrack} \/ returned' \in parsers
    BY <1>3 DEF DemuxNext, CheckOpenTs, CheckOpen, StartRead, LoopOn, Deliver, PushFails,
           TakePacket, WouldBlock, Seek, allVars, demuxVars, Parsed
  <2> QED
    BY <2>1, <2>2, <2>3 DEF StInv, Media, Streamed
<1> QED
  BY <1>1, <1>2, <1>3

(* A sample of the raw demuxer has its stream, for any SDP: at its own      *)
(* index unless a medium before it was passed over.                         *)
THEOREM AlwaysSampleHasStream == DemuxSpec => []SampleHasStream
<1>1. DemuxInit => StInv
  <2> SUFFICES ASSUME DemuxInit PROVE StInv
    OBVIOUS
  <2>1. infos \in SDPs /\ parsers = {} /\ streams = <<>> /\ returned = NoTrack
    BY DEF DemuxInit
  <2>2. Streamed(<<>>, Len(infos), {})
    <3>1. Len(infos) \in Nat
      BY <2>1, DemuxerAssumption
    <3>2. 0 .. Len(infos) - 1 \subseteq {} => Len(infos) = 0
      <4>1. Len(infos) # 0 => 0 \in 0 .. Len(infos) - 1
        BY <3>1
      <4> QED
        BY <4>1
    <3>3. <<>> \in Seq(Nat) /\ Len(<<>>) = 0
      OBVIOUS
    <3> QED
      BY <3>2, <3>3 DEF Streamed
  <2> QED
    BY <2>1, <2>2 DEF StInv
<1>2. StInv => SampleHasStream
  <2> SUFFICES ASSUME StInv, kind = "raw", returned # NoTrack
               PROVE  /\ \E k \in DOMAIN streams : streams[k] = returned
                      /\ 0 .. returned - 1 \subseteq parsers => streams[returned + 1] = returned
    BY DEF SampleHasStream
  <2>1. returned \in parsers /\ returned < Len(infos)
    BY DemuxerAssumption DEF StInv, Media
  <2> QED
    BY <2>1 DEF StInv, Streamed
<1> QED
  BY <1>1, <1>2, StInvStep, PTL DEF DemuxSpec
=============================================================================
