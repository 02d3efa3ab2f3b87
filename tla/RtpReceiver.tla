---------------------------- MODULE RtpReceiver ----------------------------
(***************************************************************************)
(* RtpFilter::get_sample: each packet get_sample2 returns goes at once to  *)
(* the parser of its track, if it has one, and the caller gets a sample    *)
(* when one is whole.  The packets come over the network of RtpReorder;    *)
(* those of the track Video carry an H.264 stream, whose frames end with   *)
(* the packets that have the mark.                                         *)
(***************************************************************************)
EXTENDS RtpReorder, RtpH264Parser

SX == INSTANCE SequencesExt

CONSTANTS
  Streams,  \* the streams the sender may send on Video: [Ids -> Nal]
  Parsed,   \* the sets of tracks for which check_open added a parser
  Seeks     \* bound on the seeks

ASSUME ReceiverAssumption ==
  /\ Video \in Tracks
  /\ Streams \subseteq [Ids -> Nal]
  /\ \A s \in Parsed : Video \in s /\ s \subseteq Tracks
  /\ Seeks \in Nat

VARIABLES
  stream,    \* what is sent on Video
  parsers,   \* the tracks with a parser
  seeks,     \* how many seeks there were
  cut,       \* a seek came inside a frame, or while packets waited
  lastEnd    \* history: the last packet of the last frame handed over, or -1

parserVars == <<kept, taken, h264Vars>>
receiverVars == <<allVars, parserVars, stream, parsers, seeks, cut, lastEnd>>

ReceiverInit ==
  /\ ReorderInit
  /\ H264Init(Tracks)
  /\ stream \in Streams
  /\ parsers \in Parsed
  /\ seeks = 0 /\ cut = FALSE /\ lastEnd = -1

FlagsOf(o) == IF o.disc THEN {"discontinuity"} ELSE {}

(* session.parser is not NULL *)
HasParser(o) == IF o.pkt = Hole THEN FALSE ELSE o.pkt.track \in parsers

(* What get_sample does with what get_sample2 returns. *)
Parse(o) ==
  \/ /\ ~HasParser(o)
     /\ taken' = NoSample
     /\ UNCHANGED <<kept, h264Vars>>
  \/ /\ HasParser(o) /\ o.pkt.track = Video
     /\ PushH264(o.pkt.id, stream[o.pkt.id], FlagsOf(o))
  \/ /\ HasParser(o) /\ o.pkt.track # Video
     /\ PushMpeg4(o.pkt.track, o.pkt.id, FlagsOf(o))

(* The packets of a sample, in the order of its data. *)
PacketsOf(s) ==
  LET ids[k \in 0 .. Len(s.data)] ==
        IF k = 0 THEN <<>>
        ELSE IF s.data[k].part = "payload" THEN Append(ids[k - 1], s.data[k].of) ELSE ids[k - 1]
  IN  ids[Len(s.data)]

Forwarded ==
  /\ Parse(out')
  /\ lastEnd' = IF taken' # NoSample /\ out'.pkt.track = Video THEN SX!Last(PacketsOf(taken')) ELSE lastEnd
  /\ UNCHANGED <<stream, parsers, seeks, cut>>

(* before_seek of the filter and of the parsers; the packets it drops are   *)
(* lost to the stream.                                                      *)
ReceiverSeek ==
  /\ seeks < Seeks
  /\ seeks' = seeks + 1
  /\ BeforeSeek
  /\ H264BeforeSeek
  /\ taken' = NoSample
  /\ lost' = [t \in Tracks |-> lost[t] \union HeldIds(t)]
  /\ cut' = (cut \/ ready # NoTrack \/ \E t \in Tracks : kept[t].data # <<>>)
  /\ UNCHANGED <<net, dups, delivered, stream, parsers, lastEnd>>

ReceiverNext ==
  \/ \E t \in Tracks, i \in Ids : Arrive(t, i) /\ Forwarded
  \/ \E t \in Tracks, i \in Ids :
       Lose(t, i) /\ UNCHANGED <<parserVars, stream, parsers, seeks, cut, lastEnd>>
  \/ Drain /\ Forwarded
  \/ WouldBlock /\ Forwarded
  \/ ReceiverSeek

ReceiverSpec == ReceiverInit /\ [][ReceiverNext]_receiverVars

----------------------------------------------------------------------------
(* The packets of Video from i to j are one frame. *)
IsFrame(i, j) ==
  /\ i <= j /\ stream[j].mark
  /\ \A k \in i .. j - 1 : ~stream[k].mark
  /\ i = 0 \/ stream[i - 1].mark

(* A sample of Video was just handed over; a step hands one over. *)
HandsFrame == taken # NoSample /\ out.pkt # Hole /\ out.pkt.track = Video
HandsNewFrame == out' # out /\ (HandsFrame /\ ~cut)'
ReturnsVideo == out' # out /\ out'.pkt # Hole /\ out'.pkt.track = Video
FirstOf(s) == Head(PacketsOf(s))
Starts(i, j) == {k \in i .. j : stream[k].kind = "start"}

(* Under losses and reordering within the window, what get_sample hands     *)
(* over is one frame of the stream, all of it and nothing else, in order,   *)
(* with its size and its sync flag (src/RtpParser.cpp:39-69).               *)
WholeFrames ==
  HandsFrame /\ ~cut =>
    LET ps == PacketsOf(taken)
        i == Head(ps)
        j == SX!Last(ps)
    IN  /\ ps = [k \in 1 .. j - i + 1 |-> i + k - 1]
        /\ IsFrame(i, j)
        /\ taken.size = Len(taken.data)
        /\ "sync" \in taken.flags <=> \E k \in i .. j : stream[k].idr

(* Frames come in order, and one is flagged as discontinuous exactly when   *)
(* the frame before it was not handed over (src/RtpParser.cpp:46, 58, 71).  *)
GapsFlagged ==
  [][ HandsNewFrame =>
        /\ FirstOf(taken') > lastEnd
        /\ "discontinuity" \in taken'.flags <=> FirstOf(taken') # lastEnd + 1 ]_receiverVars

(* A frame whose last packet comes is kept back only for a packet lost of   *)
(* it, or the one before it: a flagged first fragment cannot be told from a *)
(* later one (src/RtpParser.cpp:46-49).                                     *)
OnlyBrokenFramesDropped ==
  [][ ReturnsVideo /\ ~cut =>
        LET j == out'.pkt.id
            i == Min({k \in 0 .. j : IsFrame(k, j)} \union {Sent})
        IN  stream[j].mark /\ taken' = NoSample =>
              (i - 1 .. j) \intersect lost[Video] # {} ]_receiverVars

(* The rebuilt headers of a frame are those of its units when the frame is  *)
(* handed over, unless it has more fragmented units than buf_ had cells:    *)
(* then the resize moved those of before                                    *)
(* (src/raw/RtpH264Parser.cpp:82-86, 107).                                  *)
HeadersIntact ==
  HandsFrame /\ ~cut =>
    LET ps == PacketsOf(taken)
        at == {k \in DOMAIN taken.data : taken.data[k].part = "header"}
    IN  Cardinality(Starts(Head(ps), SX!Last(ps))) <= BufSize =>
          \A k \in at : /\ taken.data[k].at = moved
                        /\ buf[taken.data[k].cell] = taken.data[k + 1].of

(* The units nalu_ is given are those of the frame                          *)
(* (src/raw/RtpH264Parser.cpp:87-108, 117-122).                             *)
NalusAreUnits ==
  HandsFrame /\ ~cut =>
    LET i == FirstOf(taken)
        j == SX!Last(PacketsOf(taken))
        ends == {k \in i .. j : stream[k].kind \in {"end", "single"}}
        SizeUpTo(k) == (k - i + 1) + Cardinality(Starts(i, k))
    IN  /\ Len(nalus) = Cardinality(ends)
        /\ \A k \in ends :
             LET n == Cardinality({e \in ends : e <= k})
             IN  SumTo(nalus, n) = SizeUpTo(k)
============================================================================
