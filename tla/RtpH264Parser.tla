--------------------------- MODULE RtpH264Parser ---------------------------
(***************************************************************************)
(* RtpH264Parser (src/raw/RtpH264Parser.cpp) on the track Video, and the   *)
(* other parser of raw streams, RtpMpeg4GenericParser, whose packets are   *)
(* whole.  Of an FU-A unit the first fragment brings a header to rebuild:  *)
(* it is written to buf_, and sample_.data points there.  nalu_sizes_      *)
(* collects the sizes of the units, of which those of the last is left out *)
(* and its entry is the sentinel.                                          *)
(*                                                                         *)
(* A payload is one piece of data and counts 1, as a header does.  A mark  *)
(* is on the last packet of a unit.                                        *)
(***************************************************************************)
EXTENDS RtpParser, FiniteSetsExt

CONSTANTS
  Video,     \* the track with an RtpH264Parser
  BufSize,   \* the initial size of buf_ and nalu_sizes_: 4 in the code
  NoHeader   \* a cell of buf_ not written yet

ASSUME H264Assumption == BufSize \in Nat \ {0}

VARIABLES
  buf,         \* buf_: the packet each cell holds the header of
  moved,       \* how often buf_ was resized, which moves its cells
  bufUsed,     \* buf_used_
  naluSizes,   \* nalu_sizes_
  naluCount,   \* nalu_count_
  nalus        \* the sizes of the units of the last sample, as nalu_ has them

h264Vars == <<buf, moved, bufUsed, naluSizes, naluCount, nalus>>

(* What a packet carries: a unit of its own or a fragment of one, the mark, *)
(* and whether its unit is an IDR.                                          *)
Kinds == {"single", "start", "middle", "end"}
Nal == [kind : Kinds, mark : BOOLEAN, idr : BOOLEAN]

Payload(i) == [part |-> "payload", of |-> i]
Header(cell) == [part |-> "header", at |-> moved', cell |-> cell]

(* A vector twice as long, when it has no place for index i (from 0). *)
Room(v, i, fill) == IF Len(v) <= i THEN v \o [k \in 1 .. Len(v) |-> fill] ELSE v

H264Init(tracks) ==
  /\ ParserInit(tracks)
  /\ buf = [k \in 1 .. BufSize |-> NoHeader]
  /\ moved = 0 /\ bufUsed = 0
  /\ naluSizes = [k \in 1 .. BufSize |-> 0]
  /\ naluCount = 0
  /\ nalus = <<>>

SizeOf(nal) == IF nal.kind = "start" THEN 2 ELSE 1

(* Mutant of WriteHeader: without ++buf_used_. *)
WriteHeaderFirst(i, nal) ==
  /\ buf' = IF nal.kind = "start" THEN [buf EXCEPT ![bufUsed + 1] = i] ELSE buf
  /\ UNCHANGED <<moved, bufUsed>>

(* The header of packet i goes to the next cell; after a mark to the first. *)
WriteHeader(i, nal) ==
  LET room == Room(buf, bufUsed, NoHeader)
  IN  /\ IF nal.kind = "start"
         THEN /\ buf' = [room EXCEPT ![bufUsed + 1] = i]
              /\ moved' = IF Len(room) > Len(buf) THEN moved + 1 ELSE moved
         ELSE UNCHANGED <<buf, moved>>
      /\ bufUsed' = IF nal.mark THEN 0 ELSE IF nal.kind = "start" THEN bufUsed + 1 ELSE bufUsed

(* nalu_sizes_ and nalu_count_ with this packet. *)
SizesWith(nal) ==
  [Room(naluSizes, naluCount, 0) EXCEPT ![naluCount + 1] =
     IF nal.kind \in {"start", "single"} THEN SizeOf(nal) ELSE @ + SizeOf(nal)]
CountWith(nal) == IF nal.kind \in {"end", "single"} THEN naluCount + 1 ELSE naluCount

(* Mutant of CountUnit: no sentinel. *)
CountUnitOpen(nal) ==
  /\ naluSizes' = SizesWith(nal)
  /\ naluCount' = IF nal.mark THEN 0 ELSE CountWith(nal)

(* The sizes of the units so far. *)
CountUnit(nal) ==
  LET sizes == SizesWith(nal)
      count == CountWith(nal)
  IN  /\ naluSizes' = IF nal.mark THEN [sizes EXCEPT ![count] = 0] ELSE sizes
      /\ naluCount' = IF nal.mark THEN 0 ELSE count

(* The first n of the sizes together. *)
SumTo(sizes, n) ==
  LET sum[k \in 0 .. n] == IF k = 0 THEN 0 ELSE sum[k - 1] + sizes[k]
  IN  sum[n]

(* The units of a whole sample, read off nalu_sizes_ up to the sentinel. *)
Units(sizes, size) ==
  LET n == Min({k \in DOMAIN sizes : sizes[k] = 0} \union {Len(sizes) + 1}) - 1
  IN  SubSeq(sizes, 1, n) \o <<size - SumTo(sizes, n)>>

(* RtpH264Parser::push of packet i, with the flags RtpFilter gave it. *)
PushH264(i, nal, flags) ==
  /\ WriteHeader(i, nal)
  /\ CountUnit(nal)
  /\ Push(Video,
          (IF nal.kind = "start" THEN <<Header(bufUsed + 1)>> ELSE <<>>) \o <<Payload(i)>>,
          SizeOf(nal),
          flags \union {"fragment"} \union (IF nal.mark THEN {"frag_end"} ELSE {})
                \union (IF nal.idr /\ nal.kind \in {"start", "single"} THEN {"sync"} ELSE {}))
  /\ nalus' = IF taken' # NoSample THEN Units(naluSizes', taken'.size) ELSE nalus

(* RtpMpeg4GenericParser::push: the access units without their headers. *)
PushMpeg4(t, i, flags) ==
  /\ Push(t, <<Payload(i)>>, 1, flags)
  /\ UNCHANGED h264Vars

H264BeforeSeek ==
  /\ ParserBeforeSeek
  /\ bufUsed' = 0 /\ naluCount' = 0
  /\ UNCHANGED <<buf, moved, naluSizes, nalus>>
=============================================================================
