---------------------------- MODULE RtpTsBuffer ----------------------------
(***************************************************************************)
(* RtpTsBuffer (src/ts/RtpTsBuffer.h): the payloads of RTP packets, each a *)
(* deque of memory buffers, read as one stream by a TsDemuxer.  An         *)
(* iterator keeps the reader's place: packet index1, which should begin at *)
(* stream position pos1, and in it buffer index2, which should begin at    *)
(* pos2.  A buffer carries the number of its first byte in the stream that *)
(* was put, so that what is read can be compared with what was asked for.  *)
(* Indices count from 1 here, and from 0 in the code.                      *)
(*                                                                         *)
(* External, modelled from its use in RtpTsParser::push: after a put the   *)
(* TsDemuxer seeks before it reads, and a sample it returns lies between   *)
(* the start of the last sample of its track and its own position in the   *)
(* stream, in one or two blocks.                                           *)
(***************************************************************************)
EXTENDS Integers, Sequences, FiniteSets, SequencesExt, FiniteSetsExt

CONSTANTS
  Tracks,    \* the tracks of the transport stream
  Shapes,    \* payloads: sequences of buffer sizes, none of them empty
  MaxBytes,  \* bound on the bytes put
  Eof, NoData

ASSUME BufferAssumption ==
  /\ MaxBytes \in Nat
  /\ Shapes \subseteq Seq(0 .. MaxBytes) \ {<<>>}
  /\ NoData \notin [track : Tracks, blocks : Seq([at : Nat, size : Nat])]

VARIABLES
  packets,   \* packets_: sequences of buffers
  iter,      \* iter_
  bufOff,    \* buf_.offset(): how much of the current buffer was read
  offsets,   \* offsets_, -1 for a track without one
  placed,    \* the demuxer sought since the last put
  fault,     \* an assert failed, or packets_ was indexed out of range
  asked,     \* the track and the blocks of the last sample asked for
  result     \* what the last operation returned

vars == <<packets, iter, bufOff, offsets, placed, fault, asked, result>>

Total(ns) ==
  LET sum[i \in 0 .. Len(ns)] == IF i = 0 THEN 0 ELSE sum[i - 1] + ns[i]
  IN  sum[Len(ns)]
Sizes(bufs) == [i \in DOMAIN bufs |-> bufs[i].size]
Size(packet) == Total(Sizes(packet))
Starts(ns, from) == [i \in DOMAIN ns |-> from + Total(SubSeq(ns, 1, i - 1))]

NoBuf == [from |-> -1, size |-> 0]
OutOfRange == [index1 |-> -1]

(* The loops of set: from the i-th of the sizes ns, the first one that is  *)
(* not smaller than what remains of off, Len(ns) + 1 if there is none.     *)
Fit(ns, i, off) ==
  Min({k \in i .. Len(ns) : off - Total(SubSeq(ns, i, k - 1)) <= ns[k]} \union {Len(ns) + 1})

----------------------------------------------------------------------------
(* BufferIterator *)
Invalid(it, p) == p < it.pos \/ p > it.end

(* set(p), from where the iterator is, or from the start if p is before. *)
SetTo(it, p) ==
  LET back  == p < it.pos1
      from1 == IF back THEN 1 ELSE it.index1
      begin == IF back THEN it.pos ELSE it.pos1
      ns1   == [i \in DOMAIN packets |-> Size(packets[i])]
      i     == Fit(ns1, from1, p - begin)
      pos1  == begin + Total(SubSeq(ns1, from1, i - 1))
      again == back \/ i # it.index1 \/ p < it.pos2
      from2 == IF again THEN 1 ELSE it.index2
      inner == IF again THEN pos1 ELSE it.pos2
      ns2   == Sizes(packets[i])
      j     == Fit(ns2, from2, p - inner)
      pos2  == inner + Total(SubSeq(ns2, from2, j - 1))
  IN  CASE p = it.end ->
             [it EXCEPT !.index1 = Len(packets) + 1, !.index2 = 1, !.pos1 = p, !.pos2 = p,
                        !.off = 0, !.buf = NoBuf]
        [] p # it.end /\ (from1 \notin DOMAIN packets \/ i \notin DOMAIN packets) -> OutOfRange
        [] p # it.end /\ from1 \in DOMAIN packets /\ i \in DOMAIN packets ->
             IF j \notin DOMAIN ns2 THEN OutOfRange
             ELSE [it EXCEPT !.index1 = i, !.index2 = j, !.pos1 = pos1, !.pos2 = pos2,
                             !.off = p - pos2, !.buf = packets[i][j]]

(* One round of inc, to the next buffer. *)
NextBuf(it) ==
  IF it = OutOfRange \/ it.index1 \notin DOMAIN packets THEN OutOfRange
  ELSE LET over == it.index2 >= Len(packets[it.index1])
           i == IF over THEN it.index1 + 1 ELSE it.index1
           j == IF over THEN 1 ELSE it.index2 + 1
       IN  IF i \notin DOMAIN packets THEN OutOfRange
           ELSE [it EXCEPT !.index1 = i, !.index2 = j, !.off = 0, !.buf = packets[i][j],
                           !.pos1 = IF over THEN @ + Size(packets[it.index1]) ELSE @,
                           !.pos2 = @ + it.buf.size]

(* inc: to the next buffer that is not empty. *)
Inc(it) ==
  LET n == Total([i \in DOMAIN packets |-> Len(packets[i])])
      round[k \in 1 .. n + 1] ==
        LET x == IF k = 1 THEN it ELSE round[k - 1]
        IN  IF k > 1 /\ (x = OutOfRange \/ x.buf.size # 0) THEN x ELSE NextBuf(x)
  IN  round[n + 1]

----------------------------------------------------------------------------
Init ==
  /\ packets = <<>>
  /\ iter = [pos |-> 0, end |-> 0, index1 |-> 1, pos1 |-> 0, index2 |-> 1, pos2 |-> 0,
             buf |-> NoBuf, off |-> 0]
  /\ bufOff = 0
  /\ offsets = [t \in Tracks |-> -1]
  /\ placed = FALSE
  /\ fault = "none"
  /\ asked = NoData /\ result = NoData

Put(shape) ==
  LET from == Starts(shape, iter.end)
  IN  /\ fault = "none"
      /\ iter.end + Total(shape) <= MaxBytes
      /\ Len(packets) < MaxBytes
      /\ packets' = Append(packets, [i \in DOMAIN shape |-> [from |-> from[i], size |-> shape[i]]])
      /\ iter' = [iter EXCEPT !.end = @ + Total(shape)]
      /\ placed' = FALSE
      /\ asked' = NoData /\ result' = NoData
      /\ UNCHANGED <<bufOff, offsets, fault>>

(* seekpos, to which seekoff comes down. *)
Seek(p) ==
  /\ fault = "none"
  /\ asked' = NoData /\ result' = NoData
  /\ \/ /\ Invalid(iter, p)
        /\ UNCHANGED <<packets, iter, bufOff, offsets, placed, fault>>
     \/ /\ ~Invalid(iter, p)
        /\ placed' = TRUE
        /\ LET it == SetTo(iter, p)
           IN  \/ it = OutOfRange /\ fault' = "range" /\ UNCHANGED <<iter, bufOff>>
               \/ it # OutOfRange /\ iter' = it /\ bufOff' = it.off /\ UNCHANGED fault
        /\ UNCHANGED <<packets, offsets>>

(* A byte from buf_, by underflow when it is used up. *)
ReadByte ==
  /\ fault = "none" /\ placed
  /\ \/ /\ bufOff < iter.buf.size
        /\ result' = <<iter.buf.from + bufOff>>
        /\ bufOff' = bufOff + 1
        /\ UNCHANGED <<iter, fault>>
     \/ /\ bufOff >= iter.buf.size
        /\ iter.pos2 + bufOff < iter.end
        /\ LET it == Inc(iter)
           IN  \/ it = OutOfRange /\ fault' = "range" /\ UNCHANGED <<iter, bufOff, result>>
               \/ /\ it # OutOfRange
                  /\ iter' = it /\ bufOff' = 1 /\ result' = <<it.buf.from>>
                  /\ UNCHANGED fault
     \/ /\ bufOff >= iter.buf.size
        /\ iter.pos2 + bufOff >= iter.end
        /\ result' = Eof
        /\ UNCHANGED <<iter, bufOff, fault>>
  /\ asked' = NoData
  /\ UNCHANGED <<packets, offsets, placed>>

(* Mutant of Chunk: the offset is not taken off the size. *)
ChunkWhole(buf, off, n) ==
  [k \in 1 .. Min({n, buf.size}) |-> buf.from + off + k - 1]

(* The bytes of a buffer from off on, at most n of them. *)
Chunk(buf, off, n) ==
  [k \in 1 .. Min({n, buf.size - off}) |-> buf.from + off + k - 1]

(* The loop of get over one block: the bytes of size n from iterator it on, *)
(* buffer by buffer.                                                        *)
Collect(it, n) ==
  LET take[k \in 0 .. n + 1] ==
        IF k = 0 THEN [it |-> it, left |-> n, got |-> <<>>]
        ELSE LET s == take[k - 1]
                 c == Chunk(s.it.buf, s.it.off, s.left)
                 left == s.left - Len(c)
             IN  IF s.it = OutOfRange \/ s.left = 0 THEN s
                 ELSE [it |-> IF left = 0 THEN s.it ELSE Inc(s.it),
                       left |-> left, got |-> s.got \o c]
  IN  take[n + 1]

(* get, with its copy of iter_: the blocks one after the other. *)
Gather(blocks) ==
  LET after[k \in 0 .. Len(blocks)] ==
        IF k = 0 THEN [it |-> iter, got |-> <<>>]
        ELSE LET s == after[k - 1]
                 at == SetTo(s.it, blocks[k].at)
                 c == Collect(at, blocks[k].size)
             IN  IF s.it = OutOfRange \/ at = OutOfRange
                 THEN [it |-> OutOfRange, got |-> <<>>]
                 ELSE [it |-> c.it, got |-> s.got \o c.got]
  IN  after[Len(blocks)]

(* Where the k-th packet ends. *)
EndsAt(k) == iter.pos + Total([i \in 1 .. k |-> Size(packets[i])])

(* Mutants of Freed: the packet that holds low goes too, and low is the     *)
(* last of the offsets.                                                     *)
FreedOneMore(offs) ==
  LET low == Min({offs[u] : u \in {v \in Tracks : offs[v] # -1}})
  IN  Cardinality({k \in DOMAIN packets : EndsAt(k - 1) <= low})
FreedByLast(offs) ==
  Cardinality({k \in DOMAIN packets : EndsAt(k) <= Max({offs[u] : u \in Tracks})})

(* How many packets get frees: those that end by the first of the offsets. *)
Freed(offs) ==
  LET low == Min({offs[u] : u \in {v \in Tracks : offs[v] # -1}})
  IN  Cardinality({k \in DOMAIN packets : EndsAt(k) <= low})

(* Mutant of Drop: index1 still counts the packets that are gone. *)
DropKeepsIndex(n) == [iter EXCEPT !.pos = EndsAt(n)]

(* BufferIterator::drop for each of the first n packets. *)
Drop(n) == [iter EXCEPT !.pos = EndsAt(n), !.index1 = @ - n]

TakeSample(t, blocks) ==
  LET g == Gather(blocks)
      offs == [offsets EXCEPT ![t] = blocks[1].at]
      n == Freed(offs)
  IN  /\ asked' = [track |-> t, blocks |-> blocks]
      /\ \/ /\ \E i \in DOMAIN blocks : Invalid(iter, blocks[i].at)
            /\ fault' = "assert"
            /\ result' = NoData
            /\ UNCHANGED <<packets, iter, offsets>>
         \/ /\ \A i \in DOMAIN blocks : ~Invalid(iter, blocks[i].at)
            /\ g.it = OutOfRange
            /\ fault' = "range"
            /\ UNCHANGED <<packets, iter, offsets, result>>
         \/ /\ \A i \in DOMAIN blocks : ~Invalid(iter, blocks[i].at)
            /\ g.it # OutOfRange
            /\ result' = g.got
            /\ offsets' = offs
            /\ packets' = SubSeq(packets, n + 1, Len(packets))
            /\ iter' = Drop(n)
            /\ UNCHANGED fault
      /\ UNCHANGED <<bufOff, placed>>

(* Where the reader is. *)
Position == iter.pos2 + bufOff

(* The samples the demuxer may return next, of a track whose last one began *)
(* at first.                                                                *)
Blocks(first, last) ==
  {[at |-> x[1], size |-> x[2] - x[1]] : x \in {y \in (first .. last) \X (first .. last) : y[1] < y[2]}}
MayReturn(t) ==
  LET bs == Blocks(Max({0, offsets[t]}), Position)
  IN  {<<b>> : b \in bs} \union
      {<<x[1], x[2]>> : x \in {y \in bs \X bs : y[1].at + y[1].size <= y[2].at}}

DemuxerReturns(t) ==
  /\ fault = "none" /\ placed
  /\ \E blocks \in MayReturn(t) : TakeSample(t, blocks)

Next ==
  \/ \E shape \in Shapes : Put(shape)
  \/ \E p \in 0 .. MaxBytes : Seek(p)
  \/ ReadByte
  \/ \E t \in Tracks : DemuxerReturns(t)

Spec == Init /\ [][Next]_vars

----------------------------------------------------------------------------
(* The reader's place is what it says: packet index1 begins at pos1, and    *)
(* buffer index2 of it at pos2 and is the one buf points into, however it   *)
(* came there, by seeks, by reads or across packets freed in front of it    *)
(* (src/ts/RtpTsBuffer.h:164-222).                                          *)
IteratorInPlace ==
  LET ns == [i \in DOMAIN packets |-> Size(packets[i])]
  IN  placed /\ iter.index1 <= Len(packets) =>
        /\ iter.pos1 = iter.pos + Total(SubSeq(ns, 1, iter.index1 - 1))
        /\ iter.buf = packets[iter.index1][iter.index2]
        /\ iter.pos2 = iter.buf.from

(* packets_ is never indexed out of range, by set, inc or get, in any order *)
(* of seeks, reads and samples taken (src/ts/RtpTsBuffer.h:183, 213).       *)
NeverOutOfRange == fault # "range"

(* The bytes a sample needs are still there: the assert of get              *)
(* (src/ts/RtpTsBuffer.h:43).                                               *)
BlocksStillThere == fault # "assert"

(* For a track that has had a sample they are: only the first sample of a   *)
(* track can find its bytes freed (src/ts/RtpTsBuffer.h:56-63).             *)
SeenTracksKept ==
  [][ fault' = "assert" /\ fault # "assert" => offsets[asked'.track] = -1 ]_vars

(* What is read and taken are the bytes asked for, and nothing a seen track *)
(* may still need is freed.                                                 *)
Stream == INSTANCE ByteStream WITH
  low <- iter.pos, end <- iter.end, rd <- Position, lastOf <- offsets

ImplementsByteStream == Stream!Spec
============================================================================
