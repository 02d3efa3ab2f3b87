----------------------------- MODULE ByteStream -----------------------------
(***************************************************************************)
(* What a reader of RtpTsBuffer relies on: a growing stream of bytes, each *)
(* named by its position, that can be read in order and repositioned in    *)
(* the part still kept.  Taking a sample out returns the bytes of its      *)
(* blocks; what is freed then lies before the last sample of every track   *)
(* that has had one.                                                       *)
(***************************************************************************)
EXTENDS Integers, Sequences, SequencesExt

CONSTANTS
  Tracks,
  MaxBytes,   \* bound on the bytes of the stream
  Eof,        \* what a read at the end returns
  NoData      \* the last operation returned no bytes

VARIABLES
  low,        \* the first byte kept
  end,        \* one past the last byte
  rd,         \* the position of the reader
  lastOf,     \* where the last sample of each track began, -1: no sample yet
  asked,      \* the track and the blocks of the last sample taken
  result      \* the bytes the last operation returned

vars == <<low, end, rd, lastOf, asked, result>>

(* The positions in a sequence of blocks, in order. *)
BytesOf(blocks) ==
  FlattenSeq([i \in DOMAIN blocks |-> [k \in 1 .. blocks[i].size |-> blocks[i].at + k - 1]])

Init ==
  /\ low = 0 /\ end = 0 /\ rd = 0
  /\ lastOf = [t \in Tracks |-> -1]
  /\ asked = NoData /\ result = NoData

Grow ==
  /\ end' \in end .. MaxBytes
  /\ result' = NoData
  /\ asked' = NoData
  /\ UNCHANGED <<low, rd, lastOf>>

Seek ==
  /\ rd' \in low .. end
  /\ result' = NoData
  /\ asked' = NoData
  /\ UNCHANGED <<low, end, lastOf>>

Read ==
  /\ IF rd < end THEN rd' = rd + 1 /\ result' = <<rd>> ELSE rd' = rd /\ result' = Eof
  /\ asked' = NoData
  /\ UNCHANGED <<low, end, lastOf>>

Take(t, blocks) ==
  /\ \A i \in DOMAIN blocks : blocks[i].at >= low /\ blocks[i].at + blocks[i].size <= end
  /\ result' = BytesOf(blocks)
  /\ lastOf' = [lastOf EXCEPT ![t] = blocks[1].at]
  /\ low' \in low .. end
  /\ \A u \in Tracks : lastOf'[u] # -1 => low' <= lastOf'[u]
  /\ UNCHANGED <<end, rd>>

(* A sample that begins before low cannot be had. *)
Refuse(blocks) ==
  /\ \E i \in DOMAIN blocks : blocks[i].at < low
  /\ result' = NoData
  /\ UNCHANGED <<low, end, rd, lastOf>>

Sample == asked' # NoData /\ (Take(asked'.track, asked'.blocks) \/ Refuse(asked'.blocks))

Next == Grow \/ Seek \/ Read \/ Sample

Spec == Init /\ [][Next]_vars
=============================================================================
