----------------------------- MODULE RtpParser -----------------------------
(***************************************************************************)
(* RtpParser (src/RtpParser.cpp): what the parsers of all payloads share.  *)
(* push adds a packet to sample_, and hands the sample over when it is     *)
(* whole: at once, or for fragments at the one flagged f_frag_end, unless  *)
(* a fragment is missing, which a discontinuity inside the sample tells.   *)
(*                                                                         *)
(* The data of a sample is a sequence of pieces; every piece counts 1 in a *)
(* size.  External, modelled from its use here and in RtpFilter:           *)
(* Sample::append takes the memory over and leaves the other sample with   *)
(* no memory and no data, so that a sample with data is a whole one.       *)
(* f_sync and f_discontinuity are in the low four bits of the flags, the   *)
(* others are not.                                                         *)
(***************************************************************************)
EXTENDS Integers, Sequences

VARIABLES
  kept,   \* sample_ of the parser of each track
  taken   \* the sample as push leaves it

NoSample == [data |-> <<>>, size |-> 0, flags |-> {}]

(* flags & 0xf *)
Low(flags) == flags \intersect {"sync", "discontinuity"}

ParserInit(tracks) ==
  /\ kept = [t \in tracks |-> NoSample]
  /\ taken = NoSample

(* sample_ with one packet more. *)
Gathered(t, pieces, size, flags) ==
  [data |-> kept[t].data \o pieces,
   size |-> kept[t].size + size,
   flags |-> kept[t].flags \union Low(flags)]

(* Mutant of WithFragment: a lost fragment is noted as a discontinuity only. *)
WithFragmentOnly(s, flags) == [s EXCEPT !.flags = @ \union {"fragment"}]

(* sample_ with a fragment more. *)
WithFragment(s, flags) ==
  [s EXCEPT !.flags = @ \union {"fragment"} \union
     (IF "discontinuity" \in flags THEN {"discontinuity", "frag_lost"} ELSE {})]

(* The sample goes on. *)
Hold(t, s) == kept' = [kept EXCEPT ![t] = s] /\ taken' = NoSample

(* The sample is handed over, and sample_ starts anew. *)
HandOver(t, s) ==
  /\ taken' = [s EXCEPT !.flags = Low(@)]
  /\ kept' = [kept EXCEPT ![t] = NoSample]

(* Mutants of Discard: the gap is forgotten, and the loss is not. *)
DiscardAll(t, s) == kept' = [kept EXCEPT ![t] = NoSample] /\ taken' = NoSample
DiscardSticky(t, s) ==
  /\ kept' = [kept EXCEPT ![t] =
       [NoSample EXCEPT !.flags = s.flags \intersect {"discontinuity", "frag_lost"}]]
  /\ taken' = NoSample

(* The sample lacks a fragment; that it is missing stays known. *)
Discard(t, s) ==
  /\ kept' = [kept EXCEPT ![t] =
       [NoSample EXCEPT !.flags = s.flags \intersect {"discontinuity"}]]
  /\ taken' = NoSample

Push(t, pieces, size, flags) ==
  LET s == Gathered(t, pieces, size, flags)
      f == WithFragment(s, flags)
      lost == "frag_lost" \in f.flags
  IN  CASE "multiple" \in flags -> Hold(t, s)
        [] "multiple" \notin flags /\ "fragment" \in flags ->
             \/ "frag_end" \notin flags /\ Hold(t, f)
             \/ "frag_end" \in flags /\ ~lost /\ HandOver(t, f)
             \/ "frag_end" \in flags /\ lost /\ Discard(t, f)
        [] OTHER -> HandOver(t, s)

(* before_seek takes the memory and the data of sample_ away; the reset of  *)
(* data and flags is done on the sample of the caller.                      *)
ParserBeforeSeek == kept' = [t \in DOMAIN kept |-> [kept[t] EXCEPT !.data = <<>>]]
=============================================================================
