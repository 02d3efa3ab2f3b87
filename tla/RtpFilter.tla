----------------------------- MODULE RtpFilter -----------------------------
(***************************************************************************)
(* The reordering buffer of RtpFilter (src/RtpFilter.cpp): one RtpSession  *)
(* per media of the SDP keeps the packets that came too early in a deque   *)
(* whose i-th slot (from 0) belongs to sequence number seq_base + i.       *)
(*                                                                         *)
(* A step is one iteration of the loop of get_sample2 (one packet taken    *)
(* from the filter below), the hand-over of one packet from the session    *)
(* ready_session_ points to, or a before_seek.  The packets are arbitrary: *)
(* RtpReorder composes this module with a network.                         *)
(*                                                                         *)
(* External, modelled from its use here: a demux Sample owns its memory    *)
(* block and an assignment hands the block over (the loop goes on to the   *)
(* next packet exactly when the packet just stored left sample.memory      *)
(* NULL, and a slot is empty exactly when its memory is NULL); a failing   *)
(* Filter::get_sample leaves sample.memory NULL.                           *)
(***************************************************************************)
EXTENDS Integers, Sequences

CONSTANTS
  Tracks,   \* the indices of sessions_
  NoTrack,  \* ready_session_ == NULL
  SeqMod,   \* sequence numbers are boost::uint16_t: 2^16 in the code
  Window,   \* how far ahead of seq_base a packet may be: 8 in the code
  Ids,      \* identities of packets (payload, timestamp, memory block)
  Hole,     \* a Sample without memory
  Base      \* RtpInfo::sequence of each track, an uint32_t

Seqs   == 0 .. SeqMod - 1
Packet == [track : Tracks, seq : Seqs, id : Ids]
Slot   == Packet \union {Hole}

ASSUME FilterAssumption ==
  /\ NoTrack \notin Tracks
  /\ SeqMod \in Nat \ {0}
  /\ Window \in Nat \ {0}
  /\ Base \in [Tracks -> Nat]
  /\ Hole \notin Packet

VARIABLES
  seqBase,  \* RtpSession::seq_base
  samples,  \* RtpSession::samples
  ready,    \* ready_session_
  out       \* the sample get_sample2 returns (pkt = Hole: it has no memory)

vars == <<seqBase, samples, ready, out>>

----------------------------------------------------------------------------
(* RtpSession::ready(): the first slot holds a packet. *)
IsReady(s) == s # <<>> /\ Head(s) # Hole

(* samples.pop_front(), n times, as far as there are samples. *)
DropFirst(s, n) == SubSeq(s, n + 1, Len(s))

(* Mutant of PutAt: resizes by one slot too many. *)
PutAtWide(s, i, p) ==
  [j \in 1 .. (IF Len(s) <= i THEN i + 2 ELSE Len(s)) |->
     IF j = i + 1 THEN p ELSE IF j <= Len(s) THEN s[j] ELSE Hole]

(* samples.resize(i + 1) when too short, then samples[i] = p. *)
PutAt(s, i, p) ==
  [j \in 1 .. (IF Len(s) <= i THEN i + 1 ELSE Len(s)) |->
     IF j = i + 1 THEN p ELSE IF j <= Len(s) THEN s[j] ELSE Hole]

(* Mutants of SkipStops: the window a packet narrower, and a loop that does *)
(* not look at the slots it gives up.                                       *)
SkipStopsTight(s, d, k) == d - k < Window \/ IsReady(DropFirst(s, k))
SkipStopsBlind(s, d, k) == d - k <= Window

(* The loop that gives up missing packets, d ahead of seq_base, stops after *)
(* k of them: the window is met, or a packet is there to be delivered.      *)
SkipStops(s, d, k) == d - k <= Window \/ IsReady(DropFirst(s, k))
Skips(s, d, k) == SkipStops(s, d, k) /\ \A j \in 0 .. k - 1 : ~SkipStops(s, d, j)

(* Mutant of Succ: a wider counter. *)
SuccWide(q) == q + 1

(* ++seq_base of an uint16_t. *)
Succ(q) == (q + 1) % SeqMod

Returns(p, disc) == out' = [pkt |-> p, disc |-> disc]

(* Mutant of NoteReady: the pointer stays. *)
NoteReadyMissing(t, s) == UNCHANGED ready

(* The tail of the loop body: a session left ready is drained first. *)
NoteReady(t, s) == ready' = IF IsReady(s) THEN t ELSE NoTrack

----------------------------------------------------------------------------
(* The constructor of RtpSession narrows RtpInfo::sequence to 16 bits. *)
Init ==
  /\ seqBase = [t \in Tracks |-> Base[t] % SeqMod]
  /\ samples = [t \in Tracks |-> <<>>]
  /\ ready = NoTrack
  /\ out = [pkt |-> Hole, disc |-> FALSE]

(* Mutants of PopReady: without ++seq_base, without the reset of            *)
(* ready_session_, and with the flag of the packet that opened the gap.     *)
PopReadyStays ==
  /\ ready # NoTrack
  /\ samples[ready] # <<>>
  /\ Returns(Head(samples[ready]), FALSE)
  /\ samples' = [samples EXCEPT ![ready] = Tail(@)]
  /\ ready' = IF IsReady(Tail(samples[ready])) THEN ready ELSE NoTrack
  /\ UNCHANGED seqBase

PopReadyAs(disc, r) ==
  /\ ready # NoTrack
  /\ samples[ready] # <<>>
  /\ Returns(Head(samples[ready]), disc)
  /\ seqBase' = [seqBase EXCEPT ![ready] = Succ(@)]
  /\ samples' = [samples EXCEPT ![ready] = Tail(@)]
  /\ ready' = r
PopReadyKeeps == PopReadyAs(FALSE, ready)
PopReadyFlags == PopReadyAs(out.disc, IF IsReady(Tail(samples[ready])) THEN ready ELSE NoTrack)

(* A ready session hands over its first packet.  front() of an empty deque *)
(* is undefined: no step is given for it (see Undefined).                  *)
PopReady ==
  /\ ready # NoTrack
  /\ samples[ready] # <<>>
  /\ Returns(Head(samples[ready]), FALSE)
  /\ seqBase' = [seqBase EXCEPT ![ready] = Succ(@)]
  /\ samples' = [samples EXCEPT ![ready] = Tail(@)]
  /\ ready' = IF IsReady(Tail(samples[ready])) THEN ready ELSE NoTrack

(* Mutant of FetchInOrder: the slot of the packet stays. *)
FetchInOrderUnpopped(p) ==
  /\ ready = NoTrack
  /\ p.seq = seqBase[p.track]
  /\ seqBase' = [seqBase EXCEPT ![p.track] = Succ(@)]
  /\ Returns(p, FALSE)
  /\ NoteReady(p.track, samples[p.track])
  /\ UNCHANGED samples

(* The packet is the one required: its slot, if there is one, goes. *)
FetchInOrder(p) ==
  LET t == p.track
      s == DropFirst(samples[t], 1)
  IN  /\ ready = NoTrack
      /\ p.seq = seqBase[t]
      /\ seqBase' = [seqBase EXCEPT ![t] = Succ(@)]
      /\ samples' = [samples EXCEPT ![t] = s]
      /\ Returns(p, FALSE)
      /\ NoteReady(t, s)

(* A packet with a smaller number is handed over as it is. *)
FetchLate(p) ==
  /\ ready = NoTrack
  /\ p.seq < seqBase[p.track]
  /\ Returns(p, FALSE)
  /\ NoteReady(p.track, samples[p.track])
  /\ UNCHANGED <<seqBase, samples>>

(* A packet with a greater number is stored; the numbers it leaves more   *)
(* than Window behind are given up, up to a packet that can be delivered. *)
FetchUnordered(p) ==
  LET t == p.track
      d == p.seq - seqBase[t]
  IN  /\ ready = NoTrack
      /\ d > 0
      /\ \E k \in 0 .. d :
           LET b == seqBase[t] + k
               s == PutAt(DropFirst(samples[t], k), d - k, p)
           IN  /\ Skips(samples[t], d, k)
               /\ \/ /\ IsReady(s)
                     /\ Returns(Head(s), TRUE)
                     /\ seqBase' = [seqBase EXCEPT ![t] = Succ(b)]
                     /\ samples' = [samples EXCEPT ![t] = Tail(s)]
                     /\ NoteReady(t, Tail(s))
                  \/ /\ ~IsReady(s)
                     /\ Returns(Hole, FALSE)
                     /\ seqBase' = [seqBase EXCEPT ![t] = b]
                     /\ samples' = [samples EXCEPT ![t] = s]
                     /\ UNCHANGED ready

Fetch(p) == FetchInOrder(p) \/ FetchLate(p) \/ FetchUnordered(p)

(* Filter::get_sample has nothing (would_block), or an RTCP packet came,   *)
(* which parse() keeps aside: either way no session changes.               *)
FetchNothing ==
  /\ ready = NoTrack
  /\ Returns(Hole, FALSE)
  /\ UNCHANGED <<seqBase, samples, ready>>

(* before_seek gives back every stored packet; seq_base and ready_session_ *)
(* stay.                                                                   *)
BeforeSeek ==
  /\ samples' = [t \in Tracks |-> <<>>]
  /\ Returns(Hole, FALSE)
  /\ UNCHANGED <<seqBase, ready>>

Next ==
  \/ PopReady
  \/ \E p \in Packet : FetchInOrder(p)
  \/ \E p \in Packet : FetchLate(p)
  \/ \E p \in Packet : FetchUnordered(p)
  \/ FetchNothing
  \/ BeforeSeek

Spec == Init /\ [][Next]_vars

----------------------------------------------------------------------------
TypeOK ==
  /\ seqBase \in [Tracks -> Seqs]
  /\ samples \in [Tracks -> Seq(Slot)]
  /\ ready \in Tracks \union {NoTrack}
  /\ out \in [pkt : Slot, disc : BOOLEAN]

(* get_sample2 is about to call front() of an empty deque. *)
Undefined == ready # NoTrack /\ samples[ready] = <<>>

(* The packets of track t that wait in the buffer. *)
Held(t) == {samples[t][i] : i \in DOMAIN samples[t]} \ {Hole}

(* Every stored packet sits in the slot of its own sequence number, counted *)
(* from seq_base: get_sample2 pops one slot for each number it passes,      *)
(* whichever of its branches it takes (src/RtpFilter.cpp:74, 94, 106, 117). *)
Aligned ==
  \A t \in Tracks : \A i \in 1 .. Len(samples[t]) :
    samples[t][i] # Hole => /\ samples[t][i].track = t
                            /\ samples[t][i].seq = seqBase[t] + i - 1

(* The slots of a session never reach past the last 16-bit number, so that  *)
(* seq_base wraps only when the deque is empty, and the deque never has     *)
(* more than 2^16 slots; its last slot is always a packet.                  *)
OneLap ==
  \A t \in Tracks :
    /\ seqBase[t] + Len(samples[t]) <= SeqMod
    /\ samples[t] # <<>> => samples[t][Len(samples[t])] # Hole

(* No packet is taken from the network while a session could deliver one:   *)
(* a session whose first slot is a packet is the one ready_session_ points  *)
(* to, so there is at most one, and ready_session_ points to no other,      *)
(* unless a before_seek took its packets away.  The pop_front of            *)
(* src/RtpFilter.cpp:94 and the single pointer of :76 and :123 rely on it.  *)
DrainFirst ==
  /\ \A t \in Tracks : IsReady(samples[t]) => ready = t
  /\ ready # NoTrack => IsReady(samples[ready]) \/ Undefined

(* A stored packet leaves the buffer only by being returned, by a packet of *)
(* the same number taking its slot, or by a before_seek: giving up missing  *)
(* numbers and popping the slot of an in-order packet discard nothing.      *)
NothingDiscarded ==
  [][ \A t \in Tracks : \A p \in Held(t) :
        \/ p \in Held(t)'
        \/ out'.pkt = p
        \/ \E q \in Held(t)' : q.seq = p.seq
        \/ BeforeSeek ]_vars

(* What get_sample2 returns is either the packet with the required number,  *)
(* after which the next number is required, or a packet from behind         *)
(* seq_base, which moves nothing.                                           *)
ReturnsRequiredOrLate ==
  [][ out'.pkt # Hole =>
        LET t == out'.pkt.track
        IN  \/ seqBase'[t] = Succ(out'.pkt.seq)
            \/ out'.pkt.seq < seqBase[t] /\ UNCHANGED <<seqBase, samples>> ]_vars

(* front() of an empty deque is only ever reached through a before_seek     *)
(* that came while a session was being drained (src/RtpFilter.cpp:152).     *)
UndefinedOnlyBySeek ==
  [][ Undefined' /\ ~Undefined => BeforeSeek /\ IsReady(samples[ready]) ]_vars
=============================================================================
