-------------------------- MODULE RtpFilterProofs --------------------------
(***************************************************************************)
(* Proofs about RtpFilter for every value of its constants.  IInv, the     *)
(* conjunction of its invariants, is inductive: OneLap keeps seq_base from *)
(* wrapping in the middle of a deque, which is what Aligned rests on, and  *)
(* DrainFirst, with Aligned, shows that no step throws a packet away.      *)
(* Fits says of one session what Aligned and OneLap say of all of them, so *)
(* that each operation on a deque is treated once, in a lemma.             *)
(***************************************************************************)
EXTENDS RtpFilter, SequenceTheorems, WellFoundedInduction, TLAPS

IInv == TypeOK /\ Aligned /\ OneLap /\ DrainFirst

Fits(t, b, s) ==
  /\ s \in Seq(Slot)
  /\ \A i \in 1 .. Len(s) : s[i] # Hole => s[i].track = t /\ s[i].seq = b + i - 1
  /\ b + Len(s) <= SeqMod
  /\ s # <<>> => s[Len(s)] # Hole

(* Induction over a set of numbers, for what recursive functions compute in *)
(* the modules that extend this one.                                        *)
LEMMA Least ==
  ASSUME NEW S \in SUBSET Nat, S # {}
  PROVE  \E m \in S : \A k \in S : m <= k
<1>1. PICK R : R = OpToRel(<, Nat)
  OBVIOUS
<1>2. IsWellFoundedOn(R, Nat)
  BY <1>1, NatLessThanWellFounded
<1>3. PICK m \in S : \A k \in S : ~(<<k, m>> \in R)
  BY <1>2, WFMin
<1>4. \A k \in S : ~(k < m)
  BY <1>1, <1>3 DEF OpToRel
<1> QED
  BY <1>4

LEMMA SetInduction ==
  ASSUME NEW T, 0 \in T, \A n \in Nat : n \in T => n + 1 \in T
  PROVE  Nat \subseteq T
<1> SUFFICES ASSUME Nat \ T # {} PROVE FALSE
  OBVIOUS
<1>1. PICK m \in Nat \ T : \A k \in Nat \ T : m <= k
  BY Least
<1>2. m - 1 \in Nat /\ m - 1 \in T
  BY <1>1
<1> QED
  BY <1>1, <1>2

----------------------------------------------------------------------------
(* pop_front n times: what remains, and where. *)
LEMMA DropFirstFacts ==
  ASSUME NEW S, NEW s \in Seq(S), NEW n \in Nat
  PROVE  /\ DropFirst(s, n) \in Seq(S)
         /\ Len(DropFirst(s, n)) = IF n <= Len(s) THEN Len(s) - n ELSE 0
         /\ \A i \in 1 .. Len(DropFirst(s, n)) : DropFirst(s, n)[i] = s[i + n]
<1>1. CASE n <= Len(s)
  <2>1. n + 1 \in 1 .. Len(s) + 1 /\ Len(s) \in (n + 1) - 1 .. Len(s)
    BY <1>1, LenProperties
  <2> QED
    BY <1>1, <2>1, SubSeqProperties, LenProperties DEF DropFirst
<1>2. CASE ~(n <= Len(s))
  <2>1. DropFirst(s, n) = <<>>
    BY <1>2, LenProperties DEF DropFirst
  <2> QED
    BY <1>2, <2>1
<1> QED
  BY <1>1, <1>2

(* resize and assign: the slots of the deque afterwards. *)
LEMMA PutAtFacts ==
  ASSUME NEW s \in Seq(Slot), NEW i \in Nat, NEW p \in Slot
  PROVE  /\ PutAt(s, i, p) \in Seq(Slot)
         /\ Len(PutAt(s, i, p)) = IF Len(s) <= i THEN i + 1 ELSE Len(s)
         /\ \A j \in 1 .. Len(PutAt(s, i, p)) :
              PutAt(s, i, p)[j] =
                IF j = i + 1 THEN p ELSE IF j <= Len(s) THEN s[j] ELSE Hole
<1> DEFINE n == IF Len(s) <= i THEN i + 1 ELSE Len(s)
<1>1. n \in Nat
  BY LenProperties
<1>2. \A j \in 1 .. Len(s) : s[j] \in Slot
  BY ElementOfSeq
<1>3. Hole \in Slot
  BY DEF Slot
<1>4. PutAt(s, i, p) \in [1 .. n -> Slot]
  BY <1>1, <1>2, <1>3, LenProperties DEF PutAt
<1>5. PutAt(s, i, p) \in Seq(Slot)
  BY <1>1, <1>4, SeqDef
<1>6. Len(PutAt(s, i, p)) = n
  BY <1>1, <1>4, <1>5, LenProperties
<1> QED
  BY <1>1, <1>5, <1>6 DEF PutAt
----------------------------------------------------------------------------
(* Giving up k numbers leaves the slots in line with seq_base + k. *)
LEMMA SkipFits ==
  ASSUME NEW t \in Tracks, NEW b \in Seqs, NEW s, NEW k \in Nat,
         Fits(t, b, s), b + k < SeqMod
  PROVE  Fits(t, b + k, DropFirst(s, k))
<1> DEFINE r == DropFirst(s, k)
<1>1. s \in Seq(Slot) /\ Len(s) \in Nat /\ b \in Nat /\ SeqMod \in Nat
  BY LenProperties, FilterAssumption DEF Fits, Seqs
<1>2. /\ r \in Seq(Slot)
      /\ Len(r) = IF k <= Len(s) THEN Len(s) - k ELSE 0
      /\ \A i \in 1 .. Len(r) : r[i] = s[i + k]
  BY <1>1, DropFirstFacts
<1>3. \A i \in 1 .. Len(r) : r[i] # Hole => r[i].track = t /\ r[i].seq = b + k + i - 1
  <2> TAKE i \in 1 .. Len(r)
  <2>1. i + k \in 1 .. Len(s) /\ r[i] = s[i + k]
    BY <1>1, <1>2
  <2> QED
    BY <1>1, <2>1 DEF Fits
<1>4. b + k + Len(r) <= SeqMod
  <2>1. b + Len(s) <= SeqMod
    BY DEF Fits
  <2>2. CASE k <= Len(s)
    <3>1. Len(r) = Len(s) - k
      BY <1>2, <2>2
    <3> HIDE DEF r
    <3> QED
      BY <1>1, <2>1, <3>1
  <2>3. CASE ~(k <= Len(s))
    <3>1. Len(r) = 0
      BY <1>2, <2>3
    <3> HIDE DEF r
    <3> QED
      BY <1>1, <3>1
  <2> QED
    BY <2>2, <2>3
<1>5. r # <<>> => r[Len(r)] # Hole
  <2> SUFFICES ASSUME r # <<>> PROVE r[Len(r)] # Hole
    OBVIOUS
  <2>1. Len(r) \in Nat \ {0}
    BY <1>2, EmptySeq
  <2>2. r[Len(r)] = s[Len(s)] /\ s # <<>>
    BY <1>1, <1>2, <2>1
  <2> QED
    BY <2>2 DEF Fits
<1> QED
  BY <1>2, <1>3, <1>4, <1>5 DEF Fits

(* ++seq_base with a pop_front: the number wraps only on the last slot. *)
LEMMA PopFits ==
  ASSUME NEW t \in Tracks, NEW b \in Seqs, NEW s, Fits(t, b, s)
  PROVE  Succ(b) \in Seqs /\ Fits(t, Succ(b), DropFirst(s, 1))
<1>1. s \in Seq(Slot) /\ Len(s) \in Nat /\ b \in Nat /\ SeqMod \in Nat \ {0}
  BY LenProperties, FilterAssumption DEF Fits, Seqs
<1>2. CASE b + 1 < SeqMod
  <2>1. Succ(b) = b + 1
    BY <1>1, <1>2 DEF Succ
  <2> QED
    BY <1>1, <1>2, <2>1, SkipFits DEF Seqs
<1>3. CASE ~(b + 1 < SeqMod)
  <2>1. b + 1 = SeqMod
    BY <1>1, <1>3 DEF Seqs
  <2>2. Succ(b) = 0
    BY <1>1, <2>1 DEF Succ
  <2>3. Len(s) <= 1
    BY <1>1, <2>1 DEF Fits
  <2>4. DropFirst(s, 1) \in Seq(Slot) /\ Len(DropFirst(s, 1)) = 0
    BY <1>1, <2>3, DropFirstFacts
  <2>5. DropFirst(s, 1) = <<>>
    BY <2>4, EmptySeq
  <2> QED
    BY <1>1, <2>2, <2>4, <2>5 DEF Fits, Seqs
<1> QED
  BY <1>2, <1>3

(* Storing a packet in the slot of its number keeps the deque in line. *)
LEMMA PutFits ==
  ASSUME NEW t \in Tracks, NEW b \in Seqs, NEW s, NEW i \in Nat, NEW p \in Packet,
         Fits(t, b, s), p.track = t, p.seq = b + i
  PROVE  Fits(t, b, PutAt(s, i, p)) /\ PutAt(s, i, p) # <<>>
<1> DEFINE r == PutAt(s, i, p)
<1>1. s \in Seq(Slot) /\ Len(s) \in Nat /\ b \in Nat /\ SeqMod \in Nat
  BY LenProperties, FilterAssumption DEF Fits, Seqs
<1>2. p \in Slot /\ p # Hole /\ p.seq < SeqMod
  BY <1>1, FilterAssumption DEF Slot, Packet, Seqs
<1>3. /\ r \in Seq(Slot)
      /\ Len(r) = IF Len(s) <= i THEN i + 1 ELSE Len(s)
      /\ \A j \in 1 .. Len(r) :
           r[j] = IF j = i + 1 THEN p ELSE IF j <= Len(s) THEN s[j] ELSE Hole
  BY <1>1, <1>2, PutAtFacts
<1> HIDE DEF r
<1>4. Len(r) \in Nat \ {0} /\ r # <<>>
  BY <1>1, <1>3, EmptySeq
<1>5. \A j \in 1 .. Len(r) : r[j] # Hole => r[j].track = t /\ r[j].seq = b + j - 1
  <2> SUFFICES ASSUME NEW j \in 1 .. Len(r), r[j] # Hole
               PROVE  r[j].track = t /\ r[j].seq = b + j - 1
    OBVIOUS
  <2>1. CASE j = i + 1
    BY <1>1, <1>3, <2>1
  <2>2. CASE j # i + 1
    <3>1. j \in 1 .. Len(s) /\ r[j] = s[j]
      BY <1>1, <1>3, <2>2
    <3> QED
      BY <3>1 DEF Fits
  <2> QED
    BY <2>1, <2>2
<1>6. b + Len(r) <= SeqMod
  BY <1>1, <1>2, <1>3 DEF Fits
<1>7. r[Len(r)] # Hole
  <2>1. CASE Len(s) <= i
    BY <1>1, <1>2, <1>3, <1>4, <2>1
  <2>2. CASE ~(Len(s) <= i)
    <3>1. Len(r) = Len(s) /\ s # <<>> /\ Len(s) \in 1 .. Len(r)
      BY <1>1, <1>3, <2>2
    <3>2. r[Len(r)] = IF Len(r) = i + 1 THEN p ELSE s[Len(s)]
      BY <1>1, <1>3, <3>1
    <3> QED
      BY <1>2, <3>1, <3>2 DEF Fits
  <2> QED
    BY <2>1, <2>2
<1> QED
  BY <1>3, <1>4, <1>5, <1>6, <1>7 DEF Fits, r

(* The head of a ready deque is the packet seq_base stands for. *)
LEMMA HeadFits ==
  ASSUME NEW t \in Tracks, NEW b \in Seqs, NEW s, Fits(t, b, s), s # <<>>
  PROVE  /\ Head(s) \in Slot
         /\ Tail(s) = DropFirst(s, 1)
         /\ Head(s) # Hole => Head(s).track = t /\ Head(s).seq = b
<1>1. s \in Seq(Slot) /\ Len(s) \in Nat \ {0} /\ b \in Nat
  BY EmptySeq DEF Fits, Seqs
<1>2. Head(s) = s[1] /\ 1 \in 1 .. Len(s)
  BY <1>1
<1>3. Head(s) \in Slot
  BY <1>1, <1>2, ElementOfSeq
<1>4. Tail(s) = DropFirst(s, 1)
  BY <1>1 DEF DropFirst
<1>5. Head(s) # Hole => Head(s).track = t /\ Head(s).seq = b
  BY <1>1, <1>2 DEF Fits
<1> QED
  BY <1>3, <1>4, <1>5

----------------------------------------------------------------------------
LEMMA IInvFits ==
  ASSUME TypeOK, Aligned, OneLap, NEW t \in Tracks
  PROVE  seqBase[t] \in Seqs /\ Fits(t, seqBase[t], samples[t])
BY DEF TypeOK, Aligned, OneLap, Fits

(* Changing one session to one that fits. *)
LEMMA OneSession ==
  ASSUME TypeOK, Aligned, OneLap,
         NEW t \in Tracks, NEW b \in Seqs, NEW s, Fits(t, b, s),
         seqBase' = [seqBase EXCEPT ![t] = b],
         samples' = [samples EXCEPT ![t] = s]
  PROVE  /\ seqBase' \in [Tracks -> Seqs]
         /\ samples' \in [Tracks -> Seq(Slot)]
         /\ Aligned' /\ OneLap'
<1>1. \A u \in Tracks : Fits(u, seqBase[u], samples[u])
  BY IInvFits
<1>2. seqBase' \in [Tracks -> Seqs] /\ samples' \in [Tracks -> Seq(Slot)]
  BY DEF TypeOK, Fits
<1>3. \A u \in Tracks : Fits(u, seqBase'[u], samples'[u])
  BY <1>1 DEF TypeOK
<1>4. Aligned' /\ OneLap'
  BY <1>3 DEF Aligned, OneLap, Fits
<1> QED
  BY <1>2, <1>4

----------------------------------------------------------------------------
LEMMA InitIInv == Init => IInv
<1> SUFFICES ASSUME Init PROVE IInv
  OBVIOUS
<1>1. \A t \in Tracks : Base[t] % SeqMod \in Seqs
  BY FilterAssumption DEF Seqs
<1>2. TypeOK
  BY <1>1, EmptySeq DEF Init, TypeOK, Slot
<1>3. Aligned
  BY DEF Init, Aligned
<1>4. OneLap
  <2> SUFFICES ASSUME NEW t \in Tracks
               PROVE  /\ seqBase[t] + Len(samples[t]) <= SeqMod
                      /\ samples[t] = <<>>
    BY DEF OneLap
  <2>1. samples[t] = <<>> /\ Len(samples[t]) = 0 /\ seqBase[t] \in Seqs
    BY <1>1 DEF Init
  <2> QED
    BY <2>1, FilterAssumption DEF Seqs
<1>5. DrainFirst
  BY DEF Init, DrainFirst, IsReady
<1> QED
  BY <1>2, <1>3, <1>4, <1>5 DEF IInv

(* What PopReady does, in terms of Fits. *)
LEMMA PopReadyFacts ==
  ASSUME TypeOK, Aligned, OneLap, PopReady
  PROVE  /\ ready \in Tracks
         /\ Succ(seqBase[ready]) \in Seqs
         /\ Fits(ready, Succ(seqBase[ready]), Tail(samples[ready]))
         /\ Head(samples[ready]) \in Slot
         /\ samples' = [samples EXCEPT ![ready] = Tail(samples[ready])]
         /\ seqBase' = [seqBase EXCEPT ![ready] = Succ(seqBase[ready])]
<1>1. ready \in Tracks /\ samples[ready] # <<>>
  BY DEF PopReady, TypeOK
<1>2. seqBase[ready] \in Seqs /\ Fits(ready, seqBase[ready], samples[ready])
  BY <1>1, IInvFits
<1>3. /\ Head(samples[ready]) \in Slot
      /\ Tail(samples[ready]) = DropFirst(samples[ready], 1)
  BY <1>1, <1>2, HeadFits
<1>4. /\ Succ(seqBase[ready]) \in Seqs
      /\ Fits(ready, Succ(seqBase[ready]), Tail(samples[ready]))
  BY <1>1, <1>2, <1>3, PopFits
<1> QED
  BY <1>1, <1>3, <1>4 DEF PopReady

(* What FetchUnordered does to the session: b and s after skipping k. *)
LEMMA SkipAndPutFacts ==
  ASSUME TypeOK, Aligned, OneLap, NEW p \in Packet,
         NEW k \in 0 .. (p.seq - seqBase[p.track]),
         p.seq - seqBase[p.track] > 0
  PROVE  LET t == p.track
             d == p.seq - seqBase[t]
             b == seqBase[t] + k
             s == PutAt(DropFirst(samples[t], k), d - k, p)
         IN  /\ t \in Tracks
             /\ b \in Seqs
             /\ Fits(t, b, s)
             /\ s # <<>>
<1> DEFINE t == p.track
           d == p.seq - seqBase[t]
           b == seqBase[t] + k
           r == DropFirst(samples[t], k)
<1>1. t \in Tracks /\ p.seq \in Seqs
  BY DEF Packet
<1>2. seqBase[t] \in Seqs /\ Fits(t, seqBase[t], samples[t])
  BY <1>1, IInvFits
<1>3. /\ seqBase[t] \in Nat /\ p.seq \in Nat /\ p.seq < SeqMod /\ SeqMod \in Nat
      /\ d \in Nat /\ k \in Nat /\ k <= d
  BY <1>1, <1>2, FilterAssumption DEF Seqs
<1>4. b < SeqMod /\ b \in Seqs /\ d - k \in Nat /\ p.seq = b + (d - k)
  BY <1>3 DEF Seqs
<1>5. Fits(t, b, r)
  BY <1>1, <1>2, <1>3, <1>4, SkipFits
<1> HIDE DEF b, d, r
<1>6. Fits(t, b, PutAt(r, d - k, p)) /\ PutAt(r, d - k, p) # <<>>
  BY <1>1, <1>4, <1>5, PutFits
<1> QED
  BY <1>1, <1>4, <1>6 DEF b, d, r

----------------------------------------------------------------------------
(* One step per action.  The ready pointer needs DrainFirst: the sessions  *)
(* an action leaves alone are not ready, because it was the pointed one.   *)
LEMMA PopReadyIInv == IInv /\ PopReady => IInv'
<1> SUFFICES ASSUME TypeOK, Aligned, OneLap, DrainFirst, PopReady PROVE IInv'
  BY DEF IInv
<1>1. /\ ready \in Tracks
      /\ Succ(seqBase[ready]) \in Seqs
      /\ Fits(ready, Succ(seqBase[ready]), Tail(samples[ready]))
      /\ Head(samples[ready]) \in Slot
      /\ samples' = [samples EXCEPT ![ready] = Tail(samples[ready])]
      /\ seqBase' = [seqBase EXCEPT ![ready] = Succ(seqBase[ready])]
  BY PopReadyFacts
<1>2. /\ seqBase' \in [Tracks -> Seqs] /\ samples' \in [Tracks -> Seq(Slot)]
      /\ Aligned' /\ OneLap'
  BY <1>1, OneSession
<1>3. TypeOK'
  BY <1>1, <1>2 DEF PopReady, Returns, TypeOK
<1>4. samples'[ready] = Tail(samples[ready])
      /\ \A t \in Tracks \ {ready} : samples'[t] = samples[t]
  BY <1>1 DEF TypeOK
<1>5. ready' = IF IsReady(samples'[ready]) THEN ready ELSE NoTrack
  BY <1>4 DEF PopReady
<1>6. DrainFirst'
  BY <1>1, <1>4, <1>5 DEF DrainFirst
<1> QED
  BY <1>2, <1>3, <1>6 DEF IInv

(* An iteration that changes session t to b and s and notes whether it is  *)
(* ready afterwards.                                                       *)
LEMMA FetchedIInv ==
  ASSUME TypeOK, Aligned, OneLap, DrainFirst, ready = NoTrack,
         NEW t \in Tracks, NEW b \in Seqs, NEW s, Fits(t, b, s),
         seqBase' = [seqBase EXCEPT ![t] = b],
         samples' = [samples EXCEPT ![t] = s],
         NoteReady(t, s), out' \in [pkt : Slot, disc : BOOLEAN]
  PROVE  IInv'
<1>1. /\ seqBase' \in [Tracks -> Seqs] /\ samples' \in [Tracks -> Seq(Slot)]
      /\ Aligned' /\ OneLap'
  BY OneSession
<1>2. TypeOK'
  BY <1>1 DEF NoteReady, TypeOK
<1>3. samples'[t] = s /\ \A u \in Tracks \ {t} : samples'[u] = samples[u]
  BY DEF TypeOK
<1>4. \A u \in Tracks : ~IsReady(samples[u])
  BY FilterAssumption DEF DrainFirst
<1>5. DrainFirst'
  BY <1>3, <1>4 DEF DrainFirst, NoteReady
<1> QED
  BY <1>1, <1>2, <1>5 DEF IInv

LEMMA FetchInOrderIInv == IInv /\ (\E p \in Packet : FetchInOrder(p)) => IInv'
<1> SUFFICES ASSUME TypeOK, Aligned, OneLap, DrainFirst,
                    NEW p \in Packet, FetchInOrder(p)
             PROVE  IInv'
  BY DEF IInv
<1> DEFINE t == p.track
           s == DropFirst(samples[t], 1)
<1>1. t \in Tracks /\ p \in Slot
  BY DEF Packet, Slot
<1>2. seqBase[t] \in Seqs /\ Fits(t, seqBase[t], samples[t])
  BY <1>1, IInvFits
<1>3. Succ(seqBase[t]) \in Seqs /\ Fits(t, Succ(seqBase[t]), s)
  BY <1>1, <1>2, PopFits
<1>4. /\ ready = NoTrack
      /\ seqBase' = [seqBase EXCEPT ![t] = Succ(seqBase[t])]
      /\ samples' = [samples EXCEPT ![t] = s]
      /\ NoteReady(t, s)
      /\ out' \in [pkt : Slot, disc : BOOLEAN]
  BY <1>1 DEF FetchInOrder, Returns
<1> HIDE DEF s, t
<1> QED
  BY <1>1, <1>3, <1>4, FetchedIInv

LEMMA FetchLateIInv == IInv /\ (\E p \in Packet : FetchLate(p)) => IInv'
<1> SUFFICES ASSUME TypeOK, Aligned, OneLap, DrainFirst,
                    NEW p \in Packet, FetchLate(p)
             PROVE  IInv'
  BY DEF IInv
<1> DEFINE t == p.track
<1>1. t \in Tracks /\ p \in Slot
  BY DEF Packet, Slot
<1>2. seqBase[t] \in Seqs /\ Fits(t, seqBase[t], samples[t])
  BY <1>1, IInvFits
<1>3. /\ ready = NoTrack
      /\ seqBase' = [seqBase EXCEPT ![t] = seqBase[t]]
      /\ samples' = [samples EXCEPT ![t] = samples[t]]
      /\ NoteReady(t, samples[t])
      /\ out' \in [pkt : Slot, disc : BOOLEAN]
  BY <1>1 DEF FetchLate, Returns, TypeOK
<1> HIDE DEF t
<1> QED
  BY <1>1, <1>2, <1>3, FetchedIInv

LEMMA FetchUnorderedIInv == IInv /\ (\E p \in Packet : FetchUnordered(p)) => IInv'
<1> SUFFICES ASSUME TypeOK, Aligned, OneLap, DrainFirst,
                    NEW p \in Packet, FetchUnordered(p)
             PROVE  IInv'
  BY DEF IInv
<1> DEFINE t == p.track
           d == p.seq - seqBase[t]
           b(k) == seqBase[t] + k
           s(k) == PutAt(DropFirst(samples[t], k), d - k, p)
<1>1. PICK k \in 0 .. d :
        \/ /\ IsReady(s(k))
           /\ Returns(Head(s(k)), TRUE)
           /\ seqBase' = [seqBase EXCEPT ![t] = Succ(b(k))]
           /\ samples' = [samples EXCEPT ![t] = Tail(s(k))]
           /\ NoteReady(t, Tail(s(k)))
        \/ /\ ~IsReady(s(k))
           /\ Returns(Hole, FALSE)
           /\ seqBase' = [seqBase EXCEPT ![t] = b(k)]
           /\ samples' = [samples EXCEPT ![t] = s(k)]
           /\ UNCHANGED ready
  BY DEF FetchUnordered
<1>2. ready = NoTrack /\ d > 0
  BY DEF FetchUnordered
<1>3. t \in Tracks /\ b(k) \in Seqs /\ Fits(t, b(k), s(k)) /\ s(k) # <<>>
  BY <1>2, SkipAndPutFacts
<1> HIDE DEF t, d, b, s
<1>4. CASE /\ IsReady(s(k))
           /\ Returns(Head(s(k)), TRUE)
           /\ seqBase' = [seqBase EXCEPT ![t] = Succ(b(k))]
           /\ samples' = [samples EXCEPT ![t] = Tail(s(k))]
           /\ NoteReady(t, Tail(s(k)))
  <2>1. Head(s(k)) \in Slot /\ Tail(s(k)) = DropFirst(s(k), 1)
    BY <1>3, HeadFits
  <2>2. Succ(b(k)) \in Seqs /\ Fits(t, Succ(b(k)), Tail(s(k)))
    BY <1>3, <2>1, PopFits
  <2>3. out' \in [pkt : Slot, disc : BOOLEAN]
    BY <1>4, <2>1 DEF Returns
  <2> QED
    BY <1>2, <1>3, <1>4, <2>2, <2>3, FetchedIInv
<1>5. CASE /\ ~IsReady(s(k))
           /\ Returns(Hole, FALSE)
           /\ seqBase' = [seqBase EXCEPT ![t] = b(k)]
           /\ samples' = [samples EXCEPT ![t] = s(k)]
           /\ UNCHANGED ready
  <2>1. NoteReady(t, s(k)) /\ out' \in [pkt : Slot, disc : BOOLEAN]
    BY <1>2, <1>5 DEF NoteReady, Returns, Slot
  <2> QED
    BY <1>2, <1>3, <1>5, <2>1, FetchedIInv
<1> QED
  BY <1>1, <1>4, <1>5

LEMMA FetchNothingIInv == IInv /\ FetchNothing => IInv'
<1> SUFFICES ASSUME IInv, FetchNothing PROVE IInv'
  OBVIOUS
<1>1. UNCHANGED <<seqBase, samples, ready>> /\ out' \in [pkt : Slot, disc : BOOLEAN]
  BY DEF FetchNothing, Returns, Slot
<1> QED
  BY <1>1 DEF IInv, TypeOK, Aligned, OneLap, DrainFirst, Undefined

LEMMA BeforeSeekIInv == IInv /\ BeforeSeek => IInv'
<1> SUFFICES ASSUME IInv, BeforeSeek PROVE IInv'
  OBVIOUS
<1>1. /\ UNCHANGED <<seqBase, ready>>
      /\ out' \in [pkt : Slot, disc : BOOLEAN]
      /\ samples' = [t \in Tracks |-> <<>>]
  BY DEF BeforeSeek, Returns, Slot
<1>2. TypeOK'
  BY <1>1, EmptySeq DEF IInv, TypeOK
<1>3. Aligned'
  BY <1>1 DEF Aligned
<1>4. OneLap'
  <2> SUFFICES ASSUME NEW t \in Tracks
               PROVE  seqBase'[t] + Len(samples'[t]) <= SeqMod /\ samples'[t] = <<>>
    BY DEF OneLap
  <2>1. samples'[t] = <<>> /\ Len(samples'[t]) = 0 /\ seqBase'[t] \in Seqs
    BY <1>1 DEF IInv, TypeOK
  <2> QED
    BY <2>1, FilterAssumption DEF Seqs
<1>5. DrainFirst'
  <2>1. ready' # NoTrack => ready' \in Tracks
    BY <1>2 DEF TypeOK
  <2> QED
    BY <1>1, <2>1 DEF DrainFirst, Undefined, IsReady
<1> QED
  BY <1>2, <1>3, <1>4, <1>5 DEF IInv

(* The invariant is inductive. *)
LEMMA StepIInv == IInv /\ [Next]_vars => IInv'
<1>1. IInv /\ UNCHANGED vars => IInv'
  BY DEF vars, IInv, TypeOK, Aligned, OneLap, DrainFirst, Undefined
<1> QED
  BY <1>1, PopReadyIInv, FetchInOrderIInv, FetchLateIInv, FetchUnorderedIInv,
     FetchNothingIInv, BeforeSeekIInv DEF Next

(* The model keeps its types: no step indexes or narrows out of range. *)
THEOREM TypeCorrect == Spec => []TypeOK
<1>1. IInv => TypeOK
  BY DEF IInv
<1> QED
  BY <1>1, InitIInv, StepIInv, PTL DEF Spec

LEMMA Invariance == Spec => []IInv
BY InitIInv, StepIInv, PTL DEF Spec

(* Every stored packet is in the slot of its own sequence number, whatever *)
(* packets come (src/RtpFilter.cpp:74, 94, 106, 117).                      *)
THEOREM AlwaysAligned == Spec => []Aligned
<1>1. IInv => Aligned
  BY DEF IInv
<1> QED
  BY <1>1, Invariance, PTL

(* A deque never reaches past the last sequence number and never ends in   *)
(* an empty slot (src/RtpFilter.cpp:110).                                  *)
THEOREM AlwaysOneLap == Spec => []OneLap
<1>1. IInv => OneLap
  BY DEF IInv
<1> QED
  BY <1>1, Invariance, PTL

(* Nothing is read from the network while a session could deliver, and     *)
(* ready_session_ always points to that session (src/RtpFilter.cpp:71).    *)
THEOREM AlwaysDrainFirst == Spec => []DrainFirst
<1>1. IInv => DrainFirst
  BY DEF IInv
<1> QED
  BY <1>1, Invariance, PTL

----------------------------------------------------------------------------
(* What is handed over. *)
LEMMA ReturnsStep ==
  ASSUME IInv, Next, out'.pkt # Hole
  PROVE  LET t == out'.pkt.track
         IN  \/ seqBase'[t] = Succ(out'.pkt.seq)
             \/ out'.pkt.seq < seqBase[t] /\ UNCHANGED <<seqBase, samples>>
<1>1. TypeOK /\ Aligned /\ OneLap
  BY DEF IInv
<1>2. CASE PopReady
  <2>1. ready \in Tracks /\ samples[ready] # <<>>
    BY <1>1, <1>2 DEF PopReady, TypeOK
  <2>2. seqBase[ready] \in Seqs /\ Fits(ready, seqBase[ready], samples[ready])
    BY <1>1, <2>1, IInvFits
  <2>3. out'.pkt = Head(samples[ready])
    BY <1>2 DEF PopReady, Returns
  <2>4. out'.pkt.track = ready /\ out'.pkt.seq = seqBase[ready]
    BY <2>1, <2>2, <2>3, HeadFits
  <2> QED
    BY <1>1, <1>2, <2>1, <2>4 DEF PopReady, TypeOK
<1>3. CASE \E p \in Packet : FetchInOrder(p)
  <2>1. PICK p \in Packet : FetchInOrder(p)
    BY <1>3
  <2> QED
    BY <1>1, <2>1 DEF FetchInOrder, Returns, TypeOK, Packet
<1>4. CASE \E p \in Packet : FetchLate(p)
  BY <1>4 DEF FetchLate, Returns
<1>5. CASE \E p \in Packet : FetchUnordered(p)
  <2>1. PICK p \in Packet : FetchUnordered(p)
    BY <1>5
  <2> DEFINE t == p.track
             d == p.seq - seqBase[t]
             b(k) == seqBase[t] + k
             s(k) == PutAt(DropFirst(samples[t], k), d - k, p)
  <2>2. PICK k \in 0 .. d : /\ IsReady(s(k))
                            /\ Returns(Head(s(k)), TRUE)
                            /\ seqBase' = [seqBase EXCEPT ![t] = Succ(b(k))]
    BY <2>1 DEF FetchUnordered, Returns
  <2>3. t \in Tracks /\ b(k) \in Seqs /\ Fits(t, b(k), s(k)) /\ s(k) # <<>>
    BY <1>1, <2>1, SkipAndPutFacts DEF FetchUnordered
  <2> HIDE DEF t, d, b, s
  <2>4. out'.pkt = Head(s(k))
    BY <2>2 DEF Returns
  <2>5. out'.pkt.track = t /\ out'.pkt.seq = b(k)
    BY <2>3, <2>4, HeadFits
  <2> QED
    BY <1>1, <2>2, <2>3, <2>5 DEF TypeOK
<1>6. CASE FetchNothing \/ BeforeSeek
  BY <1>6 DEF FetchNothing, BeforeSeek, Returns
<1> QED
  BY <1>2, <1>3, <1>4, <1>5, <1>6 DEF Next

(* get_sample2 returns the packet with the required number, or one from    *)
(* behind seq_base that moves nothing (src/RtpFilter.cpp:73, 91, 96, 114). *)
THEOREM AlwaysReturnsRequiredOrLate == Spec => ReturnsRequiredOrLate
<1> DEFINE A == out'.pkt # Hole =>
        LET t == out'.pkt.track
        IN  \/ seqBase'[t] = Succ(out'.pkt.seq)
            \/ out'.pkt.seq < seqBase[t] /\ UNCHANGED <<seqBase, samples>>
<1>1. IInv /\ [Next]_vars => [A]_vars
  BY ReturnsStep
<1>2. Spec => [][A]_vars
  BY <1>1, Invariance, PTL DEF Spec
<1> QED
  BY <1>2 DEF ReturnsRequiredOrLate

(* Only a before_seek makes front() undefined (src/RtpFilter.cpp:163). *)
THEOREM AlwaysUndefinedOnlyBySeek == Spec => UndefinedOnlyBySeek
<1> DEFINE A == Undefined' /\ ~Undefined => BeforeSeek /\ IsReady(samples[ready])
<1>1. IInv /\ [Next]_vars => [A]_vars
  <2> SUFFICES ASSUME IInv, Next, Undefined', ~Undefined
               PROVE  BeforeSeek /\ IsReady(samples[ready])
    OBVIOUS
  <2>1. ready' # NoTrack /\ ~IsReady(samples'[ready'])
    BY DEF Undefined, IsReady
  <2>2. TypeOK /\ DrainFirst
    BY DEF IInv
  <2>3. CASE PopReady
    <3>1. ready \in Tracks /\ samples'[ready] = Tail(samples[ready])
      BY <2>2, <2>3 DEF PopReady, TypeOK
    <3> QED
      BY <2>1, <2>3, <3>1 DEF PopReady
  <2>4. CASE \E p \in Packet : FetchInOrder(p)
    <3>1. PICK p \in Packet : FetchInOrder(p)
      BY <2>4
    <3>2. p.track \in Tracks
      BY DEF Packet
    <3> QED
      BY <2>1, <2>2, <3>1, <3>2 DEF FetchInOrder, NoteReady, TypeOK
  <2>5. CASE \E p \in Packet : FetchLate(p)
    BY <2>1, <2>5 DEF FetchLate, NoteReady
  <2>6. CASE \E p \in Packet : FetchUnordered(p)
    <3>1. PICK p \in Packet : FetchUnordered(p)
      BY <2>6
    <3>2. p.track \in Tracks
      BY DEF Packet
    <3> QED
      BY <2>1, <2>2, <3>1, <3>2 DEF FetchUnordered, NoteReady, TypeOK
  <2>7. CASE FetchNothing
    BY <2>1, <2>7 DEF FetchNothing
  <2>8. CASE BeforeSeek
    BY <2>1, <2>2, <2>8 DEF BeforeSeek, DrainFirst
  <2> QED
    BY <2>3, <2>4, <2>5, <2>6, <2>7, <2>8 DEF Next
<1>2. Spec => [][A]_vars
  BY <1>1, Invariance, PTL DEF Spec
<1> QED
  BY <1>2 DEF UndefinedOnlyBySeek

----------------------------------------------------------------------------
(* Nothing stored is thrown away. *)
LEMMA HeldSlot ==
  ASSUME TypeOK, NEW t \in Tracks, NEW p
  PROVE  p \in Held(t) <=> p # Hole /\ \E i \in 1 .. Len(samples[t]) : samples[t][i] = p
<1>1. samples[t] \in Seq(Slot)
  BY DEF TypeOK
<1>2. DOMAIN samples[t] = 1 .. Len(samples[t])
  BY <1>1, LenProperties
<1> QED
  BY <1>2 DEF Held

LEMMA TailSlot ==
  ASSUME NEW s \in Seq(Slot), NEW i \in 1 .. Len(s), i # 1
  PROVE  i - 1 \in 1 .. Len(Tail(s)) /\ Tail(s)[i - 1] = s[i]
<1>1. Len(s) \in Nat \ {0} /\ s # <<>>
  BY LenProperties, EmptySeq
<1>2. Tail(s) = DropFirst(s, 1)
  BY <1>1 DEF DropFirst
<1>3. /\ Len(Tail(s)) = Len(s) - 1
      /\ \A j \in 1 .. Len(Tail(s)) : Tail(s)[j] = s[j + 1]
  BY <1>1, <1>2, DropFirstFacts
<1> QED
  BY <1>1, <1>3

(* A packet survives the numbers given up before it: were it among them,   *)
(* the loop would have stopped there.                                      *)
LEMMA SkipKeeps ==
  ASSUME NEW s \in Seq(Slot), NEW d \in Nat, NEW k \in 0 .. d, Skips(s, d, k), d > 0,
         NEW i \in 1 .. Len(s), s[i] # Hole
  PROVE  /\ k < d
         /\ i - k \in 1 .. Len(DropFirst(s, k))
         /\ DropFirst(s, k)[i - k] = s[i]
<1>1. Len(s) \in Nat /\ Window \in Nat \ {0}
  BY LenProperties, FilterAssumption
<1>2. \A j \in 0 .. k - 1 : ~(d - j <= Window) /\ ~IsReady(DropFirst(s, j))
  BY DEF Skips, SkipStops
<1>3. k < d
  BY <1>1, <1>2
<1>4. i > k
  <2> SUFFICES ASSUME i <= k PROVE FALSE
    BY <1>1
  <2> DEFINE r == DropFirst(s, i - 1)
  <2>1. i - 1 \in 0 .. k - 1 /\ i - 1 \in Nat
    BY <1>1
  <2>2. r \in Seq(Slot) /\ Len(r) = Len(s) - (i - 1) /\ r[1] = s[i]
    <3>1. /\ r \in Seq(Slot)
          /\ Len(r) = IF i - 1 <= Len(s) THEN Len(s) - (i - 1) ELSE 0
          /\ \A j \in 1 .. Len(r) : r[j] = s[j + (i - 1)]
      BY <2>1, DropFirstFacts
    <3>2. i - 1 <= Len(s) /\ Len(s) - (i - 1) >= 1 /\ 1 + (i - 1) = i
      BY <1>1
    <3> HIDE DEF r
    <3> QED
      BY <1>1, <3>1, <3>2
  <2> HIDE DEF r
  <2>3. r # <<>> /\ Head(r) = r[1]
    BY <1>1, <2>2, EmptySeq
  <2>4. IsReady(r)
    BY <2>2, <2>3 DEF IsReady
  <2> QED
    BY <1>2, <2>1, <2>4 DEF r
<1>5. /\ Len(DropFirst(s, k)) = Len(s) - k
      /\ \A j \in 1 .. Len(DropFirst(s, k)) : DropFirst(s, k)[j] = s[j + k]
  BY <1>1, <1>4, DropFirstFacts
<1> QED
  BY <1>1, <1>3, <1>4, <1>5

(* A call of get_sample2: any step but a seek. *)
Called == PopReady \/ (\E p \in Packet : Fetch(p)) \/ FetchNothing

LEMMA CalledIsNext == Called => Next
  BY DEF Called, Fetch, Next

LEMMA KeepStep ==
  ASSUME IInv, Called, NEW u \in Tracks, NEW p \in Held(u)
  PROVE  \/ p \in Held(u)'
         \/ out'.pkt = p
         \/ \E q \in Held(u)' : q.seq = p.seq
<1>1. TypeOK /\ Aligned /\ OneLap /\ DrainFirst /\ TypeOK'
  BY StepIInv, CalledIsNext DEF IInv
<1>2. samples[u] \in Seq(Slot) /\ Len(samples[u]) \in Nat
  BY <1>1, LenProperties DEF TypeOK
<1>3. PICK i \in 1 .. Len(samples[u]) : samples[u][i] = p /\ p # Hole
  BY <1>1, HeldSlot
<1>4. ASSUME NEW j \in 1 .. Len(samples'[u]), samples'[u][j] = p PROVE p \in Held(u)'
  <2>1. samples'[u] \in Seq(Slot)
    BY <1>1 DEF TypeOK
  <2>2. DOMAIN samples'[u] = 1 .. Len(samples'[u])
    BY <2>1, LenProperties
  <2> QED
    BY <1>3, <1>4, <2>2 DEF Held
<1>5. CASE samples'[u] = samples[u]
  BY <1>3, <1>4, <1>5
<1>6. CASE PopReady /\ samples'[u] # samples[u]
  <2>1. u = ready /\ samples'[u] = Tail(samples[u]) /\ out'.pkt = Head(samples[u])
    BY <1>1, <1>6 DEF PopReady, Returns, TypeOK
  <2>2. CASE i = 1
    BY <1>2, <1>3, <2>1, <2>2
  <2>3. CASE i # 1
    <3>1. i - 1 \in 1 .. Len(samples'[u]) /\ samples'[u][i - 1] = p
      BY <1>2, <1>3, <2>1, <2>3, TailSlot
    <3> QED
      BY <1>4, <3>1
  <2> QED
    BY <2>2, <2>3
<1>7. CASE \E q \in Packet : FetchInOrder(q) /\ samples'[u] # samples[u]
  <2>1. PICK q \in Packet : FetchInOrder(q) /\ samples'[u] # samples[u]
    BY <1>7
  <2>2. samples'[u] = DropFirst(samples[u], 1) /\ ready = NoTrack
    BY <1>1, <2>1 DEF FetchInOrder, TypeOK
  <2>3. ~IsReady(samples[u])
    BY <1>1, <2>2, FilterAssumption DEF DrainFirst
  <2>4. samples[u] # <<>> /\ Head(samples[u]) = samples[u][1]
    BY <1>2, <1>3
  <2>5. i # 1
    BY <1>3, <2>3, <2>4 DEF IsReady
  <2>6. samples'[u] = Tail(samples[u])
    BY <1>2, <2>2, <2>4 DEF DropFirst
  <2>7. i - 1 \in 1 .. Len(samples'[u]) /\ samples'[u][i - 1] = p
    BY <1>2, <1>3, <2>5, <2>6, TailSlot
  <2> QED
    BY <1>4, <2>7
<1>8. CASE \E q \in Packet : FetchUnordered(q) /\ samples'[u] # samples[u]
  <2>1. PICK q \in Packet : FetchUnordered(q) /\ samples'[u] # samples[u]
    BY <1>8
  <2> DEFINE d == q.seq - seqBase[u]
             r(k) == DropFirst(samples[u], k)
             s(k) == PutAt(r(k), d - k, q)
  <2>2. u = q.track
    BY <1>1, <2>1 DEF FetchUnordered, TypeOK
  <2>3. PICK k \in 0 .. d :
          /\ Skips(samples[u], d, k)
          /\ \/ IsReady(s(k)) /\ Returns(Head(s(k)), TRUE) /\ samples'[u] = Tail(s(k))
             \/ ~IsReady(s(k)) /\ samples'[u] = s(k)
    BY <1>1, <2>1, <2>2 DEF FetchUnordered, TypeOK
  <2>4. /\ d \in Nat /\ d > 0 /\ d - k \in Nat /\ k \in Nat
        /\ q \in Slot /\ q # Hole
        /\ seqBase[u] \in Nat /\ q.seq \in Nat
    <3>1. q.seq \in Seqs /\ seqBase[u] \in Seqs /\ q \in Slot /\ q # Hole
      BY <1>1, FilterAssumption DEF TypeOK, Packet, Slot
    <3>2. q.seq \in Nat /\ seqBase[u] \in Nat
      BY <3>1, FilterAssumption DEF Seqs
    <3>3. d > 0
      BY <2>1, <2>2 DEF FetchUnordered
    <3> QED
      BY <3>1, <3>2, <3>3
  <2>5. /\ k < d
        /\ i - k \in 1 .. Len(r(k)) /\ r(k)[i - k] = p
    BY <1>2, <1>3, <2>3, <2>4, SkipKeeps
  <2>6. r(k) \in Seq(Slot) /\ Len(r(k)) \in Nat
    BY <1>2, <2>4, DropFirstFacts, LenProperties
  <2> HIDE DEF r
  <2>7. /\ s(k) \in Seq(Slot)
        /\ Len(s(k)) = IF Len(r(k)) <= d - k THEN d - k + 1 ELSE Len(r(k))
        /\ \A j \in 1 .. Len(s(k)) :
             s(k)[j] = IF j = d - k + 1 THEN q ELSE IF j <= Len(r(k)) THEN r(k)[j] ELSE Hole
    BY <2>4, <2>6, PutAtFacts
  <2> HIDE DEF s
  <2>8. PICK j \in 1 .. Len(s(k)) :
          IF i - k = d - k + 1 THEN j # 1 /\ s(k)[j] = q /\ q.seq = p.seq ELSE s(k)[j] = p
    <3>1. i - k \in 1 .. Len(s(k)) /\ d - k + 1 \in 1 .. Len(s(k)) /\ d - k + 1 # 1
      BY <2>4, <2>5, <2>6, <2>7
    <3>2. CASE i - k = d - k + 1
      <4>1. p.seq = seqBase[u] + i - 1
        BY <1>1, <1>3 DEF Aligned
      <4>2. q.seq = p.seq
        BY <1>3, <2>4, <3>2, <4>1
      <4> QED
        BY <2>4, <2>7, <3>1, <3>2, <4>2
    <3>3. CASE i - k # d - k + 1
      BY <2>5, <2>6, <2>7, <3>1, <3>3
    <3> QED
      BY <3>2, <3>3
  <2>9. Len(s(k)) \in Nat \ {0} /\ s(k) # <<>> /\ Head(s(k)) = s(k)[1]
    BY <2>7, <2>8, LenProperties
  <2>10. CASE IsReady(s(k)) /\ Returns(Head(s(k)), TRUE) /\ samples'[u] = Tail(s(k))
    <3>1. out'.pkt = s(k)[1]
      BY <2>9, <2>10 DEF Returns
    <3>2. CASE j = 1
      BY <2>8, <3>1, <3>2
    <3>3. CASE j # 1
      <4>1. j - 1 \in 1 .. Len(samples'[u]) /\ samples'[u][j - 1] = s(k)[j]
        BY <2>7, <2>10, <3>3, TailSlot
      <4>2. s(k)[j] # Hole => s(k)[j] \in Held(u)'
        BY <1>1, <4>1, LenProperties DEF Held, TypeOK
      <4> QED
        BY <1>3, <2>4, <2>8, <4>2
    <3> QED
      BY <3>2, <3>3
  <2>11. CASE ~IsReady(s(k)) /\ samples'[u] = s(k)
    <3>1. s(k)[j] # Hole => s(k)[j] \in Held(u)'
      BY <2>7, <2>11, LenProperties DEF Held
    <3> QED
      BY <1>3, <2>4, <2>8, <3>1
  <2> QED
    BY <2>3, <2>10, <2>11
<1> QED
  BY <1>5, <1>6, <1>7, <1>8 DEF Called, Fetch, FetchLate, FetchNothing

LEMMA DiscardStep ==
  ASSUME IInv, Next, NEW u \in Tracks, NEW p \in Held(u)
  PROVE  \/ p \in Held(u)'
         \/ out'.pkt = p
         \/ \E q \in Held(u)' : q.seq = p.seq
         \/ BeforeSeek
<1>1. Called \/ BeforeSeek
  BY DEF Next, Called, Fetch
<1> QED
  BY <1>1, KeepStep

(* A stored packet leaves only by being returned, replaced by one of the   *)
(* same number, or by a before_seek (src/RtpFilter.cpp:94, 106, 111, 117). *)
THEOREM AlwaysNothingDiscarded == Spec => NothingDiscarded
<1> DEFINE A == \A t \in Tracks : \A p \in Held(t) :
        \/ p \in Held(t)'
        \/ out'.pkt = p
        \/ \E q \in Held(t)' : q.seq = p.seq
        \/ BeforeSeek
<1>1. IInv /\ [Next]_vars => [A]_vars
  BY DiscardStep
<1>2. Spec => [][A]_vars
  BY <1>1, Invariance, PTL DEF Spec
<1> QED
  BY <1>2 DEF NothingDiscarded
=============================================================================
