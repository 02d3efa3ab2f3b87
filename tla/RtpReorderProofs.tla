-------------------------- MODULE RtpReorderProofs --------------------------
(***************************************************************************)
(* Proofs about RtpReorder, for every number of tracks and packets, every  *)
(* window and modulus.  What IInv of RtpFilterProofs says of the slots is  *)
(* tied here to the packets the network sent: first for any network, then  *)
(* for one whose sequence numbers do not wrap, and last for one that       *)
(* overtakes within the window, where the place of seq_base in the stream  *)
(* is known exactly.                                                       *)
(***************************************************************************)
EXTENDS RtpReorder, RtpFilterProofs, FiniteSetTheorems

(* Sequence numbers: what % does to a number that is counted on. *)
LEMMA DivideUnique ==
  ASSUME NEW m \in Nat \ {0}, NEW q1 \in Int, NEW q2 \in Int,
         NEW r1 \in 0 .. m - 1, NEW r2 \in 0 .. m - 1,
         m * q1 + r1 = m * q2 + r2
  PROVE  r1 = r2
<1>1. m * (q1 - q2) = r2 - r1
  OBVIOUS
<1>2. CASE q1 - q2 >= 1
  <2>1. m * (q1 - q2) >= m
    BY <1>2
  <2> QED
    BY <1>1, <2>1
<1>3. CASE q1 - q2 <= -1
  <2>1. m * (q1 - q2) <= -m
    BY <1>3
  <2> QED
    BY <1>1, <2>1
<1> QED
  BY <1>1, <1>2, <1>3

LEMMA Divide ==
  ASSUME NEW m \in Nat \ {0}, NEW a \in Int
  PROVE  a \div m \in Int /\ a % m \in 0 .. m - 1 /\ a = m * (a \div m) + (a % m)
  OBVIOUS

LEMMA ModPlus ==
  ASSUME NEW m \in Nat \ {0}, NEW a \in Nat, NEW i \in Nat, (a % m) + i < m
  PROVE  (a + i) % m = (a % m) + i
<1>1. /\ a \div m \in Int /\ a % m \in 0 .. m - 1 /\ a = m * (a \div m) + (a % m)
      /\ (a + i) \div m \in Int /\ (a + i) % m \in 0 .. m - 1
      /\ a + i = m * ((a + i) \div m) + ((a + i) % m)
  <2>1. a \in Int /\ a + i \in Int
    OBVIOUS
  <2> QED
    BY <2>1, Divide
<1>2. (a % m) + i \in 0 .. m - 1 /\ m * (a \div m) + ((a % m) + i) = m * ((a + i) \div m) + ((a + i) % m)
  BY <1>1
<1> QED
  BY <1>1, <1>2, DivideUnique

LEMMA ModNext ==
  ASSUME NEW m \in Nat \ {0}, NEW a \in Nat
  PROVE  ((a % m) + 1) % m = (a + 1) % m
<1>1. /\ a \div m \in Int /\ a % m \in 0 .. m - 1 /\ a = m * (a \div m) + (a % m)
      /\ (a + 1) \div m \in Int /\ (a + 1) % m \in 0 .. m - 1
      /\ a + 1 = m * ((a + 1) \div m) + ((a + 1) % m)
  BY Divide
<1>2. CASE (a % m) + 1 < m
  <2>1. (a + 1) % m = (a % m) + 1
    BY <1>2, ModPlus
  <2>2. ((a % m) + 1) % m = (a % m) + 1
    BY <1>1, <1>2
  <2> QED
    BY <2>1, <2>2
<1>3. CASE (a % m) + 1 = m
  <2>1. m * (a \div m + 1) + 0 = m * ((a + 1) \div m) + ((a + 1) % m)
    <3>1. m * (a \div m + 1) = m * (a \div m) + m
      BY <1>1
    <3> QED
      BY <1>1, <1>3, <3>1
  <2>2. 0 \in 0 .. m - 1 /\ a \div m + 1 \in Int
    BY <1>1
  <2>3. (a + 1) % m = 0
    BY <1>1, <2>1, <2>2, DivideUnique
  <2> QED
    BY <1>3, <2>3
<1> QED
  BY <1>1, <1>2, <1>3

LEMMA ModInjective ==
  ASSUME NEW m \in Nat \ {0}, NEW a \in Nat, NEW i \in 0 .. m - 1, NEW j \in 0 .. m - 1,
         (a + i) % m = (a + j) % m
  PROVE  i = j
<1>1. PICK p \in Int, q \in Int, r \in Int : a + i = m * p + r /\ a + j = m * q + r
  <2>1. a + i \in Int /\ a + j \in Int
    OBVIOUS
  <2>2. /\ (a + i) \div m \in Int /\ (a + i) % m \in Int
        /\ a + i = m * ((a + i) \div m) + ((a + i) % m)
    BY <2>1, Divide
  <2>3. (a + j) \div m \in Int /\ a + j = m * ((a + j) \div m) + ((a + i) % m)
    BY <2>1, Divide
  <2> QED
    BY <2>2, <2>3, Zenon
<1>2. m * (p - q) = i - j /\ m * (q - p) = j - i
  <2>1. m * (p - q) = m * p - m * q /\ m * (q - p) = m * q - m * p
    OBVIOUS
  <2>2. m * p \in Int /\ m * q \in Int
    OBVIOUS
  <2> QED
    BY <1>1, <2>1, <2>2
<1>3. m * 0 = 0 /\ 0 \in 0 .. m - 1 /\ p - q \in Int /\ q - p \in Int
  OBVIOUS
<1>4. CASE i >= j
  <2>1. i - j \in 0 .. m - 1
    BY <1>4
  <2>2. m * (p - q) + 0 = m * 0 + (i - j)
    BY <1>2, <1>3
  <2>3. i - j = 0
    BY <1>3, <2>1, <2>2, DivideUnique
  <2> QED
    BY <2>3
<1>5. CASE j >= i
  <2>1. j - i \in 0 .. m - 1
    BY <1>5
  <2>2. m * (q - p) + 0 = m * 0 + (j - i)
    BY <1>2, <1>3
  <2>3. j - i = 0
    BY <1>3, <2>1, <2>2, DivideUnique
  <2> QED
    BY <2>3
<1> QED
  BY <1>4, <1>5
----------------------------------------------------------------------------
(* What a call of get_sample2 that takes the packets P, one or none, from   *)
(* the socket does with packets: it makes none up, and keeps or returns the *)
(* one it took.                                                             *)
CallOf(P) ==
  \/ P = {} /\ (PopReady \/ FetchNothing)
  \/ \E p \in Packet : P = {p} /\ Fetch(p)

LEMMA CallIsNext ==
  ASSUME IInv, NEW P, CallOf(P)
  PROVE  Called /\ Next /\ IInv'
<1>1. Called
  BY DEF CallOf, Called
<1> QED
  BY <1>1, CalledIsNext, StepIInv

LEMMA HeldInSlot ==
  ASSUME TypeOK, NEW t \in Tracks, NEW i \in 1 .. Len(samples[t]), samples[t][i] # Hole
  PROVE  samples[t][i] \in Held(t)
  BY HeldSlot

LEMMA TailAt ==
  ASSUME NEW s \in Seq(Slot), s # <<>>
  PROVE  /\ Tail(s) \in Seq(Slot) /\ Len(Tail(s)) = Len(s) - 1 /\ Len(s) \in Nat \ {0}
         /\ \A i \in 1 .. Len(Tail(s)) : i + 1 \in 1 .. Len(s) /\ Tail(s)[i] = s[i + 1]
<1>1. Len(s) \in Nat \ {0}
  BY EmptySeq
<1>2. Tail(s) = DropFirst(s, 1)
  BY <1>1 DEF DropFirst
<1> QED
  BY <1>1, <1>2, DropFirstFacts

LEMMA PopOrigins ==
  ASSUME IInv, PopReady
  PROVE  /\ ready \in Tracks /\ samples'[ready] = Tail(samples[ready])
         /\ \A u \in Tracks \ {ready} : samples'[u] = samples[u]
         /\ samples[ready] # <<>> /\ out'.pkt = samples[ready][1] /\ out'.pkt # Hole
         /\ out'.pkt \in Held(ready)
         /\ \A u \in Tracks : Held(u)' \subseteq Held(u)
<1>1. TypeOK /\ DrainFirst /\ TypeOK'
  BY StepIInv DEF IInv, Next
<1>2. /\ ready \in Tracks /\ samples'[ready] = Tail(samples[ready]) /\ samples[ready] # <<>>
      /\ \A u \in Tracks \ {ready} : samples'[u] = samples[u]
      /\ out'.pkt = Head(samples[ready])
  BY <1>1 DEF PopReady, Returns, TypeOK
<1>3. samples[ready] \in Seq(Slot) /\ 1 \in 1 .. Len(samples[ready]) /\ Head(samples[ready]) = samples[ready][1]
  BY <1>1, <1>2 DEF TypeOK
<1>4. out'.pkt = samples[ready][1] /\ out'.pkt # Hole
  BY <1>1, <1>2, <1>3 DEF DrainFirst, Undefined, IsReady, PopReady
<1>5. out'.pkt \in Held(ready)
  BY <1>1, <1>2, <1>3, <1>4, HeldInSlot
<1>6. ASSUME NEW u \in Tracks, NEW p \in Held(u)' PROVE p \in Held(u)
  <2>1. PICK i \in 1 .. Len(samples'[u]) : samples'[u][i] = p /\ p # Hole
    <3>1. samples'[u] \in Seq(Slot)
      BY <1>1 DEF TypeOK
    <3>2. DOMAIN samples'[u] = 1 .. Len(samples'[u])
      BY <3>1, LenProperties
    <3> QED
      BY <1>6, <3>2 DEF Held
  <2>2. CASE u = ready
    <3>1. i + 1 \in 1 .. Len(samples[u]) /\ samples[u][i + 1] = p
      BY <1>2, <1>3, <2>1, <2>2, TailAt
    <3> QED
      BY <1>1, <2>1, <3>1, HeldSlot
  <2>3. CASE u # ready
    BY <1>1, <1>2, <2>1, <2>3, HeldSlot
  <2> QED
    BY <2>2, <2>3
<1> QED
  BY <1>2, <1>4, <1>5, <1>6

(* A packet d ahead of the one required, for which k numbers are given up:  *)
(* s is the deque with it, and what becomes of the session.                 *)
Stores(p, t, d, k, s) ==
  /\ ready = NoTrack /\ t \in Tracks /\ d \in Nat \ {0} /\ k \in 0 .. d
  /\ Skips(samples[t], d, k)
  /\ s \in Seq(Slot) /\ s # <<>> /\ Len(s) \in Nat
  /\ \A j \in 1 .. Len(s) :
       s[j] = IF j = d - k + 1 THEN p
              ELSE IF j + k \in 1 .. Len(samples[t]) THEN samples[t][j + k] ELSE Hole
  /\ d - k + 1 \in 1 .. Len(s) /\ Len(samples[t]) - k <= Len(s)

StoredReady(t, k, s) ==
  /\ IsReady(s)
  /\ Returns(Head(s), TRUE)
  /\ seqBase' = [seqBase EXCEPT ![t] = Succ(seqBase[t] + k)]
  /\ samples' = [samples EXCEPT ![t] = Tail(s)]
  /\ NoteReady(t, Tail(s))

StoredEarly(t, k, s) ==
  /\ ~IsReady(s)
  /\ Returns(Hole, FALSE)
  /\ seqBase' = [seqBase EXCEPT ![t] = seqBase[t] + k]
  /\ samples' = [samples EXCEPT ![t] = s]
  /\ UNCHANGED ready

LEMMA StoresFacts ==
  ASSUME NEW p, NEW t, NEW d, NEW k, NEW s, Stores(p, t, d, k, s)
  PROVE  /\ ready = NoTrack /\ t \in Tracks /\ d \in Nat \ {0} /\ k \in 0 .. d
         /\ Skips(samples[t], d, k)
         /\ s \in Seq(Slot) /\ s # <<>> /\ Len(s) \in Nat
         /\ \A j \in 1 .. Len(s) :
              s[j] = IF j = d - k + 1 THEN p
                     ELSE IF j + k \in 1 .. Len(samples[t]) THEN samples[t][j + k] ELSE Hole
         /\ d - k + 1 \in 1 .. Len(s) /\ Len(samples[t]) - k <= Len(s)
  BY DEF Stores

LEMMA UnorderedSlots ==
  ASSUME IInv, NEW p \in Packet, FetchUnordered(p)
  PROVE  \E k, s : /\ Stores(p, p.track, p.seq - seqBase[p.track], k, s)
                   /\ StoredReady(p.track, k, s) \/ StoredEarly(p.track, k, s)
<1> DEFINE t == p.track
           d == p.seq - seqBase[t]
           r(k) == DropFirst(samples[t], k)
           s(k) == PutAt(r(k), d - k, p)
<1>1. t \in Tracks /\ p \in Slot /\ p.seq \in Nat
  BY FilterAssumption DEF Packet, Slot, Seqs
<1>2. seqBase[t] \in Nat /\ samples[t] \in Seq(Slot) /\ Len(samples[t]) \in Nat
  BY <1>1, FilterAssumption DEF IInv, TypeOK, Seqs
<1>3. ready = NoTrack /\ d > 0
  BY DEF FetchUnordered
<1>4. d \in Nat \ {0}
  BY <1>1, <1>2, <1>3
<1>5. PICK k \in 0 .. d : Skips(samples[t], d, k) /\ (StoredReady(t, k, s(k)) \/ StoredEarly(t, k, s(k)))
  BY DEF FetchUnordered, StoredReady, StoredEarly
<1> HIDE DEF d, t
<1>6. k \in Nat /\ d - k \in Nat
  BY <1>4, <1>5
<1>7. /\ r(k) \in Seq(Slot) /\ Len(r(k)) \in Nat
      /\ Len(r(k)) = IF k <= Len(samples[t]) THEN Len(samples[t]) - k ELSE 0
      /\ \A i \in 1 .. Len(r(k)) : r(k)[i] = samples[t][i + k]
  BY <1>2, <1>6, DropFirstFacts, LenProperties
<1> HIDE DEF r
<1>8. /\ s(k) \in Seq(Slot)
      /\ Len(s(k)) = IF Len(r(k)) <= d - k THEN d - k + 1 ELSE Len(r(k))
      /\ \A j \in 1 .. Len(s(k)) :
           s(k)[j] = IF j = d - k + 1 THEN p ELSE IF j <= Len(r(k)) THEN r(k)[j] ELSE Hole
  BY <1>1, <1>6, <1>7, PutAtFacts
<1> HIDE DEF s
<1>9. /\ Len(s(k)) \in Nat /\ d - k + 1 \in 1 .. Len(s(k)) /\ Len(samples[t]) - k <= Len(s(k))
      /\ s(k) # <<>>
  BY <1>2, <1>6, <1>7, <1>8
<1>10. \A j \in 1 .. Len(s(k)) :
          s(k)[j] = IF j = d - k + 1 THEN p
                    ELSE IF j + k \in 1 .. Len(samples[t]) THEN samples[t][j + k] ELSE Hole
  <2> TAKE j \in 1 .. Len(s(k))
  <2>1. j <= Len(r(k)) <=> j + k \in 1 .. Len(samples[t])
    BY <1>2, <1>6, <1>7, <1>9
  <2>2. j <= Len(r(k)) => r(k)[j] = samples[t][j + k]
    BY <1>7, <1>9
  <2> QED
    BY <1>8, <2>1, <2>2
<1>11. Stores(p, t, d, k, s(k))
  BY <1>1, <1>3, <1>4, <1>5, <1>8, <1>9, <1>10 DEF Stores
<1> QED
  BY <1>5, <1>11 DEF t, d

LEMMA FetchOrigins ==
  ASSUME IInv, NEW p \in Packet, Fetch(p)
  PROVE  /\ p \in Held(p.track)' \/ out'.pkt = p
         /\ out'.pkt \in {Hole, p} \union Held(p.track)
         /\ \A u \in Tracks \ {p.track} : Held(u)' = Held(u)
         /\ Held(p.track)' \subseteq Held(p.track) \union {p}
<1> DEFINE t == p.track
<1>1. TypeOK /\ TypeOK' /\ t \in Tracks /\ p # Hole
  BY StepIInv, FilterAssumption DEF IInv, Next, Fetch, Packet
<1>2. samples[t] \in Seq(Slot)
  BY <1>1 DEF TypeOK
<1>3. \A u \in Tracks \ {t} : samples'[u] = samples[u]
  BY <1>1 DEF Fetch, FetchInOrder, FetchLate, FetchUnordered, TypeOK
<1>4. \A u \in Tracks \ {t} : Held(u)' = Held(u)
  BY <1>3 DEF Held
<1>5. \A q : q \in Held(t)' <=> q # Hole /\ \E i \in 1 .. Len(samples'[t]) : samples'[t][i] = q
  <2>1. samples'[t] \in Seq(Slot)
    BY <1>1 DEF TypeOK
  <2>2. DOMAIN samples'[t] = 1 .. Len(samples'[t])
    BY <2>1, LenProperties
  <2> QED
    BY <2>2 DEF Held
<1>6. CASE FetchInOrder(p)
  <2>1. out'.pkt = p /\ samples'[t] = DropFirst(samples[t], 1)
    BY <1>1, <1>6 DEF FetchInOrder, Returns, TypeOK
  <2>2. \A i \in 1 .. Len(samples'[t]) : i + 1 \in 1 .. Len(samples[t]) /\ samples'[t][i] = samples[t][i + 1]
    BY <1>2, <2>1, DropFirstFacts, LenProperties
  <2>3. Held(t)' \subseteq Held(t)
    BY <1>1, <1>5, <2>2, HeldSlot
  <2> QED
    BY <1>4, <2>1, <2>3
<1>7. CASE FetchLate(p)
  BY <1>4, <1>7 DEF FetchLate, Returns, Held
<1>8. CASE FetchUnordered(p)
  <2> DEFINE d == p.seq - seqBase[t]
  <2>0. PICK k, s : /\ Stores(p, p.track, p.seq - seqBase[p.track], k, s)
                    /\ StoredReady(p.track, k, s) \/ StoredEarly(p.track, k, s)
    <3>1. IInv /\ p \in Packet /\ FetchUnordered(p)
      BY <1>8
    <3> HIDE DEF t, d
    <3> QED
      BY <3>1, UnorderedSlots
  <2>s. Stores(p, t, d, k, s)
    BY <2>0
  <2> HIDE DEF d
  <2>1. /\ d \in Nat \ {0} /\ k \in 0 .. d /\ s \in Seq(Slot) /\ s # <<>> /\ Len(s) \in Nat
        /\ \A j \in 1 .. Len(s) :
             s[j] = IF j = d - k + 1 THEN p
                    ELSE IF j + k \in 1 .. Len(samples[t]) THEN samples[t][j + k] ELSE Hole
        /\ d - k + 1 \in 1 .. Len(s)
    BY <2>s, StoresFacts
  <2>2. \A j \in 1 .. Len(s) : s[j] \in {Hole, p} \union Held(t)
    BY <1>1, <2>1, HeldSlot
  <2>3. CASE StoredReady(p.track, k, s)
    <3>1. samples'[t] = Tail(s) /\ out'.pkt = s[1] /\ 1 \in 1 .. Len(s)
      BY <1>1, <2>1, <2>3 DEF StoredReady, Returns, TypeOK
    <3>2. \A i \in 1 .. Len(samples'[t]) : i + 1 \in 1 .. Len(s) /\ samples'[t][i] = s[i + 1]
      BY <2>1, <3>1, TailAt
    <3>3. Held(t)' \subseteq Held(t) \union {p}
      BY <1>5, <2>2, <3>2
    <3>4. p \in Held(t)' \/ out'.pkt = p
      <4>1. CASE d - k = 0
        BY <2>1, <3>1, <4>1
      <4>2. CASE d - k # 0
        <5>1. d - k \in 1 .. Len(Tail(s)) /\ (d - k) + 1 = d - k + 1
          BY <2>1, <4>2, TailAt
        <5>2. samples'[t][d - k] = p
          BY <2>1, <3>1, <3>2, <5>1
        <5> QED
          BY <1>1, <1>5, <3>1, <5>1, <5>2
      <4> QED
        BY <4>1, <4>2
    <3> QED
      BY <1>4, <2>2, <3>1, <3>3, <3>4
  <2>4. CASE StoredEarly(p.track, k, s)
    <3>1. samples'[t] = s /\ out'.pkt = Hole
      BY <1>1, <2>4 DEF StoredEarly, Returns, TypeOK
    <3>2. samples'[t][d - k + 1] = p /\ d - k + 1 \in 1 .. Len(samples'[t])
      BY <2>1, <3>1
    <3>3. p \in Held(t)'
      BY <1>1, <1>5, <3>2
    <3>4. Held(t)' \subseteq Held(t) \union {p}
      BY <1>5, <2>2, <3>1
    <3> QED
      BY <1>4, <3>1, <3>3, <3>4
  <2> QED
    BY <2>0, <2>3, <2>4
<1> QED
  BY <1>6, <1>7, <1>8 DEF Fetch

(* The same for a call that takes one packet or none. *)
LEMMA CallOrigins ==
  ASSUME IInv, NEW P, CallOf(P)
  PROVE  /\ \A p \in P : p \in Packet /\ (p \in Held(p.track)' \/ out'.pkt = p)
         /\ \A u \in Tracks : Held(u)' \subseteq Held(u) \union P
         /\ out'.pkt # Hole => out'.pkt \in P \/ \E u \in Tracks : out'.pkt \in Held(u)
<1>1. CASE P = {} /\ PopReady
  BY <1>1, PopOrigins
<1>2. CASE P = {} /\ FetchNothing
  BY <1>2 DEF FetchNothing, Returns, Held
<1>3. CASE \E p \in Packet : P = {p} /\ Fetch(p)
  <2>1. PICK p \in Packet : P = {p} /\ Fetch(p)
    BY <1>3
  <2>2. p.track \in Tracks
    BY DEF Packet
  <2> QED
    BY <2>1, <2>2, FetchOrigins
<1> QED
  BY <1>1, <1>2, <1>3 DEF CallOf
----------------------------------------------------------------------------
(* The network: what is known of its packets in every state. *)
NetOK ==
  /\ net \in [Tracks -> SUBSET Ids]
  /\ lost \in [Tracks -> SUBSET Ids]
  /\ delivered \in [Tracks -> SUBSET Ids]
  /\ dups \in Nat
  /\ \A t \in Tracks : net[t] \intersect lost[t] = {}

(* Every packet in the buffer, and every packet returned, came from the     *)
(* network, and the buffer has it under the track and number it was sent.   *)
Genuine ==
  /\ \A t \in Tracks : \A p \in Held(t) : p.id \in Arrived(t) /\ p = Pkt(t, p.id)
  /\ \A t \in Tracks : delivered[t] \subseteq Arrived(t)

NInv == IInv /\ NetOK /\ Genuine

LEMMA PktFacts ==
  ASSUME NEW t \in Tracks, NEW i \in Ids
  PROVE  /\ Pkt(t, i) \in Packet /\ Pkt(t, i) # Hole
         /\ Pkt(t, i).track = t /\ Pkt(t, i).seq = (Base[t] + i) % SeqMod /\ Pkt(t, i).id = i
         /\ i \in Nat /\ i < Sent /\ Base[t] \in Nat
<1>1. i \in Nat /\ i < Sent /\ Base[t] \in Nat /\ SeqMod \in Nat \ {0}
  BY NetworkAssumption, FilterAssumption
<1>2. (Base[t] + i) % SeqMod \in 0 .. SeqMod - 1
  BY <1>1, Divide
<1>3. Pkt(t, i) \in Packet
  BY <1>2 DEF Pkt, Packet, Seqs
<1> QED
  BY <1>1, <1>3, FilterAssumption DEF Pkt

(* The part of a step that calls get_sample2, taking the packets P, one or  *)
(* none, off the network.                                                   *)
Takes(P) ==
  /\ CallOf(P)
  /\ RecordDelivery
  /\ lost' = lost
  /\ \/ P = {} /\ net' = net /\ dups' = dups
     \/ \E t \in Tracks : \E i \in net[t] :
          /\ P = {Pkt(t, i)}
          /\ \A j \in net[t] : i - j <= Ahead[t]
          /\ net' = [net EXCEPT ![t] = net[t] \ {i}] /\ dups' = dups
     \/ \E t \in Tracks : \E i \in Arrived(t) :
          P = {Pkt(t, i)} /\ net' = net /\ dups < Dups /\ dups' = dups + 1

LEMMA CallsTake ==
  ASSUME NetOK,
         \/ Drain \/ WouldBlock
         \/ \E t \in Tracks, i \in Ids : Arrive(t, i) \/ ArriveAgain(t, i)
  PROVE  \E P : Takes(P)
<1>1. CASE Drain
  <2>1. CallOf({}) /\ RecordDelivery /\ UNCHANGED <<net, lost, dups>>
    BY <1>1 DEF Drain, CallOf
  <2>2. Takes({})
    BY <2>1 DEF Takes
  <2> QED
    BY <2>2
<1>2. CASE WouldBlock
  <2>1. CallOf({}) /\ out'.pkt = Hole /\ UNCHANGED <<net, lost, dups, delivered>>
    BY <1>2 DEF WouldBlock, CallOf, netVars, FetchNothing, Returns
  <2>2. RecordDelivery
    BY <2>1 DEF RecordDelivery, NetOK
  <2>3. Takes({})
    BY <2>1, <2>2 DEF Takes
  <2> QED
    BY <2>3
<1>3. ASSUME NEW t \in Tracks, NEW i \in Ids, Arrive(t, i) PROVE \E P : Takes(P)
  <2>1. Pkt(t, i) \in Packet /\ Fetch(Pkt(t, i)) /\ i \in net[t]
    BY <1>3, PktFacts DEF Arrive
  <2>2. CallOf({Pkt(t, i)})
    BY <2>1 DEF CallOf
  <2>3. Takes({Pkt(t, i)})
    BY <1>3, <2>2 DEF Takes, Arrive
  <2> QED
    BY <2>3
<1>4. ASSUME NEW t \in Tracks, NEW i \in Ids, ArriveAgain(t, i) PROVE \E P : Takes(P)
  <2>1. Pkt(t, i) \in Packet /\ Fetch(Pkt(t, i))
    BY <1>4, PktFacts DEF ArriveAgain
  <2>2. CallOf({Pkt(t, i)})
    BY <2>1 DEF CallOf
  <2>3. Takes({Pkt(t, i)})
    BY <1>4, <2>2 DEF Takes, ArriveAgain
  <2> QED
    BY <2>3
<1> QED
  BY <1>1, <1>2, <1>3, <1>4

LEMMA ReorderStepCases ==
  ASSUME NetOK, ReorderNext
  PROVE  \/ \E P : Takes(P)
         \/ \E t \in Tracks, i \in Ids : Lose(t, i)
  BY CallsTake DEF ReorderNext

(* What such a step does to the network's side of the state. *)
LEMMA TakesNet ==
  ASSUME NInv, NEW P, Takes(P)
  PROVE  /\ IInv' /\ Called
         /\ net' \in [Tracks -> SUBSET Ids] /\ lost' = lost /\ dups' \in Nat
         /\ \A t \in Tracks : net'[t] \intersect lost'[t] = {} /\ net'[t] \subseteq net[t]
         /\ \A p \in P : /\ p \in Packet /\ p.track \in Tracks /\ p.id \in Ids
                         /\ p = Pkt(p.track, p.id) /\ p.id \in Arrived(p.track)'
         /\ \A t \in Tracks : Arrived(t) \subseteq Arrived(t)'
         /\ \A t \in Tracks : \A i \in Arrived(t)' : i \in Arrived(t) \/ Pkt(t, i) \in P
<1>1. IInv /\ NetOK /\ CallOf(P) /\ lost' = lost
  BY DEF NInv, Takes
<1>2. IInv' /\ Called
  BY <1>1, CallIsNext
<1>3. CASE P = {} /\ net' = net /\ dups' = dups
  BY <1>1, <1>2, <1>3 DEF NetOK, Arrived
<1>4. ASSUME NEW t \in Tracks, NEW i \in Arrived(t),
             P = {Pkt(t, i)}, net' = net, dups' = dups + 1
      PROVE  /\ net' \in [Tracks -> SUBSET Ids] /\ dups' \in Nat
             /\ \A u \in Tracks : net'[u] \intersect lost'[u] = {} /\ net'[u] \subseteq net[u]
             /\ \A p \in P : /\ p \in Packet /\ p.track \in Tracks /\ p.id \in Ids
                             /\ p = Pkt(p.track, p.id) /\ p.id \in Arrived(p.track)'
             /\ \A u \in Tracks : Arrived(u) \subseteq Arrived(u)'
             /\ \A u \in Tracks : \A j \in Arrived(u)' : j \in Arrived(u) \/ Pkt(u, j) \in P
  <2>1. i \in Ids /\ Pkt(t, i) \in Packet /\ Pkt(t, i).track = t /\ Pkt(t, i).id = i
    BY PktFacts DEF Arrived
  <2>2. \A u \in Tracks : Arrived(u)' = Arrived(u)
    BY <1>1, <1>4 DEF Arrived
  <2> QED
    BY <1>1, <1>4, <2>1, <2>2 DEF NetOK
<1>5. ASSUME NEW t \in Tracks, NEW i \in net[t],
             P = {Pkt(t, i)}, net' = [net EXCEPT ![t] = net[t] \ {i}], dups' = dups
      PROVE  /\ net' \in [Tracks -> SUBSET Ids] /\ dups' \in Nat
             /\ \A u \in Tracks : net'[u] \intersect lost'[u] = {} /\ net'[u] \subseteq net[u]
             /\ \A p \in P : /\ p \in Packet /\ p.track \in Tracks /\ p.id \in Ids
                             /\ p = Pkt(p.track, p.id) /\ p.id \in Arrived(p.track)'
             /\ \A u \in Tracks : Arrived(u) \subseteq Arrived(u)'
             /\ \A u \in Tracks : \A j \in Arrived(u)' : j \in Arrived(u) \/ Pkt(u, j) \in P
  <2>1. i \in Ids
    BY <1>1 DEF NetOK
  <2>2. Pkt(t, i) \in Packet /\ Pkt(t, i).track = t /\ Pkt(t, i).id = i
    BY <2>1, PktFacts
  <2>3. /\ net'[t] = net[t] \ {i} /\ \A u \in Tracks \ {t} : net'[u] = net[u]
        /\ net' \in [Tracks -> SUBSET Ids]
    BY <1>1, <1>5 DEF NetOK
  <2>4. i \notin lost[t]
    BY <1>1 DEF NetOK
  <2>5. Arrived(t)' = Arrived(t) \union {i} /\ \A u \in Tracks \ {t} : Arrived(u)' = Arrived(u)
    BY <1>1, <2>1, <2>3, <2>4 DEF Arrived
  <2>6. \A u \in Tracks : net'[u] \intersect lost'[u] = {} /\ net'[u] \subseteq net[u]
    BY <1>1, <2>3 DEF NetOK
  <2>7. \A u \in Tracks : \A j \in Arrived(u)' : j \in Arrived(u) \/ Pkt(u, j) \in P
    BY <1>5, <2>5
  <2>8. \A p \in P : /\ p \in Packet /\ p.track \in Tracks /\ p.id \in Ids
                     /\ p = Pkt(p.track, p.id) /\ p.id \in Arrived(p.track)'
    BY <1>5, <2>1, <2>2, <2>5
  <2> QED
    BY <1>1, <1>5, <2>3, <2>5, <2>6, <2>7, <2>8 DEF NetOK
<1> QED
  BY <1>1, <1>2, <1>3, <1>4, <1>5 DEF Takes

LEMMA HeldFacts ==
  ASSUME IInv, NEW t \in Tracks, NEW p \in Held(t)
  PROVE  p # Hole /\ p \in Packet /\ p.track = t
         /\ \E j \in 1 .. Len(samples[t]) : p = samples[t][j] /\ p.seq = seqBase[t] + j - 1
<1>1. TypeOK /\ Aligned
  BY DEF IInv
<1>2. PICK j \in 1 .. Len(samples[t]) : p = samples[t][j] /\ p # Hole
  BY <1>1, HeldSlot
<1>3. samples[t] \in Seq(Slot)
  BY <1>1 DEF TypeOK
<1>4. p \in Slot
  BY <1>2, <1>3, ElementOfSeq
<1> QED
  BY <1>1, <1>2, <1>4 DEF Aligned, Slot

LEMMA NextHeldFacts ==
  ASSUME IInv', NEW t \in Tracks, NEW p \in Held(t)'
  PROVE  p # Hole /\ p \in Packet /\ p.track = t
         /\ \E j \in 1 .. Len(samples'[t]) : p = samples'[t][j] /\ p.seq = seqBase'[t] + j - 1
<1>1. samples'[t] \in Seq(Slot) /\ Aligned'
  BY DEF IInv, TypeOK
<1>2. DOMAIN samples'[t] = 1 .. Len(samples'[t])
  BY <1>1, LenProperties
<1>3. PICK j \in 1 .. Len(samples'[t]) : p = samples'[t][j] /\ p # Hole
  BY <1>2 DEF Held
<1>4. p \in Slot
  BY <1>1, <1>3, ElementOfSeq
<1> QED
  BY <1>1, <1>3, <1>4 DEF Aligned, Slot

(* What the history of deliveries gains. *)
LEMMA Recorded ==
  ASSUME NetOK, RecordDelivery, NEW t \in Tracks
  PROVE  /\ delivered[t] \subseteq delivered'[t]
         /\ out'.pkt # Hole /\ out'.pkt.track = t =>
              delivered'[t] = delivered[t] \union {out'.pkt.id}
         /\ ~(out'.pkt # Hole /\ out'.pkt.track = t) => delivered'[t] = delivered[t]
  BY DEF RecordDelivery, NetOK

(* The packet returned, if there is one. *)
LEMMA ReturnedFacts ==
  ASSUME NInv, NEW P, Takes(P), out'.pkt # Hole
  PROVE  \E t \in Tracks : \E i \in Ids :
           /\ out'.pkt = Pkt(t, i) /\ out'.pkt.track = t /\ out'.pkt.id = i
           /\ i \in Arrived(t)'
           /\ out'.pkt \in P \/ out'.pkt \in Held(t)
<1>1. IInv /\ CallOf(P) /\ Genuine
  BY DEF NInv, Takes
<1>2. ASSUME NEW p \in P
      PROVE  \E t \in Tracks : \E i \in Ids :
               p = Pkt(t, i) /\ p.track = t /\ p.id = i /\ i \in Arrived(t)'
  BY TakesNet
<1>3. ASSUME NEW u \in Tracks, NEW p \in Held(u)
      PROVE  \E i \in Ids : p = Pkt(u, i) /\ p.track = u /\ p.id = i /\ i \in Arrived(u)'
  <2>1. p.track = u
    BY <1>1, HeldFacts
  <2>2. p.id \in Arrived(u) /\ p = Pkt(u, p.id)
    BY <1>1 DEF Genuine
  <2>3. Arrived(u) \subseteq Arrived(u)' /\ Arrived(u) \subseteq Ids
    BY TakesNet DEF Arrived
  <2> QED
    BY <2>1, <2>2, <2>3
<1>4. out'.pkt \in P \/ \E u \in Tracks : out'.pkt \in Held(u)
  BY <1>1, CallOrigins
<1>5. CASE out'.pkt \in P
  BY <1>2, <1>5
<1>6. CASE \E u \in Tracks : out'.pkt \in Held(u)
  <2>1. PICK u \in Tracks : out'.pkt \in Held(u)
    BY <1>6
  <2>2. PICK i \in Ids : out'.pkt = Pkt(u, i) /\ out'.pkt.track = u /\ out'.pkt.id = i /\ i \in Arrived(u)'
    BY <1>3, <2>1
  <2> QED
    BY <2>1, <2>2
<1> QED
  BY <1>4, <1>5, <1>6

LEMMA TakesNInv ==
  ASSUME NInv, NEW P, Takes(P)
  PROVE  NInv'
<1>1. IInv /\ IInv' /\ CallOf(P) /\ NetOK /\ Genuine /\ RecordDelivery
  BY TakesNet DEF NInv, Takes
<1>2. \A t \in Tracks : Arrived(t) \subseteq Arrived(t)' /\ Arrived(t)' \subseteq Ids
  BY TakesNet DEF Arrived
<1>3. \A t \in Tracks : delivered'[t] \subseteq Arrived(t)'
  <2> TAKE t \in Tracks
  <2>1. delivered[t] \subseteq Arrived(t)'
    BY <1>1, <1>2 DEF Genuine
  <2>2. CASE out'.pkt # Hole /\ out'.pkt.track = t
    <3>1. out'.pkt.id \in Arrived(t)'
      BY <2>2, ReturnedFacts
    <3> QED
      BY <1>1, <2>1, <2>2, <3>1, Recorded
  <2>3. CASE ~(out'.pkt # Hole /\ out'.pkt.track = t)
    BY <1>1, <2>1, <2>3, Recorded
  <2> QED
    BY <2>2, <2>3
<1>4. NetOK'
  <2>1. DOMAIN delivered' = Tracks /\ delivered' = [t \in Tracks |-> delivered'[t]]
    BY <1>1 DEF RecordDelivery
  <2>2. delivered' \in [Tracks -> SUBSET Ids]
    BY <1>2, <1>3, <2>1
  <2> QED
    BY <1>1, <2>2, TakesNet DEF NetOK
<1>5. ASSUME NEW t \in Tracks, NEW p \in Held(t)'
      PROVE  p.id \in Arrived(t)' /\ p = Pkt(t, p.id)
  <2>1. p.track = t
    BY <1>1, <1>5, NextHeldFacts
  <2>2. CASE p \in P
    BY <2>1, <2>2, TakesNet
  <2>3. CASE p \in Held(t)
    BY <1>1, <1>2, <2>3 DEF Genuine
  <2>4. p \in P \/ p \in Held(t)
    BY <1>1, <1>5, CallOrigins
  <2> QED
    BY <2>2, <2>3, <2>4
<1>6. Genuine'
  BY <1>3, <1>5 DEF Genuine
<1> QED
  BY <1>1, <1>4, <1>6 DEF NInv

LEMMA LoseNet ==
  ASSUME NInv, NEW t \in Tracks, NEW i \in Ids, Lose(t, i)
  PROVE  /\ NInv' /\ UNCHANGED <<vars, dups, delivered>>
         /\ i \in net[t]
         /\ lost'[t] = lost[t] \union {i} /\ \A u \in Tracks \ {t} : lost'[u] = lost[u]
         /\ net'[t] = net[t] \ {i} /\ \A u \in Tracks \ {t} : net'[u] = net[u]
         /\ \A u \in Tracks : Arrived(u)' = Arrived(u) /\ Held(u)' = Held(u)
<1>1. IInv /\ NetOK /\ Genuine
  BY DEF NInv
<1>2. /\ i \in net[t] /\ UNCHANGED <<vars, dups, delivered>>
      /\ net' = [net EXCEPT ![t] = net[t] \ {i}]
      /\ lost' = [lost EXCEPT ![t] = lost[t] \union {i}]
  BY DEF Lose
<1>3. /\ lost'[t] = lost[t] \union {i} /\ \A u \in Tracks \ {t} : lost'[u] = lost[u]
      /\ net'[t] = net[t] \ {i} /\ \A u \in Tracks \ {t} : net'[u] = net[u]
      /\ net' \in [Tracks -> SUBSET Ids] /\ lost' \in [Tracks -> SUBSET Ids]
  BY <1>1, <1>2 DEF NetOK
<1>4. \A u \in Tracks : Arrived(u)' = Arrived(u) /\ Held(u)' = Held(u)
  BY <1>2, <1>3 DEF Arrived, Held, vars
<1>5. IInv'
  BY <1>1, <1>2, StepIInv
<1>6. NetOK'
  BY <1>1, <1>2, <1>3 DEF NetOK
<1>7. Genuine'
  BY <1>1, <1>2, <1>4 DEF Genuine
<1> QED
  BY <1>2, <1>3, <1>4, <1>5, <1>6, <1>7 DEF NInv

LEMMA StutterNInv == NInv /\ UNCHANGED allVars => NInv'
<1> SUFFICES ASSUME NInv, UNCHANGED allVars PROVE NInv'
  OBVIOUS
<1>1. UNCHANGED vars /\ UNCHANGED <<net, lost, dups, delivered>>
  BY DEF allVars, vars
<1>2. IInv'
  BY <1>1, StepIInv DEF NInv
<1>3. NetOK'
  BY <1>1 DEF NInv, NetOK
<1>4. Genuine'
  BY <1>1 DEF NInv, Genuine, Held, Arrived, vars
<1> QED
  BY <1>2, <1>3, <1>4 DEF NInv

LEMMA StepNInv == NInv /\ [ReorderNext]_allVars => NInv'
<1> SUFFICES ASSUME NInv, ReorderNext PROVE NInv'
  BY StutterNInv
<1>1. NetOK
  BY DEF NInv
<1> QED
  BY <1>1, ReorderStepCases, TakesNInv, LoseNet

LEMMA InitNInv == ReorderInit => NInv
<1> SUFFICES ASSUME ReorderInit PROVE NInv
  OBVIOUS
<1>1. IInv
  BY InitIInv DEF ReorderInit
<1>2. NetOK
  BY DEF NetOK, ReorderInit
<1>3. \A t \in Tracks : Held(t) = {} /\ delivered[t] = {}
  <2> TAKE t \in Tracks
  <2>1. samples[t] = <<>> /\ delivered[t] = {}
    BY DEF ReorderInit, Init
  <2>2. Len(samples[t]) = 0
    BY <2>1
  <2> QED
    BY <1>1, <2>1, <2>2, HeldSlot DEF IInv
<1> QED
  BY <1>1, <1>2, <1>3 DEF NInv, Genuine

LEMMA ReorderInvariance == ReorderSpec => []NInv
  BY InitNInv, StepNInv, PTL DEF ReorderSpec

(* The network offers the filter packets it accepts anyway: what is proved  *)
(* of RtpFilter for arbitrary packets holds behind any network.             *)
THEOREM ReorderImplementsFilter == ReorderSpec => Spec
<1>1. NInv /\ [ReorderNext]_allVars => [Next]_vars
  <2> SUFFICES ASSUME NInv, [ReorderNext]_allVars PROVE Next \/ UNCHANGED vars
    OBVIOUS
  <2>1. IInv /\ NetOK
    BY DEF NInv
  <2>2. CASE UNCHANGED allVars
    BY <2>2 DEF allVars, vars
  <2>3. ASSUME NEW P, Takes(P) PROVE Next
    BY <2>1, <2>3, CallIsNext DEF Takes
  <2>4. ASSUME NEW t \in Tracks, NEW i \in Ids, Lose(t, i) PROVE UNCHANGED vars
    BY <2>4 DEF Lose
  <2> QED
    BY <2>1, <2>2, <2>3, <2>4, ReorderStepCases
<1>2. ReorderInit => Init
  BY DEF ReorderInit
<1> QED
  BY <1>1, <1>2, ReorderInvariance, PTL DEF ReorderSpec, Spec
----------------------------------------------------------------------------
(* A stream of no more packets than there are sequence numbers: two packets *)
(* of a track with the same number are the same packet.                     *)
WithinALap == Sent <= SeqMod

LEMMA SameNumber ==
  ASSUME WithinALap, NEW t \in Tracks, NEW i \in Ids, NEW j \in Ids,
         Pkt(t, i).seq = Pkt(t, j).seq
  PROVE  i = j
<1>1. SeqMod \in Nat \ {0} /\ Base[t] \in Nat
  BY FilterAssumption
<1>2. i \in 0 .. SeqMod - 1 /\ j \in 0 .. SeqMod - 1
  BY NetworkAssumption, FilterAssumption DEF WithinALap
<1>3. (Base[t] + i) % SeqMod = (Base[t] + j) % SeqMod
  BY PktFacts
<1> QED
  BY <1>1, <1>2, <1>3, ModInjective

LEMMA NothingLostStep ==
  ASSUME WithinALap, NInv, NothingLost, ReorderNext
  PROVE  NothingLost'
<1>1. IInv /\ NetOK /\ Genuine /\ NInv'
  BY StepNInv DEF NInv
<1>2. ASSUME NEW P, Takes(P), NEW t \in Tracks, NEW i \in Arrived(t)'
      PROVE  i \in delivered'[t] \/ \E q \in Held(t)' : q.id = i
  <2>1. CallOf(P) /\ RecordDelivery /\ Called /\ i \in Ids /\ Genuine'
    BY <1>1, <1>2, TakesNet DEF Takes, Arrived, NInv
  <2>2. CASE Pkt(t, i) \in P
    <3>1. Pkt(t, i).id = i /\ Pkt(t, i).track = t /\ Pkt(t, i) # Hole
      BY <2>1, PktFacts
    <3>2. Pkt(t, i) \in Held(t)' \/ out'.pkt = Pkt(t, i)
      <4>1. \A p \in P : p.track = t => p \in Held(t)' \/ out'.pkt = p
        BY <1>1, <2>1, CallOrigins
      <4> QED
        BY <2>2, <3>1, <4>1
    <3> QED
      BY <1>1, <2>1, <3>1, <3>2, Recorded
  <2>3. CASE i \in Arrived(t)
    <3>1. CASE i \in delivered[t]
      BY <1>1, <2>1, <3>1, Recorded
    <3>2. CASE i \notin delivered[t]
      <4>1. PICK p \in Held(t) : p.id = i
        BY <2>3, <3>2 DEF NothingLost, HeldIds
      <4>2. p = Pkt(t, i) /\ p.track = t /\ p # Hole
        BY <1>1, <4>1, HeldFacts DEF Genuine
      <4>3. CASE p \in Held(t)'
        BY <4>1, <4>3
      <4>4. CASE out'.pkt = p
        BY <1>1, <2>1, <4>1, <4>2, <4>4, Recorded
      <4>5. CASE \E q \in Held(t)' : q.seq = p.seq
        <5>1. PICK q \in Held(t)' : q.seq = p.seq
          BY <4>5
        <5>2. q = Pkt(t, q.id) /\ q.id \in Ids
          BY <2>1 DEF Genuine, Arrived
        <5>3. Pkt(t, q.id).seq = Pkt(t, i).seq
          BY <4>2, <5>1, <5>2
        <5>4. q.id = i
          BY <2>1, <5>2, <5>3, SameNumber
        <5> QED
          BY <5>4
      <4> QED
        BY <1>1, <2>1, <4>3, <4>4, <4>5, KeepStep
    <3> QED
      BY <3>1, <3>2
  <2> QED
    BY <2>2, <2>3, <1>2, <1>1, TakesNet
<1>3. ASSUME NEW u \in Tracks, NEW j \in Ids, Lose(u, j)
      PROVE  NothingLost'
  <2>1. \A t \in Tracks : Arrived(t)' = Arrived(t) /\ Held(t)' = Held(t) /\ delivered'[t] = delivered[t]
    BY <1>1, <1>3, LoseNet
  <2> QED
    BY <2>1 DEF NothingLost, HeldIds
<1>4. ASSUME NEW P, Takes(P) PROVE NothingLost'
  BY <1>2, <1>4 DEF NothingLost, HeldIds
<1> QED
  BY <1>1, <1>3, <1>4, ReorderStepCases

(* Whatever the network loses, repeats or reorders, and however far, a      *)
(* packet that reached the socket was returned or waits in the buffer       *)
(* (src/RtpFilter.cpp:93, 105, 109), as long as no sequence number stands   *)
(* for two packets: past 2^16 packets one of another lap may take its slot. *)
THEOREM AlwaysNothingLost == WithinALap => (ReorderSpec => []NothingLost)
<1> DEFINE I == WithinALap /\ NInv /\ NothingLost
<1>1. WithinALap /\ ReorderInit => I
  <2> SUFFICES ASSUME WithinALap, ReorderInit PROVE NothingLost
    BY InitNInv
  <2>1. \A t \in Tracks : Arrived(t) = {}
    BY DEF ReorderInit, Arrived
  <2> QED
    BY <2>1 DEF NothingLost
<1>2. I /\ [ReorderNext]_allVars => I'
  <2> SUFFICES ASSUME I, [ReorderNext]_allVars PROVE I'
    OBVIOUS
  <2>1. WithinALap' /\ NInv'
    BY StepNInv DEF WithinALap
  <2>2. CASE UNCHANGED allVars
    BY <2>1, <2>2 DEF NothingLost, HeldIds, Held, Arrived, allVars
  <2> QED
    BY <2>1, <2>2, NothingLostStep
<1>3. I => NothingLost
  OBVIOUS
<1> HIDE DEF I
<1> QED
  BY <1>1, <1>2, <1>3, PTL DEF ReorderSpec
----------------------------------------------------------------------------
(* What a call does to seq_base, and what it returns: nothing; a packet     *)
(* from behind seq_base; the packet k places after it, the k numbers        *)
(* between given up; or nothing, with k numbers given up.                   *)
Idle == out' = [pkt |-> Hole, disc |-> FALSE] /\ seqBase' = seqBase

PassesLate(P, t) ==
  /\ out'.pkt \in P /\ out'.pkt \in Packet /\ out'.disc = FALSE
  /\ out'.pkt.track = t /\ out'.pkt.seq < seqBase[t]
  /\ seqBase' = seqBase

EmptySlot(t, j) == j + 1 \in 1 .. Len(samples[t]) => samples[t][j + 1] = Hole

GivesUp(P, t, k) ==
  \E p \in P :
    /\ p \in Packet /\ p.track = t /\ p.seq > seqBase[t] /\ k <= p.seq - seqBase[t]
    /\ \A j \in 0 .. k - 1 : p.seq - seqBase[t] - j > Window /\ EmptySlot(t, j)

Passes(P, t, k) ==
  /\ out'.pkt \in Packet /\ out'.pkt.track = t /\ out'.pkt.seq = seqBase[t] + k
  /\ seqBase' = [seqBase EXCEPT ![t] = Succ(seqBase[t] + k)]
  /\ \/ k = 0 /\ out'.disc = FALSE
     \/ k > 0 /\ out'.disc = TRUE /\ GivesUp(P, t, k)

Waits(P, t, k) ==
  /\ out' = [pkt |-> Hole, disc |-> FALSE]
  /\ seqBase' = [seqBase EXCEPT ![t] = seqBase[t] + k]
  /\ GivesUp(P, t, k) /\ EmptySlot(t, k)

LEMMA ReadyHead ==
  ASSUME NEW S, NEW s \in Seq(S)
  PROVE  IsReady(s) <=> 1 \in 1 .. Len(s) /\ s[1] # Hole
<1>1. Len(s) \in Nat /\ (s # <<>> <=> Len(s) # 0)
  BY LenProperties, EmptySeq
<1> QED
  BY <1>1 DEF IsReady

LEMMA UnorderedMoves ==
  ASSUME IInv, NEW p \in Packet, FetchUnordered(p)
  PROVE  \E k \in Nat : Passes({p}, p.track, k) \/ Waits({p}, p.track, k)
<1> DEFINE t == p.track
           d == p.seq - seqBase[t]
<1>1. PICK k, s : /\ Stores(p, p.track, p.seq - seqBase[p.track], k, s)
                  /\ StoredReady(p.track, k, s) \/ StoredEarly(p.track, k, s)
  BY UnorderedSlots
<1>2. Stores(p, t, d, k, s)
  BY <1>1
<1>3. TypeOK /\ TypeOK' /\ Aligned /\ DrainFirst /\ t \in Tracks /\ p # Hole
      /\ seqBase[t] \in Nat /\ p.seq \in Nat
  BY StepIInv, FilterAssumption DEF IInv, Next, Packet, TypeOK, Seqs
<1>d. d = p.seq - seqBase[t]
  OBVIOUS
<1> HIDE DEF d
<1>4. /\ ready = NoTrack /\ d \in Nat \ {0} /\ k \in 0 .. d /\ Skips(samples[t], d, k)
      /\ s \in Seq(Slot) /\ s # <<>> /\ Len(s) \in Nat
      /\ \A j \in 1 .. Len(s) :
           s[j] = IF j = d - k + 1 THEN p
                  ELSE IF j + k \in 1 .. Len(samples[t]) THEN samples[t][j + k] ELSE Hole
  BY <1>2, StoresFacts
<1>5. samples[t] \in Seq(Slot) /\ Len(samples[t]) \in Nat
  BY <1>3 DEF TypeOK
<1>6. 1 \in 1 .. Len(s)
  BY <1>4, EmptySeq
<1>7. \A j \in 0 .. k - 1 : d - j > Window /\ EmptySlot(t, j)
  <2> TAKE j \in 0 .. k - 1
  <2>1. ~(d - j <= Window) /\ ~IsReady(DropFirst(samples[t], j))
    BY <1>4 DEF Skips, SkipStops
  <2>2. j \in Nat
    BY <1>4
  <2>3. /\ DropFirst(samples[t], j) \in Seq(Slot)
        /\ Len(DropFirst(samples[t], j)) = IF j <= Len(samples[t]) THEN Len(samples[t]) - j ELSE 0
        /\ \A i \in 1 .. Len(DropFirst(samples[t], j)) : DropFirst(samples[t], j)[i] = samples[t][i + j]
    BY <1>5, <2>2, DropFirstFacts
  <2>4. EmptySlot(t, j)
    <3> SUFFICES ASSUME j + 1 \in 1 .. Len(samples[t]) PROVE samples[t][j + 1] = Hole
      BY DEF EmptySlot
    <3>1. 1 \in 1 .. Len(DropFirst(samples[t], j)) /\ 1 + j = j + 1
      BY <1>5, <2>2, <2>3
    <3> QED
      BY <2>1, <2>3, <3>1, ReadyHead
  <2>5. Window \in Nat
    BY FilterAssumption
  <2> QED
    BY <1>4, <2>1, <2>4, <2>5
<1>8. k \in Nat /\ GivesUp({p}, t, k)
  <2>1. p.seq > seqBase[t] /\ k \in Nat /\ k <= d
    BY <1>3, <1>4, <1>d
  <2> QED
    BY <1>7, <1>d, <2>1 DEF GivesUp
<1>9. CASE StoredReady(p.track, k, s)
  <2>1. /\ seqBase' = [seqBase EXCEPT ![t] = Succ(seqBase[t] + k)]
        /\ out' = [pkt |-> Head(s), disc |-> TRUE] /\ Head(s) = s[1] /\ IsReady(s)
    BY <1>4, <1>9 DEF StoredReady, Returns
  <2>2. s[1] # Hole
    BY <1>4, <2>1, ReadyHead
  <2>3. CASE d - k = 0
    <3>1. s[1] = p
      BY <1>4, <1>6, <2>3
    <3>2. k = d /\ k > 0
      <4>1. d \in Nat \ {0} /\ k \in 0 .. d
        BY <1>4
      <4> QED
        BY <2>3, <4>1
    <3>3. p.seq = seqBase[t] + k
      BY <1>3, <1>d, <3>2
    <3> QED
      BY <1>8, <2>1, <3>1, <3>2, <3>3 DEF Passes
  <2>4. CASE d - k # 0
    <3>1. 1 # d - k + 1
      BY <1>4, <2>4
    <3>2. 1 + k \in 1 .. Len(samples[t]) /\ s[1] = samples[t][1 + k]
      BY <1>4, <1>6, <2>2, <3>1
    <3>3. s[1].track = t /\ s[1].seq = seqBase[t] + (1 + k) - 1
      BY <1>3, <2>2, <3>2 DEF Aligned
    <3>4. k > 0
      <4> SUFFICES ASSUME k = 0 PROVE FALSE
        BY <1>8
      <4>1. IsReady(samples[t])
        BY <1>5, <2>2, <3>2, ReadyHead
      <4> QED
        BY <1>3, <1>4, <4>1, FilterAssumption DEF DrainFirst
    <3>5. s[1] \in Packet
      <4>1. s[1] \in Slot
        BY <1>4, <1>6, ElementOfSeq
      <4> QED
        BY <2>2, <4>1 DEF Slot
    <3>6. s[1].seq = seqBase[t] + k
      BY <1>3, <1>8, <3>3
    <3>7. Passes({p}, t, k)
      BY <1>8, <2>1, <3>3, <3>4, <3>5, <3>6 DEF Passes
    <3> QED
      BY <1>8, <3>7
  <2> QED
    BY <2>3, <2>4
<1>10. CASE StoredEarly(p.track, k, s)
  <2>1. /\ seqBase' = [seqBase EXCEPT ![t] = seqBase[t] + k]
        /\ out' = [pkt |-> Hole, disc |-> FALSE] /\ ~IsReady(s)
    BY <1>4, <1>10 DEF StoredEarly, Returns
  <2>2. s[1] = Hole
    BY <1>4, <1>6, <2>1, ReadyHead
  <2>3. EmptySlot(t, k)
    <3> SUFFICES ASSUME k + 1 \in 1 .. Len(samples[t]) PROVE samples[t][k + 1] = Hole
      BY DEF EmptySlot
    <3>1. 1 # d - k + 1
      BY <1>3, <1>4, <1>6, <2>2
    <3>2. 1 + k = k + 1
      BY <1>8
    <3> QED
      BY <1>4, <1>6, <2>2, <3>1, <3>2
  <2> QED
    BY <1>8, <2>1, <2>3 DEF Waits
<1> QED
  BY <1>1, <1>9, <1>10

LEMMA CallMoves ==
  ASSUME IInv, NEW P, CallOf(P)
  PROVE  \/ Idle
         \/ \E t \in Tracks : PassesLate(P, t) \/ \E k \in Nat : Passes(P, t, k) \/ Waits(P, t, k)
<1>1. TypeOK /\ Aligned
  BY DEF IInv
<1>2. CASE P = {} /\ PopReady
  <2>1. /\ ready \in Tracks /\ samples[ready] # <<>> /\ out'.pkt = samples[ready][1]
        /\ out'.pkt # Hole /\ out'.pkt \in Held(ready)
    BY <1>2, PopOrigins
  <2>2. samples[ready] \in Seq(Slot) /\ seqBase[ready] \in Nat
    BY <1>1, <2>1, FilterAssumption DEF TypeOK, Seqs
  <2>3. 1 \in 1 .. Len(samples[ready])
    BY <2>1, <2>2, EmptySeq
  <2>4. out'.pkt.track = ready /\ out'.pkt.seq = seqBase[ready] + 0 /\ out'.pkt \in Packet
    BY <1>1, <2>1, <2>2, <2>3, HeldFacts DEF Aligned
  <2>5. out'.disc = FALSE /\ seqBase' = [seqBase EXCEPT ![ready] = Succ(seqBase[ready])]
    BY <1>2 DEF PopReady, Returns
  <2>6. seqBase[ready] + 0 = seqBase[ready]
    BY <2>2
  <2>7. Passes(P, ready, 0)
    BY <2>4, <2>5, <2>6 DEF Passes
  <2> QED
    BY <2>1, <2>7
<1>3. CASE P = {} /\ FetchNothing
  BY <1>3 DEF FetchNothing, Returns, Idle
<1>4. ASSUME NEW p \in Packet, P = {p}, FetchInOrder(p)
      PROVE  p.track \in Tracks /\ Passes(P, p.track, 0)
  <2>1. p.track \in Tracks /\ seqBase[p.track] + 0 = seqBase[p.track]
    BY <1>1, FilterAssumption DEF Packet, TypeOK, Seqs
  <2>2. /\ p.seq = seqBase[p.track] /\ out'.pkt = p /\ out'.disc = FALSE
        /\ seqBase' = [seqBase EXCEPT ![p.track] = Succ(seqBase[p.track])]
    BY <1>4 DEF FetchInOrder, Returns
  <2> QED
    BY <2>1, <2>2 DEF Passes
<1>5. ASSUME NEW p \in Packet, P = {p}, FetchLate(p)
      PROVE  p.track \in Tracks /\ PassesLate(P, p.track)
  BY <1>5 DEF FetchLate, Returns, PassesLate, Packet
<1>6. ASSUME NEW p \in Packet, P = {p}, FetchUnordered(p)
      PROVE  p.track \in Tracks /\ \E k \in Nat : Passes(P, p.track, k) \/ Waits(P, p.track, k)
  BY <1>6, UnorderedMoves DEF Packet
<1>7. CASE \E p \in Packet : P = {p} /\ Fetch(p)
  <2>1. PICK p \in Packet : P = {p} /\ Fetch(p)
    BY <1>7
  <2> QED
    BY <2>1, <1>4, <1>5, <1>6 DEF Fetch
<1> QED
  BY <1>2, <1>3, <1>7 DEF CallOf
----------------------------------------------------------------------------
(* A stream whose sequence numbers do not pass 2^16 - 1: the number of its  *)
(* packet i is First(t) + i.                                                *)
First(t) == Base[t] % SeqMod
NoWrap == \A t \in Tracks : First(t) + Sent < SeqMod

LEMMA StraightNumber ==
  ASSUME NEW t \in Tracks, First(t) + Sent < SeqMod, NEW i \in 0 .. Sent
  PROVE  /\ ((Base[t] + i) % SeqMod) = First(t) + i
         /\ First(t) \in Nat /\ First(t) + i \in Nat /\ First(t) + i < SeqMod
         /\ Sent \in Nat /\ SeqMod \in Nat
<1>1. SeqMod \in Nat \ {0} /\ Base[t] \in Nat /\ Sent \in Nat /\ i \in Nat /\ i <= Sent
  BY FilterAssumption, NetworkAssumption
<1>2. First(t) \in 0 .. SeqMod - 1
  <2>1. Base[t] \in Int
    BY <1>1
  <2> QED
    BY <1>1, <2>1, Divide DEF First
<1>3. First(t) + i < SeqMod
  BY <1>1, <1>2
<1>4. ((Base[t] + i) % SeqMod) = First(t) + i
  BY <1>1, <1>3, ModPlus DEF First
<1> QED
  BY <1>1, <1>2, <1>3, <1>4

LEMMA StraightPkt ==
  ASSUME NEW t \in Tracks, First(t) + Sent < SeqMod, NEW i \in Ids
  PROVE  Pkt(t, i).seq = First(t) + i /\ i \in 0 .. Sent /\ i < Sent
<1>1. i \in 0 .. Sent /\ i < Sent
  BY NetworkAssumption
<1> QED
  BY <1>1, StraightNumber, PktFacts

(* Where seq_base of a track stands: in the stream, behind it every packet  *)
(* returned, and of those behind it that were not, one sent more than       *)
(* Window places later has arrived.                                         *)
Ordered(t) ==
  /\ seqBase[t] \in First(t) .. First(t) + Sent
  /\ \A i \in delivered[t] : First(t) + i < seqBase[t]
  /\ \A i \in Ids \ delivered[t] :
       First(t) + i < seqBase[t] => \E j \in Arrived(t) : j - i > Window
  /\ \E m \in delivered[t] \union {-1} : \A i \in delivered[t] \union {-1} : i <= m

FlagTrue == out.disc => out.pkt.id - 1 \notin delivered[out.pkt.track]

OInv == NInv /\ FlagTrue /\ \A t \in Tracks : Ordered(t)

LEMMA InitOInv == NoWrap /\ ReorderInit => OInv
<1> SUFFICES ASSUME NoWrap, ReorderInit PROVE OInv
  OBVIOUS
<1>1. NInv
  BY InitNInv
<1>2. FlagTrue
  BY DEF FlagTrue, ReorderInit, Init
<1>3. ASSUME NEW t \in Tracks PROVE Ordered(t)
  <2>1. seqBase[t] = First(t) /\ delivered[t] = {}
    BY DEF ReorderInit, Init, First
  <2>2. First(t) \in Nat /\ Sent \in Nat /\ 0 \in 0 .. Sent
    BY StraightNumber, NetworkAssumption DEF NoWrap
  <2>3. \A i \in Ids : ~(First(t) + i < seqBase[t])
    BY <2>1, <2>2, NetworkAssumption
  <2> QED
    BY <2>1, <2>2, <2>3 DEF Ordered
<1> QED
  BY <1>1, <1>2, <1>3 DEF OInv

(* One more packet returned: the set of those returned still has a greatest. *)
LEMMA GreatestOfMore ==
  ASSUME NEW D \in SUBSET Int, NEW i \in Int, NEW m \in D, \A j \in D : j <= m
  PROVE  \E n \in D \union {i} : \A j \in D \union {i} : j <= n
<1>1. CASE i <= m
  BY <1>1
<1>2. CASE ~(i <= m)
  <2>1. \A j \in D : j <= i
    BY <1>2
  <2> QED
    BY <2>1
<1> QED
  BY <1>1, <1>2

LEMMA GreatestReturned ==
  ASSUME NInv, NEW P, Takes(P), NEW t \in Tracks,
         \E m \in delivered[t] \union {-1} : \A i \in delivered[t] \union {-1} : i <= m
  PROVE  \E m \in delivered'[t] \union {-1} : \A i \in delivered'[t] \union {-1} : i <= m
<1>1. NetOK /\ RecordDelivery
  BY DEF NInv, Takes
<1>2. CASE ~(out'.pkt # Hole /\ out'.pkt.track = t)
  BY <1>1, <1>2, Recorded
<1>3. CASE out'.pkt # Hole /\ out'.pkt.track = t
  <2> DEFINE D == delivered[t] \union {-1}
  <2>1. PICK i \in Ids : out'.pkt.id = i
    BY <1>3, ReturnedFacts
  <2>2. delivered'[t] \union {-1} = D \union {i} /\ D \in SUBSET Int /\ i \in Int
    BY <1>1, <1>3, <2>1, Recorded, NetworkAssumption DEF NetOK
  <2>3. PICK m \in D : \A j \in D : j <= m
    OBVIOUS
  <2>4. -1 \in D /\ (D \union {i}) \union {-1} = D \union {i}
    OBVIOUS
  <2> HIDE DEF D
  <2>5. \E n \in D \union {i} : \A j \in D \union {i} : j <= n
    BY <2>2, <2>3, GreatestOfMore
  <2> QED
    BY <2>2, <2>5
<1> QED
  BY <1>2, <1>3

(* The packets given up, k of them, were sent more than Window before one   *)
(* that has arrived; p is that one.                                         *)
LEMMA GivenUpOrdered ==
  ASSUME NInv, NEW P, Takes(P), NEW t \in Tracks, First(t) + Sent < SeqMod, NEW k \in Nat,
         seqBase[t] \in First(t) .. First(t) + Sent, GivesUp(P, t, k)
  PROVE  \E i \in Ids :
           /\ Pkt(t, i) \in P /\ i \in Arrived(t)' /\ seqBase[t] + k <= First(t) + i
           /\ \A j \in Ids : seqBase[t] <= First(t) + j /\ First(t) + j < seqBase[t] + k
                => i - j > Window /\ EmptySlot(t, First(t) + j - seqBase[t])
<1>1. PICK p \in P :
        /\ p \in Packet /\ p.track = t /\ p.seq > seqBase[t] /\ k <= p.seq - seqBase[t]
        /\ \A j \in 0 .. k - 1 : p.seq - seqBase[t] - j > Window /\ EmptySlot(t, j)
  BY DEF GivesUp
<1> DEFINE i == p.id
<1>2. i \in Ids /\ p = Pkt(t, i) /\ i \in Arrived(t)'
  BY <1>1, TakesNet
<1>3. p.seq = First(t) + i /\ First(t) \in Nat /\ i \in 0 .. Sent /\ seqBase[t] \in Nat /\ Window \in Nat
  <2>1. p.seq = First(t) + i /\ i \in 0 .. Sent
    BY <1>2, StraightPkt
  <2>2. First(t) \in Nat /\ Sent \in Nat
    BY <2>1, StraightNumber
  <2> QED
    BY <2>1, <2>2, FilterAssumption
<1> HIDE DEF i
<1>4. seqBase[t] + k <= First(t) + i
  BY <1>1, <1>3
<1>5. ASSUME NEW j \in Ids, seqBase[t] <= First(t) + j, First(t) + j < seqBase[t] + k
      PROVE  i - j > Window /\ EmptySlot(t, First(t) + j - seqBase[t])
  <2>1. j \in Nat
    BY NetworkAssumption
  <2>2. First(t) + j - seqBase[t] \in 0 .. k - 1
    BY <1>3, <1>5, <2>1
  <2>3. p.seq - seqBase[t] - (First(t) + j - seqBase[t]) > Window /\ EmptySlot(t, First(t) + j - seqBase[t])
    BY <1>1, <2>2
  <2>4. p.seq - seqBase[t] - (First(t) + j - seqBase[t]) = i - j
    BY <1>3, <2>1
  <2> QED
    BY <2>3, <2>4
<1> QED
  BY <1>1, <1>2, <1>4, <1>5

(* A packet returned from the place of seq_base or after it. *)
LEMMA PassesFacts ==
  ASSUME NInv, NEW P, Takes(P), NEW t \in Tracks, First(t) + Sent < SeqMod, NEW k \in Nat,
         seqBase[t] \in First(t) .. First(t) + Sent, Passes(P, t, k)
  PROVE  \E i \in Ids :
           /\ out'.pkt = Pkt(t, i) /\ out'.pkt # Hole /\ out'.pkt.track = t /\ out'.pkt.id = i
           /\ i \in Arrived(t)' /\ First(t) + i = seqBase[t] + k
           /\ delivered'[t] = delivered[t] \union {i}
           /\ seqBase'[t] = seqBase[t] + k + 1
<1>1. IInv /\ NetOK /\ RecordDelivery /\ TypeOK
  BY DEF NInv, Takes, IInv
<1>2. /\ out'.pkt \in Packet /\ out'.pkt.track = t /\ out'.pkt.seq = seqBase[t] + k
      /\ seqBase' = [seqBase EXCEPT ![t] = Succ(seqBase[t] + k)]
  BY DEF Passes
<1>3. out'.pkt # Hole
  BY <1>2, FilterAssumption
<1>4. PICK i \in Ids : out'.pkt = Pkt(t, i) /\ out'.pkt.id = i /\ i \in Arrived(t)'
  BY <1>2, <1>3, ReturnedFacts
<1>5. First(t) + i = seqBase[t] + k /\ i < Sent
  BY <1>2, <1>4, StraightPkt
<1>6. delivered'[t] = delivered[t] \union {i}
  BY <1>1, <1>2, <1>3, <1>4, Recorded
<1>7. i \in Nat /\ Sent \in Nat /\ First(t) \in Nat /\ SeqMod \in Nat \ {0}
  BY NetworkAssumption, FilterAssumption, StraightNumber
<1>8. Succ(seqBase[t] + k) = seqBase[t] + k + 1
  <2>1. seqBase[t] + k + 1 \in 0 .. SeqMod - 1
    BY <1>5, <1>7
  <2> QED
    BY <1>7, <2>1 DEF Succ
<1>9. seqBase'[t] = seqBase[t] + k + 1
  BY <1>1, <1>2, <1>8 DEF TypeOK
<1> QED
  BY <1>2, <1>3, <1>4, <1>5, <1>6, <1>9

LEMMA OtherTrack ==
  ASSUME NInv, NEW P, Takes(P), NEW t \in Tracks, NEW k, Passes(P, t, k) \/ Waits(P, t, k),
         NEW u \in Tracks, u # t
  PROVE  seqBase'[u] = seqBase[u] /\ delivered'[u] = delivered[u]
<1>1. NetOK /\ RecordDelivery /\ TypeOK
  BY DEF NInv, Takes, IInv
<1>2. seqBase'[u] = seqBase[u]
  BY <1>1 DEF Passes, Waits, TypeOK
<1>3. ~(out'.pkt # Hole /\ out'.pkt.track = u)
  BY DEF Passes, Waits
<1> QED
  BY <1>1, <1>2, <1>3, Recorded

LEMMA FlagStep ==
  ASSUME NoWrap, OInv, NEW P, Takes(P)
  PROVE  FlagTrue'
<1>1. NInv /\ IInv /\ CallOf(P)
  BY DEF OInv, NInv, Takes
<1>2. CASE Idle
  BY <1>2 DEF Idle, FlagTrue
<1>3. ASSUME NEW t \in Tracks, PassesLate(P, t) PROVE FlagTrue'
  BY <1>3 DEF PassesLate, FlagTrue
<1>4. ASSUME NEW t \in Tracks, NEW k \in Nat, Waits(P, t, k) PROVE FlagTrue'
  BY <1>4 DEF Waits, FlagTrue
<1>5. ASSUME NEW t \in Tracks, NEW k \in Nat, Passes(P, t, k) PROVE FlagTrue'
  <2>1. CASE k = 0
    BY <1>5, <2>1 DEF Passes, FlagTrue
  <2>2. CASE k > 0
    <3>1. /\ First(t) + Sent < SeqMod /\ seqBase[t] \in First(t) .. First(t) + Sent
          /\ \A j \in delivered[t] : First(t) + j < seqBase[t]
      BY DEF NoWrap, OInv, Ordered
    <3>2. PICK i \in Ids : /\ out'.pkt.track = t /\ out'.pkt.id = i
                           /\ First(t) + i = seqBase[t] + k
                           /\ delivered'[t] = delivered[t] \union {i}
      BY <1>1, <1>5, <3>1, PassesFacts
    <3>3. First(t) \in Nat /\ i \in Nat /\ Sent \in Nat
      BY <3>1, NetworkAssumption, StraightPkt, StraightNumber
    <3>4. i - 1 \notin delivered[t]
      <4> SUFFICES ASSUME i - 1 \in delivered[t] PROVE FALSE
        OBVIOUS
      <4>1. First(t) + (i - 1) < seqBase[t]
        BY <3>1
      <4> QED
        BY <2>2, <3>1, <3>2, <3>3, <4>1
    <3>5. i - 1 \notin delivered'[t]
      BY <3>2, <3>3, <3>4
    <3> QED
      BY <3>2, <3>5 DEF FlagTrue
  <2> QED
    BY <2>1, <2>2
<1> QED
  BY <1>1, <1>2, <1>3, <1>4, <1>5, CallMoves

LEMMA OrderedKept ==
  ASSUME NInv, NEW P, Takes(P), NEW t \in Tracks, Ordered(t), seqBase'[t] = seqBase[t],
         \A i \in delivered'[t] : i \in delivered[t] \/ First(t) + i < seqBase[t]
  PROVE  Ordered(t)'
<1>1. First(t)' = First(t) /\ delivered[t] \subseteq delivered'[t] /\ Arrived(t) \subseteq Arrived(t)'
  BY TakesNet, Recorded DEF First, NInv, Takes
<1>2. \A i \in delivered'[t] : First(t) + i < seqBase'[t]
  BY DEF Ordered
<1>3. \A i \in Ids \ delivered'[t] :
        First(t) + i < seqBase'[t] => \E j \in Arrived(t)' : j - i > Window
  BY <1>1 DEF Ordered
<1>4. \E m \in delivered'[t] \union {-1} : \A i \in delivered'[t] \union {-1} : i <= m
  BY GreatestReturned DEF Ordered
<1> QED
  BY <1>1, <1>2, <1>3, <1>4 DEF Ordered

(* The numbers behind the new seq_base that were not returned: behind the   *)
(* old one, or given up now.                                                *)
LEMMA OrderedMoved ==
  ASSUME NInv, NEW P, Takes(P), NEW t \in Tracks, First(t) + Sent < SeqMod, Ordered(t),
         NEW k \in Nat, k = 0 \/ GivesUp(P, t, k),
         seqBase'[t] \in First(t) .. First(t) + Sent, seqBase[t] + k <= seqBase'[t],
         \A i \in delivered'[t] : First(t) + i < seqBase'[t],
         \A i \in Ids : seqBase[t] + k <= First(t) + i /\ First(t) + i < seqBase'[t]
                         => i \in delivered'[t]
  PROVE  Ordered(t)'
<1>1. /\ First(t)' = First(t) /\ delivered[t] \subseteq delivered'[t] /\ Arrived(t) \subseteq Arrived(t)'
      /\ seqBase[t] \in First(t) .. First(t) + Sent
  BY TakesNet, Recorded DEF First, NInv, Takes, Ordered
<1>2. ASSUME NEW i \in Ids \ delivered'[t], First(t) + i < seqBase'[t]
      PROVE  \E j \in Arrived(t)' : j - i > Window
  <2>1. First(t) \in Nat /\ i \in Nat /\ Sent \in Nat
    BY NetworkAssumption, StraightPkt, StraightNumber
  <2>2. CASE First(t) + i < seqBase[t]
    BY <1>1, <2>2 DEF Ordered
  <2>3. CASE seqBase[t] <= First(t) + i
    <3>1. First(t) + i < seqBase[t] + k
      BY <1>1, <1>2, <2>1
    <3>2. GivesUp(P, t, k)
      BY <1>1, <2>1, <2>3, <3>1
    <3> QED
      BY <1>1, <2>3, <3>1, <3>2, GivenUpOrdered
  <2> QED
    BY <1>1, <2>1, <2>2, <2>3
<1>3. \E m \in delivered'[t] \union {-1} : \A i \in delivered'[t] \union {-1} : i <= m
  BY GreatestReturned DEF Ordered
<1> QED
  BY <1>1, <1>2, <1>3 DEF Ordered

LEMMA LateFacts ==
  ASSUME NInv, NEW P, Takes(P), NEW t \in Tracks, First(t) + Sent < SeqMod, PassesLate(P, t)
  PROVE  /\ seqBase' = seqBase
         /\ \E i \in Ids : First(t) + i < seqBase[t] /\ delivered'[t] = delivered[t] \union {i}
         /\ \A u \in Tracks \ {t} : delivered'[u] = delivered[u]
<1>1. /\ out'.pkt \in Packet /\ out'.pkt # Hole /\ out'.pkt.track = t
      /\ out'.pkt.seq < seqBase[t] /\ seqBase' = seqBase
  BY FilterAssumption DEF PassesLate
<1>2. PICK i \in Ids : out'.pkt = Pkt(t, i) /\ out'.pkt.id = i
  BY <1>1, ReturnedFacts
<1>3. First(t) + i < seqBase[t]
  BY <1>1, <1>2, StraightPkt
<1>4. NetOK /\ RecordDelivery
  BY DEF NInv, Takes
<1>5. delivered'[t] = delivered[t] \union {i}
  BY <1>1, <1>2, <1>4, Recorded
<1>6. \A u \in Tracks \ {t} : delivered'[u] = delivered[u]
  BY <1>1, <1>4, Recorded
<1> QED
  BY <1>1, <1>3, <1>5, <1>6

LEMMA NothingReturned ==
  ASSUME NInv, NEW P, Takes(P), out' = [pkt |-> Hole, disc |-> FALSE]
  PROVE  \A t \in Tracks : delivered'[t] = delivered[t]
  BY Recorded DEF NInv, Takes

LEMMA TakesOrdered ==
  ASSUME NoWrap, OInv, NEW P, Takes(P), NEW t \in Tracks
  PROVE  Ordered(t)'
<1>1. /\ NInv /\ IInv /\ CallOf(P) /\ Ordered(t) /\ First(t) + Sent < SeqMod
      /\ seqBase[t] \in First(t) .. First(t) + Sent
      /\ \A j \in delivered[t] : First(t) + j < seqBase[t]
  BY DEF OInv, NInv, Takes, NoWrap, Ordered
<1>2. First(t) \in Nat /\ Sent \in Nat /\ seqBase[t] \in Nat
  BY <1>1, NetworkAssumption, StraightNumber
<1>3. CASE Idle
  BY <1>1, <1>3, NothingReturned, OrderedKept DEF Idle
<1>4. ASSUME NEW u \in Tracks, PassesLate(P, u) PROVE Ordered(t)'
  <2>1. First(u) + Sent < SeqMod
    BY DEF NoWrap
  <2>2. /\ seqBase' = seqBase
        /\ \A i \in delivered'[t] : i \in delivered[t] \/ First(t) + i < seqBase[t]
    BY <1>1, <1>4, <2>1, LateFacts
  <2> QED
    BY <1>1, <2>2, OrderedKept
<1>5. ASSUME NEW u \in Tracks, NEW k \in Nat, Passes(P, u, k) \/ Waits(P, u, k), u # t
      PROVE  Ordered(t)'
  BY <1>1, <1>5, OtherTrack, OrderedKept
<1>6. ASSUME NEW k \in Nat, Passes(P, t, k) PROVE Ordered(t)'
  <2>1. PICK i \in Ids : /\ First(t) + i = seqBase[t] + k
                         /\ delivered'[t] = delivered[t] \union {i}
                         /\ seqBase'[t] = seqBase[t] + k + 1
    BY <1>1, <1>6, PassesFacts
  <2>2. i \in Nat /\ i < Sent
    BY <1>1, <1>2, NetworkAssumption
  <2>3. seqBase'[t] \in First(t) .. First(t) + Sent /\ seqBase[t] + k <= seqBase'[t]
    BY <1>2, <2>1, <2>2
  <2>4. \A j \in delivered'[t] : First(t) + j < seqBase'[t]
    <3> SUFFICES ASSUME NEW j \in delivered'[t] PROVE First(t) + j < seqBase'[t]
      OBVIOUS
    <3>1. CASE j \in delivered[t]
      <4>1. First(t) + j < seqBase[t] /\ j \in Nat
        BY <1>1, <3>1, NetworkAssumption DEF NInv, NetOK
      <4> QED
        BY <1>2, <2>1, <4>1
    <3>2. CASE j = i
      BY <1>2, <2>1, <2>2, <3>2
    <3> QED
      BY <2>1, <3>1, <3>2
  <2>5. \A j \in Ids : seqBase[t] + k <= First(t) + j /\ First(t) + j < seqBase'[t] => j \in delivered'[t]
    <3> SUFFICES ASSUME NEW j \in Ids, seqBase[t] + k <= First(t) + j, First(t) + j < seqBase'[t]
                 PROVE  j = i
      BY <2>1
    <3>1. j \in Nat
      BY NetworkAssumption
    <3> QED
      BY <1>2, <2>1, <2>2, <3>1
  <2>6. k = 0 \/ GivesUp(P, t, k)
    BY <1>6 DEF Passes
  <2> QED
    BY <1>1, <2>3, <2>4, <2>5, <2>6, OrderedMoved
<1>7. ASSUME NEW k \in Nat, Waits(P, t, k) PROVE Ordered(t)'
  <2>1. seqBase'[t] = seqBase[t] + k /\ GivesUp(P, t, k) /\ out' = [pkt |-> Hole, disc |-> FALSE]
    BY <1>1, <1>7 DEF Waits, IInv, TypeOK
  <2>2. delivered'[t] = delivered[t]
    BY <1>1, <2>1, NothingReturned
  <2>3. PICK i \in Ids : seqBase[t] + k <= First(t) + i
    BY <1>1, <2>1, GivenUpOrdered
  <2>4. i \in Nat /\ i < Sent
    BY <1>1, <1>2, NetworkAssumption
  <2>5. seqBase'[t] \in First(t) .. First(t) + Sent /\ seqBase[t] + k <= seqBase'[t]
    BY <1>1, <1>2, <2>1, <2>3, <2>4
  <2>6. \A j \in delivered'[t] : First(t) + j < seqBase'[t]
    <3> SUFFICES ASSUME NEW j \in delivered[t] PROVE First(t) + j < seqBase'[t]
      BY <2>2
    <3>1. First(t) + j < seqBase[t] /\ j \in Nat
      BY <1>1, NetworkAssumption DEF NInv, NetOK
    <3> QED
      BY <1>2, <2>1, <3>1
  <2>7. \A j \in Ids : seqBase[t] + k <= First(t) + j /\ First(t) + j < seqBase'[t] => j \in delivered'[t]
    BY <1>2, <2>1, NetworkAssumption
  <2> QED
    BY <1>1, <2>1, <2>5, <2>6, <2>7, OrderedMoved
<1> QED
  BY <1>1, <1>3, <1>4, <1>5, <1>6, <1>7, CallMoves

LEMMA StepOInv == NoWrap /\ OInv /\ [ReorderNext]_allVars => OInv'
<1> SUFFICES ASSUME NoWrap, OInv, [ReorderNext]_allVars PROVE OInv'
  OBVIOUS
<1>1. NInv /\ NInv' /\ FlagTrue /\ NetOK /\ \A t \in Tracks : Ordered(t)
  BY StepNInv DEF OInv, NInv
<1>2. ASSUME NEW P, Takes(P) PROVE OInv'
  BY <1>1, <1>2, FlagStep, TakesOrdered DEF OInv
<1>3. ASSUME UNCHANGED <<vars, delivered>>, \A u \in Tracks : Arrived(u)' = Arrived(u)
      PROVE  OInv'
  <2>1. seqBase' = seqBase /\ out' = out /\ delivered' = delivered
    BY <1>3 DEF vars
  <2>2. ASSUME NEW t \in Tracks PROVE Ordered(t)'
    BY <1>1, <1>3, <2>1 DEF Ordered, First
  <2> QED
    BY <1>1, <2>1, <2>2 DEF OInv, FlagTrue
<1>4. ASSUME NEW t \in Tracks, NEW i \in Ids, Lose(t, i) PROVE OInv'
  <2>1. UNCHANGED <<vars, delivered>> /\ \A u \in Tracks : Arrived(u)' = Arrived(u)
    BY <1>1, <1>4, LoseNet
  <2> QED
    BY <1>3, <2>1
<1>5. CASE UNCHANGED allVars
  <2>1. UNCHANGED <<vars, delivered>> /\ \A u \in Tracks : Arrived(u)' = Arrived(u)
    BY <1>5 DEF allVars, vars, Arrived
  <2> QED
    BY <1>3, <2>1
<1> QED
  BY <1>1, <1>2, <1>4, <1>5, ReorderStepCases

LEMMA GreatestIs ==
  ASSUME NEW S \in SUBSET Int, NEW m \in S, \A i \in S : i <= m
  PROVE  Max(S) = m
<1>1. \A x \in S : (\A y \in S : x >= y) => x = m
  OBVIOUS
<1>2. \A y \in S : m >= y
  OBVIOUS
<1> QED
  BY <1>1, <1>2 DEF Max

LEMMA LastDeliveredFacts ==
  ASSUME NetOK, NEW t \in Tracks, Ordered(t)
  PROVE  LastDelivered(t) \in delivered[t] \union {-1}
         /\ \A i \in delivered[t] \union {-1} : i <= LastDelivered(t)
<1> DEFINE S == delivered[t] \union {-1}
<1>1. S \in SUBSET Int
  BY NetworkAssumption DEF NetOK
<1>2. PICK m \in S : \A i \in S : i <= m
  BY DEF Ordered
<1>3. LastDelivered(t) = Max(S)
  BY DEF LastDelivered
<1> HIDE DEF S
<1>4. LastDelivered(t) = m
  BY <1>1, <1>2, <1>3, GreatestIs
<1> QED
  BY <1>2, <1>4 DEF S

LEMMA OutOfOrderStep ==
  ASSUME NoWrap, OInv, ReorderNext,
         NEW t \in Tracks, NEW i \in delivered'[t] \ delivered[t], i < LastDelivered(t)
  PROVE  \E j \in Arrived(t)' : j - i > Window
<1>1. /\ NInv /\ IInv /\ NetOK /\ Ordered(t) /\ First(t) + Sent < SeqMod
      /\ seqBase[t] \in First(t) .. First(t) + Sent
      /\ \A j \in delivered[t] : First(t) + j < seqBase[t]
  BY DEF OInv, NInv, NoWrap, Ordered
<1>2. /\ First(t) \in Nat /\ Sent \in Nat /\ seqBase[t] \in Nat
      /\ LastDelivered(t) \in Int /\ First(t) + LastDelivered(t) < seqBase[t]
  <2>1. First(t) \in Nat /\ Sent \in Nat /\ seqBase[t] \in Nat
    BY <1>1, NetworkAssumption, StraightNumber
  <2>2. LastDelivered(t) \in delivered[t] \union {-1}
    BY <1>1, LastDeliveredFacts
  <2>3. delivered[t] \subseteq Nat
    BY <1>1, NetworkAssumption DEF NetOK
  <2> QED
    BY <1>1, <2>1, <2>2, <2>3
<1>3. ASSUME NEW P, Takes(P)
      PROVE  \E j \in Arrived(t)' : j - i > Window
  <2>1. CallOf(P) /\ Arrived(t) \subseteq Arrived(t)'
    BY <1>1, <1>3, TakesNet DEF Takes
  <2>2. CASE Idle
    BY <1>1, <1>3, <2>2, NothingReturned DEF Idle
  <2>3. ASSUME NEW u \in Tracks, PassesLate(P, u)
        PROVE  \E j \in Arrived(t)' : j - i > Window
    <3>1. First(u) + Sent < SeqMod
      BY DEF NoWrap
    <3>2. u = t
      BY <1>1, <1>3, <2>3, <3>1, LateFacts
    <3>3. i \in Ids /\ First(t) + i < seqBase[t]
      BY <1>1, <1>3, <2>3, <3>2, LateFacts
    <3> QED
      BY <1>1, <2>1, <3>3 DEF Ordered
  <2>4. ASSUME NEW u \in Tracks, NEW k \in Nat, Passes(P, u, k)
        PROVE  \E j \in Arrived(t)' : j - i > Window
    <3>1. u = t
      BY <1>1, <1>3, <2>4, OtherTrack
    <3>2. i \in Ids /\ First(t) + i = seqBase[t] + k
      BY <1>1, <1>3, <2>4, <3>1, PassesFacts
    <3>3. ~(i < LastDelivered(t))
      BY <1>2, <3>2, NetworkAssumption
    <3> QED
      BY <3>3
  <2>5. ASSUME NEW u \in Tracks, NEW k \in Nat, Waits(P, u, k) PROVE FALSE
    BY <1>1, <1>3, <2>5, NothingReturned DEF Waits
  <2> QED
    BY <1>1, <2>1, <2>2, <2>3, <2>4, <2>5, CallMoves
<1>4. ASSUME NEW u \in Tracks, NEW j \in Ids, Lose(u, j) PROVE FALSE
  BY <1>1, <1>4, LoseNet
<1> QED
  BY <1>1, <1>3, <1>4, ReorderStepCases

LEMMA OrderedInvariance == NoWrap => (ReorderSpec => [](NoWrap /\ OInv))
<1> DEFINE I == NoWrap /\ OInv
<1>1. NoWrap /\ ReorderInit => I
  BY InitOInv
<1>2. I /\ [ReorderNext]_allVars => I'
  BY StepOInv DEF NoWrap, First
<1>3. NoWrap => (ReorderSpec => []I)
  <2> HIDE DEF I
  <2> QED
    BY <1>1, <1>2, PTL DEF ReorderSpec
<1> QED
  BY <1>3

(* The discontinuity flag is never a false alarm (src/RtpFilter.cpp:115),   *)
(* whatever is lost, repeated or reordered, in a stream that ends before    *)
(* its sequence numbers wrap.                                               *)
THEOREM FlagNeverFalse == NoWrap => (ReorderSpec => FlagMeansMissing)
<1> DEFINE A == out'.disc => out'.pkt.id - 1 \notin delivered'[out'.pkt.track]
           I == NoWrap /\ OInv
<1>1. I /\ [ReorderNext]_allVars => [A]_allVars
  <2>1. OInv' => A
    BY DEF OInv, FlagTrue
  <2> QED
    BY <2>1, StepOInv
<1>2. NoWrap => (ReorderSpec => [][A]_allVars)
  <2>1. NoWrap => (ReorderSpec => []I)
    BY OrderedInvariance
  <2> HIDE DEF I, A
  <2> QED
    BY <1>1, <2>1, PTL DEF ReorderSpec
<1> QED
  BY <1>2 DEF FlagMeansMissing

(* A packet returned after one sent later was overtaken by more than Window *)
(* others (src/RtpFilter.cpp:100), in a stream that ends before its         *)
(* sequence numbers wrap: the window is never cut short, however the        *)
(* network loses, repeats and reorders.                                     *)
THEOREM WindowHonoured == NoWrap => (ReorderSpec => OutOfOrderOnlyBeyondWindow)
<1> DEFINE A == \A t \in Tracks : \A i \in delivered'[t] \ delivered[t] :
                 i < LastDelivered(t) => \E j \in Arrived(t)' : j - i > Window
           I == NoWrap /\ OInv
<1>1. I /\ [ReorderNext]_allVars => [A]_allVars
  <2>1. I /\ ReorderNext => A
    BY OutOfOrderStep
  <2> QED
    BY <2>1
<1>2. NoWrap => (ReorderSpec => [][A]_allVars)
  <2>1. NoWrap => (ReorderSpec => []I)
    BY OrderedInvariance
  <2> HIDE DEF I, A
  <2> QED
    BY <1>1, <2>1, PTL DEF ReorderSpec
<1> QED
  BY <1>2 DEF OutOfOrderOnlyBeyondWindow
----------------------------------------------------------------------------
(* A network within the promise of the window: it repeats nothing, and on   *)
(* each track it either loses nothing and keeps the order, with sequence    *)
(* numbers that may wrap, or it overtakes fewer than Window places, or as   *)
(* many where it loses nothing, with numbers that do not wrap.              *)
InOrder(t) == Ahead[t] = 0 /\ Losses[t] = 0
Within(t) ==
  /\ First(t) + Sent < SeqMod
  /\ Ahead[t] < Window \/ (Losses[t] = 0 /\ Ahead[t] <= Window)
Orderly == Dups = 0 /\ \A t \in Tracks : InOrder(t) \/ Within(t)

(* Track t stands at packet n, and l was the last it returned: packets      *)
(* before n were returned or lost, and if packet n - 1 was not the last     *)
(* returned then packet n is lost as well.                                  *)
Place(t, n, l) ==
  /\ seqBase[t] = (Base[t] + n) % SeqMod
  /\ \A i \in delivered[t] : i < n
  /\ \A i \in 0 .. n - 1 : i \in delivered[t] \union lost[t]
  /\ l \in delivered[t] \union {-1} /\ \A i \in delivered[t] \union {-1} : i <= l
  /\ l = n - 1 \/ n \in lost[t]
  /\ InOrder(t) => Held(t) = {} /\ net[t] = n .. Sent - 1

(* A track that a loss of stored packets, as by a seek, cannot harm. *)
Narrow(t) == ~InOrder(t) /\ Ahead[t] < Window

CInv ==
  /\ NInv
  /\ WithinALap => NothingLost
  /\ \A t \in Tracks : Losses[t] = 0 => Narrow(t) \/ lost[t] = {}
  /\ \A t \in Tracks : \E n \in 0 .. Sent : \E l \in -1 .. Sent - 1 : Place(t, n, l)

LEMMA InitCInv == ReorderInit => CInv
<1> SUFFICES ASSUME ReorderInit PROVE CInv
  OBVIOUS
<1>1. NInv
  BY InitNInv
<1>2. \A t \in Tracks : /\ delivered[t] = {} /\ lost[t] = {} /\ net[t] = Ids
                        /\ seqBase[t] = Base[t] % SeqMod /\ samples[t] = <<>>
  BY DEF ReorderInit, Init
<1>3. NothingLost
  BY <1>2 DEF NothingLost, Arrived
<1>4. ASSUME NEW t \in Tracks PROVE Place(t, 0, -1)
  <2>1. Base[t] + 0 = Base[t] /\ 0 .. 0 - 1 = {} /\ -1 = 0 - 1
    BY FilterAssumption
  <2>2. Held(t) = {}
    BY <1>2 DEF Held
  <2> QED
    BY <1>2, <2>1, <2>2, NetworkAssumption DEF Place
<1>5. 0 \in 0 .. Sent /\ -1 \in -1 .. Sent - 1
  BY NetworkAssumption
<1> QED
  BY <1>1, <1>2, <1>3, <1>4, <1>5 DEF CInv

(* Without repetitions, what a call takes comes off the network. *)
LEMMA TakenFromNet ==
  ASSUME NInv, Dups = 0, NEW P, Takes(P), NEW t \in Tracks
  PROVE  \/ \E i \in net[t] : /\ P = {Pkt(t, i)} /\ i \in Ids
                             /\ \A j \in net[t] : i - j <= Ahead[t]
                             /\ net'[t] = net[t] \ {i}
         \/ (\A p \in P : p.track # t) /\ net'[t] = net[t]
<1>1. NetOK
  BY DEF NInv
<1>2. \/ P = {} /\ net' = net
      \/ \E u \in Tracks : \E i \in net[u] :
           /\ P = {Pkt(u, i)}
           /\ \A j \in net[u] : i - j <= Ahead[u]
           /\ net' = [net EXCEPT ![u] = net[u] \ {i}]
  BY <1>1 DEF Takes, NetOK
<1>3. CASE P = {} /\ net' = net
  BY <1>3
<1>4. ASSUME NEW u \in Tracks, NEW i \in net[u], P = {Pkt(u, i)},
             \A j \in net[u] : i - j <= Ahead[u],
             net' = [net EXCEPT ![u] = net[u] \ {i}]
      PROVE  \/ \E j \in net[t] : /\ P = {Pkt(t, j)} /\ j \in Ids
                                 /\ \A m \in net[t] : j - m <= Ahead[t]
                                 /\ net'[t] = net[t] \ {j}
             \/ (\A p \in P : p.track # t) /\ net'[t] = net[t]
  <2>1. i \in Ids
    BY <1>1 DEF NetOK
  <2>2. Pkt(u, i).track = u
    BY <2>1, PktFacts
  <2>3. CASE u = t
    <3>1. net'[t] = net[t] \ {i}
      BY <1>1, <1>4, <2>3 DEF NetOK
    <3> QED
      BY <1>4, <2>1, <2>3, <3>1
  <2>4. CASE u # t
    <3>1. net'[t] = net[t]
      BY <1>1, <1>4, <2>4 DEF NetOK
    <3> QED
      BY <1>4, <2>2, <2>4, <3>1
  <2> QED
    BY <2>3, <2>4
<1> QED
  BY <1>2, <1>3, <1>4

(* What becomes of track t, at packet n: it stays or gives up packets, or   *)
(* returns packet i after giving up those from n to i - 1.                  *)
Stays(t, l) ==
  /\ ~(out'.pkt # Hole /\ out'.pkt.track = t)
  /\ delivered'[t] = delivered[t]
  /\ \E n \in 0 .. Sent : Place(t, n, l)'

Hands(t, n, i) ==
  /\ out'.pkt = Pkt(t, i) /\ out'.pkt # Hole
  /\ i \in Ids /\ n <= i /\ i \notin lost[t] /\ \A j \in n .. i - 1 : j \in lost[t]
  /\ \/ i = n /\ out'.disc = FALSE
     \/ i > n /\ out'.disc = TRUE
  /\ delivered'[t] = delivered[t] \union {i}
  /\ Place(t, i + 1, i)'

LEMMA InOrderStep ==
  ASSUME CInv, Orderly, NEW P, Takes(P), NEW t \in Tracks, InOrder(t),
         NEW n \in 0 .. Sent, NEW l \in -1 .. Sent - 1, Place(t, n, l)
  PROVE  Stays(t, l) \/ \E i \in Ids : Hands(t, n, i)
<1>1. /\ NInv /\ IInv /\ IInv' /\ NetOK /\ RecordDelivery /\ CallOf(P) /\ TypeOK /\ OneLap
      /\ lost' = lost /\ lost[t] = {} /\ Dups = 0
  BY TakesNet DEF CInv, NInv, IInv, Takes, Orderly, InOrder, Narrow
<1>2. /\ seqBase[t] = (Base[t] + n) % SeqMod /\ Held(t) = {} /\ net[t] = n .. Sent - 1
      /\ l = n - 1 /\ \A j \in delivered[t] : j < n
      /\ \A j \in 0 .. n - 1 : j \in delivered[t]
      /\ l \in delivered[t] \union {-1} /\ \A j \in delivered[t] \union {-1} : j <= l
  BY <1>1 DEF Place
<1>3. CASE (\A p \in P : p.track # t) /\ net'[t] = net[t]
  <2>1. ~(out'.pkt # Hole /\ out'.pkt.track = t)
    <3> SUFFICES ASSUME out'.pkt # Hole, out'.pkt.track = t PROVE FALSE
      OBVIOUS
    <3>1. out'.pkt \in P \/ out'.pkt \in Held(t)
      BY <1>1, ReturnedFacts
    <3> QED
      BY <1>2, <1>3, <3>1
  <2>2. delivered'[t] = delivered[t]
    BY <1>1, <2>1, Recorded
  <2>3. seqBase'[t] = seqBase[t]
    <3>1. ASSUME NEW u \in Tracks, NEW k \in Nat, Passes(P, u, k) \/ Waits(P, u, k) PROVE u # t
      BY <1>3, <2>1, <3>1, FilterAssumption DEF Passes, Waits, GivesUp
    <3>2. CASE Idle \/ \E u \in Tracks : PassesLate(P, u)
      BY <3>2 DEF Idle, PassesLate
    <3>3. ASSUME NEW u \in Tracks, NEW k \in Nat, Passes(P, u, k) \/ Waits(P, u, k)
          PROVE  seqBase'[t] = seqBase[t]
      BY <1>1, <3>1, <3>3, OtherTrack
    <3> QED
      BY <1>1, <3>2, <3>3, CallMoves
  <2>4. Held(t)' = {}
    <3> SUFFICES ASSUME NEW p \in Held(t)' PROVE FALSE
      OBVIOUS
    <3>1. p.track = t /\ (p \in Held(t) \/ p \in P)
      BY <1>1, NextHeldFacts, CallOrigins
    <3> QED
      BY <1>2, <1>3, <3>1
  <2>5. Place(t, n, l)'
    BY <1>1, <1>2, <1>3, <2>2, <2>3, <2>4 DEF Place
  <2> QED
    BY <2>1, <2>2, <2>5 DEF Stays
<1>4. ASSUME NEW i \in net[t], P = {Pkt(t, i)}, i \in Ids,
             \A j \in net[t] : i - j <= Ahead[t], net'[t] = net[t] \ {i}
      PROVE  Hands(t, n, i)
  <2>1. i = n /\ n \in Nat /\ Sent \in Nat
    <3>1. n \in net[t] /\ Sent \in Nat /\ n \in Nat /\ i \in n .. Sent - 1
      BY <1>2, <1>4, NetworkAssumption
    <3>2. i - n <= 0
      BY <1>4, <3>1 DEF InOrder
    <3> QED
      BY <3>1, <3>2
  <2> DEFINE p == Pkt(t, i)
  <2>2. p \in Packet /\ p # Hole /\ p.track = t /\ p.id = i /\ p.seq = seqBase[t]
    BY <1>2, <1>4, <2>1, PktFacts
  <2>3. Fetch(p)
    <3>1. PICK q \in Packet : P = {q} /\ Fetch(q)
      BY <1>1, <1>4 DEF CallOf
    <3>2. q = p
      BY <1>4, <3>1
    <3> QED
      BY <3>1, <3>2
  <2> HIDE DEF p
  <2>4. FetchInOrder(p)
    <3>1. seqBase[t] \in Nat
      BY <1>1, FilterAssumption DEF TypeOK, Seqs
    <3>2. ~(p.seq < seqBase[t]) /\ ~(p.seq - seqBase[t] > 0)
      BY <2>2, <3>1
    <3> QED
      BY <2>2, <2>3, <3>2 DEF Fetch, FetchLate, FetchUnordered
  <2>5. /\ out'.pkt = p /\ out'.disc = FALSE
        /\ seqBase'[t] = Succ(seqBase[t]) /\ samples'[t] = DropFirst(samples[t], 1)
    BY <1>1, <2>2, <2>4 DEF FetchInOrder, Returns, TypeOK
  <2>6. seqBase'[t] = (Base[t] + (i + 1)) % SeqMod
    <3>1. Base[t] + n \in Nat /\ SeqMod \in Nat \ {0} /\ (Base[t] + n) + 1 = Base[t] + (i + 1)
      BY <2>1, FilterAssumption
    <3> QED
      BY <1>2, <2>5, <3>1, ModNext DEF Succ
  <2>7. Held(t)' = {}
    <3>1. samples[t] \in Seq(Slot)
      BY <1>1 DEF TypeOK
    <3>2. Len(samples[t]) = 0
      <4> SUFFICES ASSUME Len(samples[t]) # 0 PROVE FALSE
        OBVIOUS
      <4>1. Len(samples[t]) \in 1 .. Len(samples[t]) /\ samples[t] # <<>>
        BY <3>1, LenProperties, EmptySeq
      <4>2. samples[t][Len(samples[t])] \in Held(t)
        BY <1>1, <4>1, HeldInSlot DEF OneLap
      <4> QED
        BY <1>2, <4>2
    <3>3. samples'[t] \in Seq(Slot) /\ Len(samples'[t]) = 0
      BY <2>5, <3>1, <3>2, DropFirstFacts
    <3>4. DOMAIN samples'[t] = 1 .. 0
      BY <3>3, LenProperties
    <3> QED
      BY <3>4 DEF Held
  <2>8. delivered'[t] = delivered[t] \union {i}
    BY <1>1, <2>2, <2>5, Recorded
  <2>9. i \notin lost[t] /\ n .. i - 1 = {} /\ net'[t] = (i + 1) .. Sent - 1
    BY <1>1, <1>2, <1>4, <2>1
  <2>10. /\ \A j \in delivered'[t] : j < i + 1
         /\ \A j \in 0 .. (i + 1) - 1 : j \in delivered'[t]
         /\ \A j \in delivered'[t] \union {-1} : j <= i
    <3>1. delivered[t] \subseteq Nat
      BY <1>1, NetworkAssumption DEF NetOK
    <3> QED
      BY <1>2, <2>1, <2>8, <3>1
  <2>11. Place(t, i + 1, i)'
    <3>1. i = (i + 1) - 1 /\ i \in delivered'[t]
      BY <2>1, <2>8
    <3> QED
      BY <1>1, <2>6, <2>7, <2>9, <2>10, <3>1 DEF Place
  <2> QED
    BY <1>4, <2>1, <2>2, <2>5, <2>8, <2>9, <2>11 DEF Hands, p
<1> QED
  BY <1>1, <1>3, <1>4, TakenFromNet

(* A packet that arrived and was not returned is in its slot. *)
LEMMA StillHeld ==
  ASSUME NInv, NothingLost, NEW t \in Tracks, First(t) + Sent < SeqMod,
         NEW j \in Arrived(t), j \notin delivered[t], seqBase[t] <= First(t) + j
  PROVE  ~EmptySlot(t, First(t) + j - seqBase[t])
<1>1. PICK p \in Held(t) : p.id = j
  BY DEF NothingLost, HeldIds
<1>2. IInv /\ p = Pkt(t, j) /\ j \in Ids
  BY <1>1 DEF NInv, Genuine, Arrived
<1>3. PICK m \in 1 .. Len(samples[t]) : p = samples[t][m] /\ p.seq = seqBase[t] + m - 1 /\ p # Hole
  BY <1>1, <1>2, HeldFacts
<1>4. p.seq = First(t) + j
  BY <1>2, StraightPkt
<1>5. seqBase[t] \in Nat /\ First(t) \in Nat /\ j \in Nat
  BY <1>2, StraightPkt, StraightNumber, FilterAssumption DEF IInv, TypeOK, Seqs
<1>6. m = First(t) + j - seqBase[t] + 1
  BY <1>3, <1>4, <1>5
<1> QED
  BY <1>3, <1>6 DEF EmptySlot

(* Within the promise of the window only lost packets are given up, and if  *)
(* the place reached is left empty, it is that of a lost packet too.        *)
LEMMA GivenUpLost ==
  ASSUME CInv, Orderly, NEW P, Takes(P), NEW t \in Tracks, Within(t),
         NEW n \in 0 .. Sent, NEW l \in -1 .. Sent - 1, Place(t, n, l),
         NEW k \in Nat, GivesUp(P, t, k)
  PROVE  /\ \A j \in n .. n + k - 1 : j \in lost[t]
         /\ n + k \in Ids
         /\ k > 0 /\ EmptySlot(t, k) => n + k \in lost[t]
<1>1. /\ NInv /\ NetOK /\ First(t) + Sent < SeqMod /\ Dups = 0 /\ Sent \in Nat
      /\ Ahead[t] \in Nat /\ Losses[t] \in Nat /\ Window \in Nat
  BY NetworkAssumption, FilterAssumption DEF CInv, NInv, Within, Orderly
<1>2. First(t) \in Nat /\ seqBase[t] = First(t) + n /\ SeqMod \in Nat
  BY <1>1, StraightNumber DEF Place
<1>3. NothingLost
  <2>1. WithinALap
    BY <1>1, <1>2 DEF WithinALap
  <2> QED
    BY <2>1 DEF CInv
<1>4. PICK i \in Ids :
        /\ Pkt(t, i) \in P /\ seqBase[t] + k <= First(t) + i
        /\ \A j \in Ids : seqBase[t] <= First(t) + j /\ First(t) + j < seqBase[t] + k
             => i - j > Window /\ EmptySlot(t, First(t) + j - seqBase[t])
  <2>1. seqBase[t] \in First(t) .. First(t) + Sent
    BY <1>1, <1>2
  <2> QED
    BY <1>1, <2>1, GivenUpOrdered
<1>5. \A j \in net[t] : i - j <= Ahead[t]
  <2>1. Pkt(t, i).track = t /\ Pkt(t, i).id = i
    BY PktFacts
  <2>2. PICK m \in net[t] : P = {Pkt(t, m)} /\ m \in Ids /\ \A j \in net[t] : m - j <= Ahead[t]
    BY <1>1, <1>4, <2>1, TakenFromNet
  <2>3. m = i
    BY <1>4, <2>1, <2>2, PktFacts
  <2> QED
    BY <2>2, <2>3
<1>6. i \in Nat /\ i < Sent /\ n + k <= i /\ n + k \in Ids
  <2>1. i \in Nat /\ i < Sent
    BY <1>1, NetworkAssumption
  <2>2. n + k <= i
    BY <1>2, <1>4, <2>1
  <2> QED
    BY <1>1, <2>1, <2>2, NetworkAssumption
<1>7. ASSUME NEW j \in Ids, j >= n, j \notin net[t], EmptySlot(t, j - n) PROVE j \in lost[t]
  <2>1. j \in Nat
    BY <1>1, NetworkAssumption
  <2>2. j \notin delivered[t]
    BY <1>7, <2>1 DEF Place
  <2>3. seqBase[t] <= First(t) + j /\ First(t) + j - seqBase[t] = j - n
    BY <1>2, <1>7, <2>1
  <2>4. j \notin Arrived(t)
    <3> SUFFICES ASSUME j \in Arrived(t) PROVE FALSE
      OBVIOUS
    <3>1. ~EmptySlot(t, First(t) + j - seqBase[t])
      BY <1>1, <1>3, <2>2, <2>3, StillHeld
    <3> QED
      BY <1>7, <2>3, <3>1
  <2> QED
    BY <1>7, <2>4 DEF Arrived
<1>8. ASSUME NEW j \in n .. n + k - 1 PROVE j \in lost[t] /\ i - j > Window
  <2>1. j \in Ids /\ j \in Nat
    BY <1>1, <1>6, NetworkAssumption
  <2>2. seqBase[t] <= First(t) + j /\ First(t) + j < seqBase[t] + k /\ First(t) + j - seqBase[t] = j - n
    BY <1>2, <2>1
  <2>3. i - j > Window /\ EmptySlot(t, j - n)
    <3>1. i - j > Window /\ EmptySlot(t, First(t) + j - seqBase[t])
      BY <1>4, <2>1, <2>2
    <3> QED
      BY <2>2, <3>1
  <2>4. j \notin net[t]
    <3> SUFFICES ASSUME j \in net[t] PROVE FALSE
      OBVIOUS
    <3>1. i - j <= Ahead[t] /\ Ahead[t] <= Window
      BY <1>1, <1>5 DEF Within
    <3> QED
      BY <1>1, <1>6, <2>1, <2>3, <3>1
  <2> QED
    BY <1>7, <2>1, <2>3, <2>4
<1>9. ASSUME k > 0, EmptySlot(t, k) PROVE n + k \in lost[t]
  <2>1. (n + k) - 1 \in n .. n + k - 1 /\ n \in n .. n + k - 1
    BY <1>9
  <2>2. i - ((n + k) - 1) > Window /\ n \in lost[t]
    BY <1>8, <2>1
  <2>3. Ahead[t] < Window
    BY <2>2 DEF Within, CInv, Narrow
  <2>4. n + k \notin net[t]
    <3> SUFFICES ASSUME n + k \in net[t] PROVE FALSE
      OBVIOUS
    <3>1. i - (n + k) <= Ahead[t]
      BY <1>5
    <3> QED
      BY <1>1, <1>6, <2>2, <2>3, <3>1
  <2>5. EmptySlot(t, (n + k) - n) /\ n + k >= n
    <3>1. (n + k) - n = k /\ n + k >= n
      OBVIOUS
    <3> QED
      BY <1>9, <3>1
  <2> QED
    BY <1>6, <1>7, <2>4, <2>5
<1> QED
  BY <1>6, <1>8, <1>9

(* A track that is not InOrder and moves to packet n. *)
LEMMA PlaceAt ==
  ASSUME NEW t \in Tracks, First(t) + Sent < SeqMod, ~InOrder(t),
         NEW n \in 0 .. Sent, NEW l, seqBase'[t] = First(t) + n,
         \A i \in delivered'[t] : i < n,
         \A i \in 0 .. n - 1 : i \in delivered'[t] \union lost'[t],
         l \in delivered'[t] \union {-1}, \A i \in delivered'[t] \union {-1} : i <= l,
         l = n - 1 \/ n \in lost'[t]
  PROVE  Place(t, n, l)'
<1>1. seqBase'[t] = (Base[t] + n) % SeqMod
  BY StraightNumber
<1>2. ~InOrder(t)'
  BY DEF InOrder
<1> QED
  BY <1>1, <1>2 DEF Place

LEMMA WithinStep ==
  ASSUME CInv, Orderly, NEW P, Takes(P), NEW t \in Tracks, Within(t), ~InOrder(t),
         NEW n \in 0 .. Sent, NEW l \in -1 .. Sent - 1, Place(t, n, l)
  PROVE  Stays(t, l) \/ \E i \in Ids : Hands(t, n, i)
<1>1. /\ NInv /\ IInv /\ NetOK /\ RecordDelivery /\ CallOf(P) /\ TypeOK
      /\ lost' = lost /\ First(t) + Sent < SeqMod /\ Sent \in Nat /\ n \in Nat
  BY NetworkAssumption DEF CInv, NInv, IInv, Takes, Within
<1>2. /\ seqBase[t] = First(t) + n /\ First(t) \in Nat /\ seqBase[t] \in First(t) .. First(t) + Sent
      /\ delivered[t] \subseteq Nat
  BY <1>1, StraightNumber, NetworkAssumption DEF Place, NetOK
<1>3. /\ \A j \in delivered[t] : j < n
      /\ \A j \in 0 .. n - 1 : j \in delivered[t] \union lost[t]
      /\ l \in delivered[t] \union {-1} /\ \A j \in delivered[t] \union {-1} : j <= l
      /\ l = n - 1 \/ n \in lost[t]
  BY DEF Place
<1>4. ASSUME seqBase'[t] = seqBase[t], ~(out'.pkt # Hole /\ out'.pkt.track = t)
      PROVE  Stays(t, l)
  <2>1. delivered'[t] = delivered[t]
    BY <1>1, <1>4, Recorded
  <2>2. Place(t, n, l)'
    BY <1>1, <1>2, <1>3, <1>4, <2>1, PlaceAt
  <2> QED
    BY <1>4, <2>1, <2>2 DEF Stays
<1>5. CASE Idle
  BY <1>4, <1>5 DEF Idle
<1>6. ASSUME NEW u \in Tracks, PassesLate(P, u) PROVE Stays(t, l)
  <2>1. out'.pkt \in P /\ out'.pkt # Hole /\ out'.pkt.track = u /\ out'.pkt.seq < seqBase[u] /\ seqBase' = seqBase
    BY <1>6, FilterAssumption DEF PassesLate
  <2>2. CASE u # t
    BY <1>4, <2>1, <2>2
  <2>3. CASE u = t
    <3>1. PICK i \in net[t] : P = {Pkt(t, i)} /\ i \in Ids
      BY <1>1, <2>1, <2>3, TakenFromNet DEF Orderly
    <3>2. First(t) + i < seqBase[t] /\ i \in Nat
      BY <1>1, <2>1, <2>3, <3>1, StraightPkt
    <3>3. i \in delivered[t] \union lost[t]
      BY <1>2, <1>3, <3>2
    <3>4. delivered[t] \subseteq Arrived(t) /\ net[t] \intersect lost[t] = {}
      BY <1>1 DEF NInv, Genuine, NetOK
    <3> QED
      BY <3>1, <3>3, <3>4 DEF Arrived
  <2> QED
    BY <2>2, <2>3
<1>7. ASSUME NEW u \in Tracks, NEW k \in Nat, Passes(P, u, k) \/ Waits(P, u, k), u # t
      PROVE  Stays(t, l)
  <2>1. ~(out'.pkt # Hole /\ out'.pkt.track = t)
    BY <1>7 DEF Passes, Waits
  <2> QED
    BY <1>1, <1>4, <1>7, <2>1, OtherTrack
<1>8. ASSUME NEW k \in Nat, Passes(P, t, k) PROVE \E i \in Ids : Hands(t, n, i)
  <2>1. PICK i \in Ids :
           /\ out'.pkt = Pkt(t, i) /\ out'.pkt # Hole
           /\ i \in Arrived(t)' /\ First(t) + i = seqBase[t] + k
           /\ delivered'[t] = delivered[t] \union {i}
           /\ seqBase'[t] = seqBase[t] + k + 1
    BY <1>1, <1>2, <1>8, PassesFacts
  <2>2. i \in Nat /\ i < Sent /\ i = n + k /\ seqBase'[t] = First(t) + (i + 1)
    <3>1. i \in Nat /\ i < Sent
      BY <1>1, NetworkAssumption
    <3>2. First(t) + i = (First(t) + n) + k /\ seqBase'[t] = (First(t) + n) + k + 1
      BY <1>2, <2>1
    <3> QED
      BY <1>1, <1>2, <3>1, <3>2
  <2>3. i \notin lost[t]
    BY <1>1, <2>1 DEF Arrived
  <2>4. \A j \in n .. i - 1 : j \in lost[t]
    <3>1. CASE k = 0
      BY <1>1, <2>2, <3>1
    <3>2. CASE GivesUp(P, t, k)
      BY <2>2, <3>2, GivenUpLost
    <3> QED
      BY <1>8, <3>1, <3>2 DEF Passes
  <2>5. (i = n /\ out'.disc = FALSE) \/ (i > n /\ out'.disc = TRUE)
    BY <1>1, <1>8, <2>2 DEF Passes
  <2>6. /\ \A j \in delivered'[t] : j < i + 1
        /\ \A j \in delivered'[t] \union {-1} : j <= i
        /\ i + 1 \in 0 .. Sent /\ i \in delivered'[t] \union {-1} /\ i = (i + 1) - 1
    BY <1>1, <1>2, <1>3, <2>1, <2>2
  <2>7. \A j \in 0 .. (i + 1) - 1 : j \in delivered'[t] \union lost'[t]
    <3> SUFFICES ASSUME NEW j \in 0 .. (i + 1) - 1 PROVE j \in delivered'[t] \union lost'[t]
      OBVIOUS
    <3>1. CASE j < n
      BY <1>1, <1>3, <2>1, <3>1
    <3>2. CASE n <= j /\ j <= i - 1
      BY <1>1, <2>2, <2>4, <3>2
    <3>3. CASE j = i
      BY <2>1, <3>3
    <3> QED
      BY <1>1, <2>2, <3>1, <3>2, <3>3
  <2>8. Place(t, i + 1, i)'
    BY <1>1, <2>2, <2>6, <2>7, PlaceAt
  <2>9. n <= i
    BY <1>1, <2>2
  <2> QED
    BY <2>1, <2>3, <2>4, <2>5, <2>8, <2>9 DEF Hands
<1>9. ASSUME NEW k \in Nat, Waits(P, t, k) PROVE Stays(t, l)
  <2>1. /\ seqBase'[t] = seqBase[t] + k /\ GivesUp(P, t, k) /\ EmptySlot(t, k)
        /\ out' = [pkt |-> Hole, disc |-> FALSE]
    BY <1>1, <1>9 DEF Waits, TypeOK
  <2>2. CASE k = 0
    <3>1. seqBase'[t] = seqBase[t]
      BY <1>1, <1>2, <2>1, <2>2
    <3> QED
      BY <1>4, <2>1, <3>1
  <2>3. CASE k > 0
    <3>1. /\ \A j \in n .. n + k - 1 : j \in lost[t]
          /\ n + k \in Ids /\ n + k \in lost[t]
      BY <1>1, <2>1, <2>3, GivenUpLost
    <3>2. ~(out'.pkt # Hole /\ out'.pkt.track = t) /\ delivered'[t] = delivered[t]
      BY <1>1, <2>1, NothingReturned
    <3>3. n + k \in 0 .. Sent /\ seqBase'[t] = First(t) + (n + k)
      BY <1>1, <1>2, <2>1, <3>1, NetworkAssumption
    <3>4. \A j \in 0 .. (n + k) - 1 : j \in delivered'[t] \union lost'[t]
      <4> SUFFICES ASSUME NEW j \in 0 .. (n + k) - 1 PROVE j \in delivered[t] \union lost[t]
        BY <1>1, <3>2
      <4>1. CASE j < n
        BY <1>1, <1>3, <4>1
      <4>2. CASE n <= j
        BY <1>1, <3>1, <4>2
      <4> QED
        BY <1>1, <4>1, <4>2
    <3>5. \A j \in delivered'[t] : j < n + k
      BY <1>1, <1>2, <1>3, <2>3, <3>2
    <3>6. Place(t, n + k, l)'
      BY <1>1, <1>3, <3>1, <3>2, <3>3, <3>4, <3>5, PlaceAt
    <3> QED
      BY <3>2, <3>3, <3>6 DEF Stays
  <2> QED
    BY <2>2, <2>3
<1> QED
  BY <1>1, <1>5, <1>6, <1>7, <1>8, <1>9, CallMoves

(* Each track after a call: some packet was handed over, or none. *)
LEMMA PlaceStep ==
  ASSUME CInv, Orderly, NEW P, Takes(P), NEW t \in Tracks,
         NEW n \in 0 .. Sent, NEW l \in -1 .. Sent - 1, Place(t, n, l)
  PROVE  Stays(t, l) \/ \E i \in Ids : Hands(t, n, i)
<1>1. InOrder(t) \/ Within(t)
  BY DEF Orderly
<1> QED
  BY <1>1, InOrderStep, WithinStep

LEMMA HandsPlace ==
  ASSUME NEW t \in Tracks, NEW n, NEW i \in Ids, Hands(t, n, i)
  PROVE  i + 1 \in 0 .. Sent /\ i \in -1 .. Sent - 1 /\ Place(t, i + 1, i)'
  BY NetworkAssumption DEF Hands

LEMMA TakesCInv ==
  ASSUME CInv, Orderly, NEW P, Takes(P), ReorderNext
  PROVE  CInv'
<1>1. NInv /\ NInv' /\ lost' = lost
  BY TakesNInv DEF CInv, Takes
<1>2. ASSUME WithinALap PROVE NothingLost'
  BY <1>1, <1>2, NothingLostStep DEF CInv
<1>3. \A t \in Tracks : Losses[t] = 0 => Narrow(t) \/ lost'[t] = {}
  BY <1>1 DEF CInv
<1>4. ASSUME NEW t \in Tracks
      PROVE  \E n \in 0 .. Sent : \E l \in -1 .. Sent - 1 : Place(t, n, l)'
  <2>1. PICK n \in 0 .. Sent, l \in -1 .. Sent - 1 : Place(t, n, l)
    BY DEF CInv
  <2>2. CASE Stays(t, l)
    BY <2>2 DEF Stays
  <2>3. CASE \E i \in Ids : Hands(t, n, i)
    BY <2>3, HandsPlace
  <2> QED
    BY <2>1, <2>2, <2>3, PlaceStep
<1> QED
  BY <1>1, <1>2, <1>3, <1>4 DEF CInv, WithinALap, Narrow, InOrder

(* Packets can be lost only up to the bound: with none, none is. *)
LEMMA LossAllowed ==
  ASSUME NetOK, NEW t \in Tracks, NEW i \in Ids, Lose(t, i)
  PROVE  Losses[t] # 0
<1>1. IsFiniteSet(Ids) /\ lost[t] \subseteq Ids
  BY NetworkAssumption, FS_Interval DEF NetOK
<1>2. IsFiniteSet(lost[t])
  BY <1>1, FS_Subset
<1>3. Cardinality(lost[t]) \in Nat
  BY <1>2, FS_CardinalityType
<1>4. Cardinality(lost[t]) < Losses[t]
  BY DEF Lose
<1> QED
  BY <1>3, <1>4

LEMMA LoseCInv ==
  ASSUME CInv, Orderly, NEW u \in Tracks, NEW i \in Ids, Lose(u, i)
  PROVE  CInv'
<1>1. /\ NInv /\ NetOK /\ NInv' /\ UNCHANGED <<vars, dups, delivered>>
      /\ lost'[u] = lost[u] \union {i} /\ \A v \in Tracks \ {u} : lost'[v] = lost[v]
      /\ \A v \in Tracks : Arrived(v)' = Arrived(v) /\ Held(v)' = Held(v)
      /\ Losses[u] # 0 /\ seqBase' = seqBase /\ delivered' = delivered
  BY LoseNet, LossAllowed DEF CInv, NInv, vars
<1>2. ASSUME WithinALap PROVE NothingLost'
  BY <1>1, <1>2 DEF CInv, NothingLost, HeldIds
<1>3. ASSUME NEW t \in Tracks, NEW n, NEW l, Place(t, n, l) PROVE Place(t, n, l)'
  <2>1. lost[t] \subseteq lost'[t] /\ (InOrder(t) => t # u /\ net'[t] = net[t])
    BY <1>1, LoseNet DEF InOrder, CInv
  <2> QED
    BY <1>1, <1>3, <2>1 DEF Place, InOrder
<1>4. \A t \in Tracks : Losses[t] = 0 => Narrow(t) \/ lost'[t] = {}
  <2>1. \A t \in Tracks : Losses[t] = 0 => t # u
    BY <1>1
  <2> QED
    BY <1>1, <2>1 DEF CInv
<1> QED
  BY <1>1, <1>2, <1>3, <1>4 DEF CInv, WithinALap, Narrow, InOrder

LEMMA StepCInv == Orderly /\ CInv /\ [ReorderNext]_allVars => CInv'
<1> SUFFICES ASSUME Orderly, CInv, [ReorderNext]_allVars PROVE CInv'
  OBVIOUS
<1>1. NInv /\ NetOK /\ NInv'
  BY StepNInv DEF CInv, NInv
<1>2. CASE UNCHANGED allVars
  <2>1. /\ seqBase' = seqBase /\ samples' = samples /\ delivered' = delivered
        /\ lost' = lost /\ net' = net
    BY <1>2 DEF allVars
  <2>2. \A t \in Tracks : Held(t)' = Held(t) /\ Arrived(t)' = Arrived(t)
    BY <2>1 DEF Held, Arrived
  <2>3. ASSUME NEW t \in Tracks, NEW n, NEW l, Place(t, n, l) PROVE Place(t, n, l)'
    BY <2>1, <2>2, <2>3 DEF Place, InOrder
  <2>4. NothingLost => NothingLost'
    BY <2>1, <2>2 DEF NothingLost, HeldIds
  <2> QED
    BY <1>1, <2>1, <2>3, <2>4 DEF CInv, WithinALap, Narrow, InOrder
<1>3. CASE ReorderNext
  BY <1>1, <1>3, ReorderStepCases, TakesCInv, LoseCInv
<1> QED
  BY <1>2, <1>3

LEMMA PlaceInvariance == Orderly => (ReorderSpec => [](Orderly /\ CInv))
<1> DEFINE I == Orderly /\ CInv
<1>1. Orderly /\ ReorderInit => I
  BY InitCInv
<1>2. I /\ [ReorderNext]_allVars => I'
  BY StepCInv DEF Orderly, InOrder, Within, First
<1>3. Orderly => (ReorderSpec => []I)
  <2> HIDE DEF I
  <2> QED
    BY <1>1, <1>2, PTL DEF ReorderSpec
<1> QED
  BY <1>3

LEMMA LeastIs ==
  ASSUME NEW S \in SUBSET Int, NEW m \in S, \A i \in S : m <= i
  PROVE  Min(S) = m
<1>1. \A x \in S : (\A y \in S : x <= y) => x = m
  OBVIOUS
<1> QED
  BY <1>1 DEF Min

(* seq_base is the number of the first packet not returned yet, on a track  *)
(* that has lost none, in a network that overtakes by fewer than Window     *)
(* places (by Window where it never loses, or not at all where the numbers  *)
(* wrap) and repeats nothing (src/RtpFilter.h:67).                          *)
THEOREM AlwaysNextRequired ==
  Orderly => (ReorderSpec => []NextRequired)
<1> DEFINE I == Orderly /\ CInv
<1>1. I => NextRequired
  <2> SUFFICES ASSUME CInv, NEW t \in Tracks, lost[t] = {}
               PROVE  seqBase[t] = (Base[t] + FirstMissing(t)) % SeqMod
    BY DEF NextRequired
  <2>1. PICK n \in 0 .. Sent, l \in -1 .. Sent - 1 : Place(t, n, l)
    BY DEF CInv
  <2> DEFINE S == (0 .. Sent) \ delivered[t]
  <2>2. n \in S /\ S \in SUBSET Int
    <3>1. n \notin delivered[t]
      BY <2>1 DEF Place
    <3> QED
      BY <3>1
  <2>3. \A i \in S : n <= i
    <3>1. \A i \in 0 .. n - 1 : i \in delivered[t]
      BY <2>1 DEF Place
    <3> QED
      BY <3>1, NetworkAssumption
  <2>4. FirstMissing(t) = Min(S)
    BY DEF FirstMissing
  <2> HIDE DEF S
  <2>5. FirstMissing(t) = n
    BY <2>2, <2>3, <2>4, LeastIs
  <2> QED
    BY <2>1, <2>5 DEF Place
<1>2. Orderly => (ReorderSpec => []I)
  BY PlaceInvariance
<1> HIDE DEF I
<1> QED
  BY <1>1, <1>2, PTL

(* The greatest packet returned, which the refinement below is about. *)
LEMMA PlaceLast ==
  ASSUME NetOK, NEW t \in Tracks, NEW n, NEW l, Place(t, n, l)
  PROVE  LastDelivered(t) = l
<1> DEFINE S == delivered[t] \union {-1}
<1>1. S \in SUBSET Int /\ l \in S /\ \A i \in S : i <= l
  BY NetworkAssumption DEF NetOK, Place
<1>2. LastDelivered(t) = Max(S)
  BY DEF LastDelivered
<1> HIDE DEF S
<1> QED
  BY <1>1, <1>2, GreatestIs

LEMMA PlaceLastNext ==
  ASSUME NetOK', NEW t \in Tracks, NEW n, NEW l, Place(t, n, l)'
  PROVE  LastDelivered(t)' = l
<1> DEFINE S == delivered'[t] \union {-1}
<1>1. S \in SUBSET Int /\ l \in S /\ \A i \in S : i <= l
  BY NetworkAssumption DEF NetOK, Place
<1>2. LastDelivered(t)' = Max(S)
  BY DEF LastDelivered
<1> HIDE DEF S
<1> QED
  BY <1>1, <1>2, GreatestIs

(* What OrderedDelivery sees of the state. *)
Lasts == [t \in Tracks |-> LastDelivered(t)]
Handed == IF out.pkt = Hole
          THEN [track |-> NoTrack, id |-> -1, disc |-> FALSE]
          ELSE [track |-> out.pkt.track, id |-> out.pkt.id, disc |-> out.disc]

(* A call that returns nothing is DeliverNothing, one that returns a packet *)
(* is Deliver.                                                              *)
LEMMA CallDelivers ==
  ASSUME CInv, Orderly, NEW P, Takes(P), NInv'
  PROVE  \/ Handed' = [track |-> NoTrack, id |-> -1, disc |-> FALSE] /\ lost' = lost /\ Lasts' = Lasts
         \/ \E t \in Tracks, i \in 0 .. Sent - 1 :
              /\ i > Lasts[t] /\ i \notin lost[t] /\ (Lasts[t] + 1) .. (i - 1) \subseteq lost[t]
              /\ Lasts' = [Lasts EXCEPT ![t] = i]
              /\ Handed' = [track |-> t, id |-> i, disc |-> i # Lasts[t] + 1]
              /\ lost' = lost
<1>1. /\ NInv /\ NetOK /\ NetOK' /\ lost' = lost /\ Sent \in Nat /\ Ids = 0 .. Sent - 1
  BY NetworkAssumption DEF CInv, NInv, Takes
<1>2. ASSUME NEW t \in Tracks, ~(out'.pkt # Hole /\ out'.pkt.track = t)
      PROVE  LastDelivered(t)' = LastDelivered(t)
  <2>1. PICK n \in 0 .. Sent, l \in -1 .. Sent - 1 : Place(t, n, l)
    BY DEF CInv
  <2>2. Stays(t, l)
    <3>1. ASSUME NEW i \in Ids, Hands(t, n, i) PROVE FALSE
      BY <1>2, <3>1, PktFacts DEF Hands
    <3> QED
      BY <2>1, <3>1, PlaceStep
  <2> QED
    BY <1>1, <2>1, <2>2, PlaceLast, PlaceLastNext DEF Stays
<1>3. CASE out'.pkt = Hole
  <2>1. Lasts' = Lasts
    BY <1>2, <1>3 DEF Lasts
  <2> QED
    BY <1>1, <1>3, <2>1 DEF Handed
<1>4. CASE out'.pkt # Hole
  <2>1. PICK t \in Tracks : out'.pkt.track = t
    BY <1>1, <1>4, ReturnedFacts
  <2>2. PICK n \in 0 .. Sent, l \in -1 .. Sent - 1 : Place(t, n, l)
    BY DEF CInv
  <2>3. PICK i \in Ids : Hands(t, n, i)
    BY <1>4, <2>1, <2>2, PlaceStep DEF Stays
  <2>4. i \in 0 .. Sent - 1 /\ i + 1 \in 0 .. Sent /\ Lasts[t] = l
    BY <1>1, <2>2, <2>3, PlaceLast DEF Lasts
  <2>5. LastDelivered(t)' = i
    BY <1>1, <2>3, PlaceLastNext DEF Hands
  <2>6. \A u \in Tracks \ {t} : LastDelivered(u)' = LastDelivered(u)
    BY <1>2, <2>1
  <2>7. Lasts' = [Lasts EXCEPT ![t] = i]
    BY <2>5, <2>6 DEF Lasts
  <2>8. l < n /\ n <= i /\ n \in Nat
    <3>1. l \in delivered[t] => l < n
      BY <2>2 DEF Place
    <3>2. l \in delivered[t] \/ l = -1
      BY <2>2 DEF Place
    <3> QED
      BY <2>3, <3>1, <3>2 DEF Hands
  <2>9. (l + 1) .. (i - 1) \subseteq lost[t]
    <3> SUFFICES ASSUME NEW j \in (l + 1) .. (i - 1) PROVE j \in lost[t]
      OBVIOUS
    <3>1. CASE j >= n
      BY <2>3, <2>4, <2>8, <3>1 DEF Hands
    <3>2. CASE j < n
      <4>1. j \in 0 .. n - 1
        BY <2>8, <3>2
      <4>2. j \notin delivered[t]
        <5> SUFFICES ASSUME j \in delivered[t] PROVE FALSE
          OBVIOUS
        <5>1. j <= l
          BY <2>2 DEF Place
        <5> QED
          BY <5>1
      <4> QED
        BY <2>2, <4>1, <4>2 DEF Place
    <3> QED
      BY <2>8, <3>1, <3>2
  <2>10. out'.disc = (i # l + 1)
    <3>1. i \notin lost[t] /\ (i = n \/ i > n)
      BY <2>3 DEF Hands
    <3>2. CASE i = n
      <4>1. i = l + 1
        BY <2>2, <2>8, <3>1, <3>2 DEF Place
      <4>2. out'.disc = FALSE
        BY <2>3, <2>8, <3>2 DEF Hands
      <4> QED
        BY <4>1, <4>2
    <3>3. CASE i > n
      <4>1. i # l + 1
        BY <2>4, <2>8, <3>3
      <4>2. out'.disc = TRUE
        BY <2>3, <2>4, <2>8, <3>3 DEF Hands
      <4> QED
        BY <4>1, <4>2
    <3> QED
      BY <3>1, <3>2, <3>3
  <2>11. Handed' = [track |-> t, id |-> i, disc |-> i # l + 1]
    <3>1. out'.pkt = Pkt(t, i) /\ out'.pkt.id = i
      BY <2>3, PktFacts DEF Hands
    <3> QED
      BY <1>4, <2>1, <2>10, <3>1 DEF Handed
  <2>12. i > l /\ i \notin lost[t]
    BY <2>3, <2>4, <2>8 DEF Hands
  <2> QED
    BY <1>1, <2>4, <2>7, <2>9, <2>11, <2>12
<1> QED
  BY <1>3, <1>4

(* A packet that is lost was not passed over yet. *)
LEMMA LosesAhead ==
  ASSUME CInv, Orderly, NEW t \in Tracks, NEW i \in Ids, Lose(t, i)
  PROVE  /\ i > Lasts[t] /\ i \in 0 .. Sent - 1
         /\ lost' = [lost EXCEPT ![t] = lost[t] \union {i}]
         /\ Lasts' = Lasts /\ Handed' = Handed
<1>1. NInv /\ NetOK /\ Genuine /\ i \in net[t] /\ UNCHANGED <<vars, delivered>>
  BY LoseNet DEF CInv, NInv
<1>2. PICK n \in 0 .. Sent, l \in -1 .. Sent - 1 : Place(t, n, l)
  BY DEF CInv
<1>3. Lasts[t] = l /\ i \in Nat /\ i \in 0 .. Sent - 1
  BY <1>1, <1>2, PlaceLast, NetworkAssumption DEF Lasts
<1>4. i \notin delivered[t] /\ i \notin lost[t]
  BY <1>1 DEF NetOK, Genuine, Arrived
<1>5. i >= n
  BY <1>2, <1>3, <1>4 DEF Place
<1>6. i > l
  <2>1. l < n
    BY <1>2 DEF Place
  <2> QED
    BY <1>3, <1>5, <2>1
<1>7. Lasts' = Lasts /\ Handed' = Handed
  BY <1>1 DEF vars, Lasts, Handed, LastDelivered
<1> QED
  BY <1>3, <1>6, <1>7 DEF Lose

(* In a network within the promise of the window, get_sample2 delivers each *)
(* track in order, passes over lost packets only, and sets the              *)
(* discontinuity flag on exactly the packets that follow a gap              *)
(* (src/RtpFilter.cpp:71-123).                                              *)
THEOREM ReorderImplementsOrderedDelivery ==
  Orderly => (ReorderSpec => ImplementsOrderedDelivery)
<1> DEFINE I == Orderly /\ CInv
<1>1. Orderly /\ ReorderInit => Delivery!Init
  <2> SUFFICES ASSUME Orderly, ReorderInit PROVE Delivery!Init
    OBVIOUS
  <2>1. \A t \in Tracks : LastDelivered(t) = -1
    <3> TAKE t \in Tracks
    <3>1. delivered[t] \union {-1} = {-1}
      BY DEF ReorderInit
    <3>2. Max({-1}) = -1
      BY GreatestIs
    <3> QED
      BY <3>1, <3>2 DEF LastDelivered
  <2> QED
    BY <2>1 DEF ReorderInit, Init, Delivery!Init, Delivery!Nothing
<1>2. I /\ [ReorderNext]_allVars => [Delivery!Next]_(Delivery!vars)
  <2> SUFFICES ASSUME Orderly, CInv, [ReorderNext]_allVars
               PROVE  Delivery!Next \/ (lost' = lost /\ Lasts' = Lasts /\ Handed' = Handed)
    BY DEF Delivery!vars, Lasts, Handed
  <2>1. NetOK /\ NInv'
    BY StepNInv DEF CInv, NInv
  <2>2. CASE UNCHANGED allVars
    BY <2>2 DEF allVars, Lasts, Handed, LastDelivered
  <2>3. ASSUME NEW t \in Tracks, NEW i \in Ids, Lose(t, i) PROVE Delivery!Next
    <3>1. /\ i > Lasts[t] /\ i \in 0 .. Sent - 1
          /\ lost' = [lost EXCEPT ![t] = lost[t] \union {i}]
          /\ Lasts' = Lasts /\ Handed' = Handed
      BY <2>3, LosesAhead
    <3>2. Delivery!Lose(t, i)
      BY <3>1 DEF Delivery!Lose, Lasts, Handed
    <3> QED
      BY <3>1, <3>2 DEF Delivery!Next
  <2>4. ASSUME NEW P, Takes(P) PROVE Delivery!Next
    <3>1. CASE /\ Handed' = [track |-> NoTrack, id |-> -1, disc |-> FALSE]
               /\ lost' = lost /\ Lasts' = Lasts
      <4>1. Delivery!DeliverNothing
        BY <3>1 DEF Delivery!DeliverNothing, Delivery!Nothing, Lasts, Handed
      <4> QED
        BY <4>1 DEF Delivery!Next
    <3>2. ASSUME NEW t \in Tracks, NEW i \in 0 .. Sent - 1,
                 i > Lasts[t], i \notin lost[t], (Lasts[t] + 1) .. (i - 1) \subseteq lost[t],
                 Lasts' = [Lasts EXCEPT ![t] = i],
                 Handed' = [track |-> t, id |-> i, disc |-> i # Lasts[t] + 1],
                 lost' = lost
          PROVE  Delivery!Next
      <4>1. Delivery!Deliver(t, i)
        BY <3>2 DEF Delivery!Deliver, Lasts, Handed
      <4> QED
        BY <4>1 DEF Delivery!Next
    <3> QED
      BY <2>1, <2>4, <3>1, <3>2, CallDelivers
  <2> QED
    BY <2>1, <2>2, <2>3, <2>4, ReorderStepCases
<1>3. Orderly => (ReorderSpec => []I)
  BY PlaceInvariance
<1> HIDE DEF I
<1> QED
  BY <1>1, <1>2, <1>3, PTL DEF ReorderSpec, ImplementsOrderedDelivery, Delivery!Spec
=============================================================================
