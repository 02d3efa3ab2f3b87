------------------------- MODULE RtpReceiverProofs -------------------------
(***************************************************************************)
(* Proofs about RtpReceiver: behind a network within the promise of the    *)
(* window, and with seeks that come between frames, the H.264 samples are  *)
(* the frames of the stream, with their headers and units, and a frame is  *)
(* missing only for a loss.  CInv of RtpReorderProofs says which packet    *)
(* comes next and whether it is flagged; what is added here is what the    *)
(* parser holds of the frame under way.                                    *)
(***************************************************************************)
EXTENDS RtpReceiver, RtpReorderProofs

(* The networks: they overtake fewer than Window places where the numbers  *)
(* do not wrap, or are in order, so that a seek may drop what waits.       *)
Steady ==
  /\ Dups = 0
  /\ \A t \in Tracks : InOrder(t) \/ (First(t) + Sent < SeqMod /\ Ahead[t] < Window)

(* The streams: the fragments of a unit follow each other, agree on what    *)
(* the unit is, and a mark is on the last packet of a unit.                 *)
Framed(s) ==
  \A k \in Ids :
    /\ s[k].mark => s[k].kind \in {"single", "end"}
    /\ s[k].kind \in {"middle", "end"} =>
         /\ k # 0 /\ s[k - 1].kind \in {"start", "middle"}
         /\ s[k].idr = s[k - 1].idr
    /\ s[k].kind \in {"start", "single"} => k = 0 \/ s[k - 1].kind \in {"single", "end"}
WellFormed == \A s \in Streams : Framed(s)

----------------------------------------------------------------------------
(* What the parser holds. *)
Piece == [part : {"payload"}, of : Ids] \union [part : {"header"}, at : Nat, cell : Nat]
Flags == {"sync", "discontinuity", "fragment", "frag_lost"}
Samples == [data : Seq(Piece), size : Nat, flags : SUBSET Flags]

Run(i, l) == [k \in 1 .. l - i + 1 |-> i + k - 1]
Ends(i, l) == {k \in i .. l : stream[k].kind \in {"end", "single"}}
Leads(k) == stream[k].idr /\ stream[k].kind \in {"start", "single"}

(* A sample with the packets from i to l. *)
Contains(s, i, l) ==
  /\ PacketsOf(s) = Run(i, l)
  /\ s.size = Len(s.data)
  /\ s.size = (l - i + 1) + Cardinality(Starts(i, l))
  /\ "sync" \in s.flags <=> \E k \in i .. l : Leads(k)

(* Its headers, as long as they fit the cells there were at first. *)
HeadedIn(cells, at, data, n) ==
  n <= BufSize =>
    \A k \in DOMAIN data : data[k].part = "header" =>
      /\ data[k].at = at
      /\ data[k].cell \in 1 .. n
      /\ k + 1 \in DOMAIN data /\ data[k + 1].part = "payload"
      /\ cells[data[k].cell] = data[k + 1].of
Headed(s, i, l) == HeadedIn(buf, moved, s.data, Cardinality(Starts(i, l)))

(* The sizes of the units that end in packets i to l, among those in ns. *)
Measures(ns, i, l) ==
  \A k \in Ends(i, l) :
    SumTo(ns, Cardinality(Ends(i, k))) = (k - i + 1) + Cardinality(Starts(i, k))

HasUnits(ns, i, l) == Len(ns) = Cardinality(Ends(i, l)) /\ Measures(ns, i, l)

(* A frame may begin at packet i; one under way from i has come to l. *)
Begins(i) == i = 0 \/ stream[i - 1].mark
UnderWay(i, l) ==
  /\ i \in 0 .. l + 1 /\ Begins(i) /\ \A k \in i .. l : ~stream[k].mark
  /\ lastEnd < i

(* The last unit is under way, too. *)
InUnit(i, l) == l >= i /\ stream[l].kind \in {"start", "middle"}

(* nalu_sizes_ and nalu_count_ in the middle of a frame. *)
CountedIn(ns, n, i, l) ==
  /\ n = Cardinality(Ends(i, l)) /\ n <= Len(ns)
  /\ \A m \in 1 .. n : ns[m] > 0
  /\ Measures(ns, i, l)
  /\ InUnit(i, l) =>
       /\ n < Len(ns) /\ ns[n + 1] > 0
       /\ SumTo(ns, n + 1) = (l - i + 1) + Cardinality(Starts(i, l))
  /\ ~InUnit(i, l) => SumTo(ns, n) = (l - i + 1) + Cardinality(Starts(i, l))
Counted(i, l) == CountedIn(naluSizes, naluCount, i, l)

(* With nothing missing, sample_ is the frame under way ... *)
Intact(l) ==
  \E i \in 0 .. l + 1 :
    /\ UnderWay(i, l)
    /\ Contains(kept[Video], i, l)
    /\ "discontinuity" \in kept[Video].flags <=> i # lastEnd + 1
    /\ bufUsed = Cardinality(Starts(i, l))
    /\ Headed(kept[Video], i, l)
    /\ WellFormed => Counted(i, l)

(* ... and otherwise a packet of it was lost, or the one before it. *)
Broken(l) ==
  /\ "discontinuity" \in kept[Video].flags
  /\ \E x \in lost[Video] : x <= l /\ \A k \in x + 1 .. l : ~stream[k].mark

(* What is handed over is a frame. *)
Frame(i, j) ==
  /\ IsFrame(i, j)
  /\ Contains(taken, i, j)
  /\ Headed(taken, i, j)
  /\ WellFormed => HasUnits(nalus, i, j)
HandedOver == HandsFrame => \E i, j \in Ids : Frame(i, j)

Typed ==
  /\ stream \in Streams /\ parsers \in Parsed
  /\ kept \in [Tracks -> Samples]
  /\ buf \in Seq(Ids \union {NoHeader}) /\ Len(buf) >= BufSize
  /\ bufUsed \in Nat /\ moved \in Nat
  /\ naluSizes \in Seq(Nat) /\ naluSizes # <<>> /\ naluCount \in Nat

(* The last packet of Video returned was l. *)
Stands(l) ==
  /\ LastDelivered(Video) = l
  /\ lastEnd \in -1 .. l
  /\ IF "frag_lost" \in kept[Video].flags THEN Broken(l) ELSE Intact(l)

Good == CInv /\ Typed /\ (\E l \in -1 .. Sent - 1 : Stands(l)) /\ HandedOver

RInv == cut \in BOOLEAN /\ (cut \/ Good)

----------------------------------------------------------------------------
(* SumTo, unfolded: a sum of one number more. *)
Adds(f, n, ns) == f = [k \in 0 .. n |-> IF k = 0 THEN 0 ELSE f[k - 1] + ns[k]]

LEMMA AddsAt ==
  ASSUME NEW f, NEW n \in Nat, NEW ns, Adds(f, n, ns)
  PROVE  /\ f[0] = 0
         /\ \A k \in 0 .. n : k # 0 => f[k] = f[k - 1] + ns[k]
<1>1. \A k \in 0 .. n : f[k] = IF k = 0 THEN 0 ELSE f[k - 1] + ns[k]
  BY DEF Adds
<1> QED
  BY <1>1

LEMMA AddsExist ==
  ASSUME NEW n \in Nat, NEW ns
  PROVE  \E f : Adds(f, n, ns)
<1> DEFINE T == {m \in Nat : \E f : Adds(f, m, ns)}
<1>1. 0 \in T
  <2>1. PICK f : f = [k \in 0 .. 0 |-> 0]
    OBVIOUS
  <2>2. f = [k \in 0 .. 0 |-> IF k = 0 THEN 0 ELSE f[k - 1] + ns[k]]
    BY <2>1
  <2> QED
    BY <2>2 DEF Adds
<1>2. ASSUME NEW m \in Nat, m \in T PROVE m + 1 \in T
  <2>1. PICK f : Adds(f, m, ns)
    BY <1>2
  <2>2. PICK g : g = [k \in 0 .. m + 1 |-> IF k = 0 THEN 0 ELSE f[k - 1] + ns[k]]
    OBVIOUS
  <2>3. \A k \in 0 .. m : g[k] = f[k]
    BY <2>1, <2>2, AddsAt
  <2>4. g = [k \in 0 .. m + 1 |-> IF k = 0 THEN 0 ELSE g[k - 1] + ns[k]]
    <3>1. \A k \in 0 .. m + 1 : k # 0 => k - 1 \in 0 .. m
      OBVIOUS
    <3> QED
      BY <2>2, <2>3, <3>1
  <2> QED
    BY <2>4 DEF Adds
<1> QED
  BY <1>1, <1>2, SetInduction

LEMMA SumToIs ==
  ASSUME NEW n \in Nat, NEW ns
  PROVE  \E f : Adds(f, n, ns) /\ SumTo(ns, n) = f[n]
<1>1. PICK f : f = CHOOSE g : Adds(g, n, ns)
  OBVIOUS
<1>2. Adds(f, n, ns)
  BY <1>1, AddsExist
<1>3. SumTo(ns, n) = f[n]
  BY <1>1 DEF SumTo, Adds
<1> QED
  BY <1>2, <1>3

LEMMA SumToNext ==
  ASSUME NEW n \in Nat, NEW ns
  PROVE  SumTo(ns, 0) = 0 /\ SumTo(ns, n + 1) = SumTo(ns, n) + ns[n + 1]
<1>1. SumTo(ns, 0) = 0
  <2>1. PICK f : Adds(f, 0, ns) /\ SumTo(ns, 0) = f[0]
    BY SumToIs
  <2> QED
    BY <2>1, AddsAt
<1>2. PICK f : Adds(f, n, ns) /\ SumTo(ns, n) = f[n]
  BY SumToIs
<1>3. PICK g : Adds(g, n + 1, ns) /\ SumTo(ns, n + 1) = g[n + 1]
  BY SumToIs
<1> DEFINE T == {m \in Nat : m <= n => f[m] = g[m]}
<1>4. 0 \in T
  BY <1>2, <1>3, AddsAt
<1>5. ASSUME NEW m \in Nat, m \in T PROVE m + 1 \in T
  <2> SUFFICES ASSUME m + 1 <= n PROVE f[m + 1] = g[m + 1]
    OBVIOUS
  <2>1. f[m] = g[m]
    BY <1>5
  <2>2. m + 1 \in 0 .. n /\ m + 1 \in 0 .. n + 1 /\ m + 1 # 0 /\ (m + 1) - 1 = m
    OBVIOUS
  <2>3. f[m + 1] = f[(m + 1) - 1] + ns[m + 1] /\ g[m + 1] = g[(m + 1) - 1] + ns[m + 1]
    BY <1>2, <1>3, <2>2, AddsAt
  <2> QED
    BY <2>1, <2>2, <2>3
<1>6. n \in T
  BY <1>4, <1>5, SetInduction
<1>7. g[n + 1] = g[(n + 1) - 1] + ns[n + 1] /\ (n + 1) - 1 = n
  <2>1. n + 1 \in 0 .. n + 1 /\ n + 1 # 0 /\ (n + 1) - 1 = n
    OBVIOUS
  <2> QED
    BY <1>3, <2>1, AddsAt
<1> QED
  BY <1>1, <1>2, <1>3, <1>6, <1>7

(* It depends on the numbers it adds only, and is one itself. *)
LEMMA SumToSame ==
  ASSUME NEW n \in Nat, NEW ns, NEW ms, \A m \in 1 .. n : ns[m] = ms[m]
  PROVE  SumTo(ns, n) = SumTo(ms, n)
<1> DEFINE T == {m \in Nat : m <= n => SumTo(ns, m) = SumTo(ms, m)}
<1>1. 0 \in T
  BY SumToNext
<1>2. ASSUME NEW m \in Nat, m \in T PROVE m + 1 \in T
  <2> SUFFICES ASSUME m + 1 <= n PROVE SumTo(ns, m + 1) = SumTo(ms, m + 1)
    OBVIOUS
  <2>1. SumTo(ns, m) = SumTo(ms, m) /\ ns[m + 1] = ms[m + 1]
    BY <1>2
  <2> QED
    BY <2>1, SumToNext
<1>3. n \in T
  BY <1>1, <1>2, SetInduction
<1> QED
  BY <1>3

LEMMA SumToNat ==
  ASSUME NEW ns \in Seq(Nat), NEW n \in 0 .. Len(ns)
  PROVE  SumTo(ns, n) \in Nat
<1> DEFINE T == {m \in Nat : m <= Len(ns) => SumTo(ns, m) \in Nat}
<1>1. 0 \in T
  BY SumToNext
<1>2. ASSUME NEW m \in Nat, m \in T PROVE m + 1 \in T
  <2> SUFFICES ASSUME m + 1 <= Len(ns) PROVE SumTo(ns, m + 1) \in Nat
    OBVIOUS
  <2>1. SumTo(ns, m) \in Nat /\ ns[m + 1] \in Nat
    BY <1>2
  <2>2. SumTo(ns, m + 1) = SumTo(ns, m) + ns[m + 1]
    BY SumToNext
  <2> QED
    BY <2>1, <2>2
<1>3. n \in Nat /\ n <= Len(ns)
  OBVIOUS
<1> QED
  BY <1>1, <1>2, <1>3, SetInduction

----------------------------------------------------------------------------
(* PacketsOf, unfolded: a piece of data more. *)
Pick(f, d, k) ==
  IF k = 0 THEN <<>> ELSE IF d[k].part = "payload" THEN Append(f[k - 1], d[k].of) ELSE f[k - 1]
Picks(f, n, d) == f = [k \in 0 .. n |-> Pick(f, d, k)]

LEMMA PicksAt ==
  ASSUME NEW f, NEW n \in Nat, NEW d, Picks(f, n, d)
  PROVE  \A k \in 0 .. n : f[k] = Pick(f, d, k)
  BY DEF Picks

LEMMA PicksExist ==
  ASSUME NEW n \in Nat, NEW d
  PROVE  \E f : Picks(f, n, d)
<1> DEFINE T == {m \in Nat : \E f : Picks(f, m, d)}
<1>1. 0 \in T
  <2>1. PICK f : f = [k \in 0 .. 0 |-> <<>>]
    OBVIOUS
  <2>2. f = [k \in 0 .. 0 |-> Pick(f, d, k)]
    BY <2>1 DEF Pick
  <2> QED
    BY <2>2 DEF Picks
<1>2. ASSUME NEW m \in Nat, m \in T PROVE m + 1 \in T
  <2>1. PICK f : Picks(f, m, d)
    BY <1>2
  <2>2. PICK g : g = [k \in 0 .. m + 1 |-> Pick(f, d, k)]
    OBVIOUS
  <2>3. \A k \in 0 .. m : g[k] = f[k]
    BY <2>1, <2>2, PicksAt
  <2>4. ASSUME NEW k \in 0 .. m + 1 PROVE Pick(f, d, k) = Pick(g, d, k)
    <3>1. k # 0 => k - 1 \in 0 .. m
      OBVIOUS
    <3>2. k # 0 => f[k - 1] = g[k - 1]
      BY <2>3, <3>1
    <3> QED
      BY <3>2 DEF Pick
  <2>5. g = [k \in 0 .. m + 1 |-> Pick(g, d, k)]
    BY <2>2, <2>4
  <2> QED
    BY <2>5 DEF Picks
<1> QED
  BY <1>1, <1>2, SetInduction

LEMMA PacketsOfIs ==
  ASSUME NEW s, Len(s.data) \in Nat
  PROVE  \E f : Picks(f, Len(s.data), s.data) /\ PacketsOf(s) = f[Len(s.data)]
<1>1. PICK f : f = CHOOSE g : Picks(g, Len(s.data), s.data)
  OBVIOUS
<1>2. Picks(f, Len(s.data), s.data)
  BY <1>1, PicksExist
<1>3. PacketsOf(s) = f[Len(s.data)]
  BY <1>1 DEF PacketsOf, Picks, Pick
<1> QED
  BY <1>2, <1>3

LEMMA PacketsNone ==
  ASSUME NEW s, s.data = <<>>
  PROVE  PacketsOf(s) = <<>>
<1>1. Len(s.data) = 0
  OBVIOUS
<1>2. PICK f : Picks(f, 0, s.data) /\ PacketsOf(s) = f[0]
  BY <1>1, PacketsOfIs
<1> QED
  BY <1>2, PicksAt DEF Pick

LEMMA PacketsMore ==
  ASSUME NEW S, NEW s, s.data \in Seq(S), NEW x \in S, NEW r, r.data = Append(s.data, x)
  PROVE  PacketsOf(r) = IF x.part = "payload" THEN Append(PacketsOf(s), x.of) ELSE PacketsOf(s)
<1>1. PICK n \in Nat : n = Len(s.data)
  BY LenProperties
<1>2. Len(r.data) = n + 1 /\ r.data[n + 1] = x /\ \A k \in 1 .. n : r.data[k] = s.data[k]
  BY <1>1, AppendProperties
<1>3. PICK f : Picks(f, n, s.data) /\ PacketsOf(s) = f[n]
  BY <1>1, PacketsOfIs
<1>4. PICK g : Picks(g, n + 1, r.data) /\ PacketsOf(r) = g[n + 1]
  <2>1. Len(r.data) \in Nat
    BY <1>2
  <2> QED
    BY <1>2, <2>1, PacketsOfIs
<1> DEFINE T == {m \in Nat : m <= n => f[m] = g[m]}
<1>5. 0 \in T
  <2>1. 0 \in 0 .. n /\ 0 \in 0 .. n + 1
    OBVIOUS
  <2> QED
    BY <1>3, <1>4, <2>1, PicksAt DEF Pick
<1>6. ASSUME NEW m \in Nat, m \in T PROVE m + 1 \in T
  <2> SUFFICES ASSUME m + 1 <= n PROVE f[m + 1] = g[m + 1]
    OBVIOUS
  <2>1. f[m] = g[m]
    BY <1>6
  <2>2. m + 1 \in 0 .. n /\ m + 1 \in 0 .. n + 1 /\ m + 1 # 0 /\ (m + 1) - 1 = m /\ m + 1 \in 1 .. n
    OBVIOUS
  <2>3. f[m + 1] = Pick(f, s.data, m + 1) /\ g[m + 1] = Pick(g, r.data, m + 1)
    BY <1>3, <1>4, <2>2, PicksAt
  <2>4. r.data[m + 1] = s.data[m + 1]
    BY <1>2, <2>2
  <2> QED
    BY <2>1, <2>2, <2>3, <2>4 DEF Pick
<1>7. n \in T
  BY <1>5, <1>6, SetInduction
<1>8. g[n + 1] = Pick(g, r.data, n + 1) /\ n + 1 # 0 /\ (n + 1) - 1 = n
  <2>1. n + 1 \in 0 .. n + 1 /\ n + 1 # 0 /\ (n + 1) - 1 = n
    OBVIOUS
  <2> QED
    BY <1>4, <2>1, PicksAt
<1> QED
  BY <1>2, <1>3, <1>4, <1>7, <1>8 DEF Pick

----------------------------------------------------------------------------
(* How many units begin and end among some packets. *)
LEMMA CountsAre ==
  ASSUME NEW i \in Int, NEW l \in Int
  PROVE  /\ IsFiniteSet(Starts(i, l)) /\ Cardinality(Starts(i, l)) \in Nat
         /\ IsFiniteSet(Ends(i, l)) /\ Cardinality(Ends(i, l)) \in Nat
         /\ l < i => Cardinality(Starts(i, l)) = 0 /\ Cardinality(Ends(i, l)) = 0
<1>1. IsFiniteSet(i .. l)
  BY FS_Interval
<1>2. Starts(i, l) \subseteq i .. l /\ Ends(i, l) \subseteq i .. l
  BY DEF Starts, Ends
<1>3. IsFiniteSet(Starts(i, l)) /\ IsFiniteSet(Ends(i, l))
  BY <1>1, <1>2, FS_Subset
<1>4. l < i => Starts(i, l) = {} /\ Ends(i, l) = {}
  BY <1>2
<1> QED
  BY <1>3, <1>4, FS_CardinalityType, FS_EmptySet

LEMMA CountsNext ==
  ASSUME NEW i \in Int, NEW l \in Int, i <= l + 1
  PROVE  /\ Cardinality(Starts(i, l + 1)) =
              Cardinality(Starts(i, l)) + (IF stream[l + 1].kind = "start" THEN 1 ELSE 0)
         /\ Cardinality(Ends(i, l + 1)) =
              Cardinality(Ends(i, l)) + (IF stream[l + 1].kind \in {"end", "single"} THEN 1 ELSE 0)
<1>1. /\ IsFiniteSet(Starts(i, l)) /\ Cardinality(Starts(i, l)) \in Nat
      /\ IsFiniteSet(Ends(i, l)) /\ Cardinality(Ends(i, l)) \in Nat
  BY CountsAre
<1>2. \A k : k \in i .. l + 1 <=> k \in i .. l \/ k = l + 1
  OBVIOUS
<1>3. l + 1 \notin Starts(i, l) /\ l + 1 \notin Ends(i, l)
  BY DEF Starts, Ends
<1>4. Starts(i, l + 1) = IF stream[l + 1].kind = "start" THEN Starts(i, l) \union {l + 1} ELSE Starts(i, l)
  BY <1>2 DEF Starts
<1>5. Ends(i, l + 1) =
        IF stream[l + 1].kind \in {"end", "single"} THEN Ends(i, l) \union {l + 1} ELSE Ends(i, l)
  BY <1>2 DEF Ends
<1>6. /\ Cardinality(Starts(i, l) \union {l + 1}) = Cardinality(Starts(i, l)) + 1
      /\ Cardinality(Ends(i, l) \union {l + 1}) = Cardinality(Ends(i, l)) + 1
  BY <1>1, <1>3, FS_AddElement
<1>7. CASE stream[l + 1].kind = "start"
  BY <1>1, <1>4, <1>5, <1>6, <1>7
<1>8. CASE stream[l + 1].kind # "start"
  BY <1>1, <1>4, <1>5, <1>6, <1>8
<1> QED
  BY <1>7, <1>8

LEMMA CountsGrow ==
  ASSUME NEW i \in Int, NEW k \in Int, NEW l \in Int, k <= l
  PROVE  /\ Cardinality(Starts(i, k)) <= Cardinality(Starts(i, l))
         /\ Cardinality(Ends(i, k)) <= Cardinality(Ends(i, l))
         /\ k < l /\ l \in Ends(i, l) => Cardinality(Ends(i, k)) < Cardinality(Ends(i, l))
<1>1. /\ IsFiniteSet(Starts(i, l)) /\ IsFiniteSet(Ends(i, l)) /\ IsFiniteSet(Ends(i, k))
      /\ Cardinality(Ends(i, k)) \in Nat /\ Cardinality(Ends(i, l)) \in Nat
  BY CountsAre
<1>2. Starts(i, k) \subseteq Starts(i, l) /\ Ends(i, k) \subseteq Ends(i, l)
  BY DEF Starts, Ends
<1>3. /\ Cardinality(Starts(i, k)) <= Cardinality(Starts(i, l))
      /\ Cardinality(Ends(i, k)) <= Cardinality(Ends(i, l))
  BY <1>1, <1>2, FS_Subset
<1>4. ASSUME k < l, l \in Ends(i, l) PROVE Cardinality(Ends(i, k)) < Cardinality(Ends(i, l))
  <2>1. l \notin Ends(i, k)
    BY <1>4 DEF Ends
  <2>2. Ends(i, k) \union {l} \subseteq Ends(i, l)
    BY <1>2, <1>4
  <2>3. /\ Cardinality(Ends(i, k) \union {l}) = Cardinality(Ends(i, k)) + 1
        /\ Cardinality(Ends(i, k) \union {l}) <= Cardinality(Ends(i, l))
    BY <1>1, <2>1, <2>2, FS_AddElement, FS_Subset
  <2> QED
    BY <1>1, <2>3
<1> QED
  BY <1>3, <1>4

----------------------------------------------------------------------------
(* In a Steady network a packet that waits was not returned before. *)
LEMMA SteadyOrderly == Steady => Orderly
  BY DEF Steady, Orderly, Within

LEMMA HeldNotDelivered ==
  ASSUME Steady, CInv, NEW t \in Tracks
  PROVE  HeldIds(t) \subseteq Arrived(t) /\ HeldIds(t) \intersect delivered[t] = {}
<1>1. NInv /\ IInv /\ NetOK /\ Genuine
  BY DEF CInv, NInv
<1>2. HeldIds(t) \subseteq Arrived(t)
  BY <1>1 DEF HeldIds, Genuine
<1>3. PICK n \in 0 .. Sent, l \in -1 .. Sent - 1 : Place(t, n, l)
  BY DEF CInv
<1>4. CASE InOrder(t)
  BY <1>2, <1>3, <1>4 DEF Place, HeldIds
<1>5. CASE First(t) + Sent < SeqMod
  <2> SUFFICES ASSUME NEW p \in Held(t) PROVE p.id \notin delivered[t]
    BY <1>2 DEF HeldIds
  <2>1. p.id \in Ids /\ p = Pkt(t, p.id)
    BY <1>1 DEF Genuine, Arrived
  <2>2. PICK i \in Ids : i = p.id
    BY <2>1
  <2>3. p.seq = First(t) + i /\ i \in Nat
    <3>1. Pkt(t, i).seq = First(t) + i /\ i \in 0 .. Sent
      BY <1>5, StraightPkt
    <3> QED
      BY <2>1, <2>2, <3>1
  <2>4. seqBase[t] = First(t) + n /\ First(t) \in Nat
    BY <1>3, <1>5, StraightNumber DEF Place
  <2>5. PICK j \in 1 .. Len(samples[t]) : p.seq = seqBase[t] + j - 1
    BY <1>1, HeldFacts
  <2>6. j \in Nat /\ j >= 1
    BY <1>1, LenProperties DEF IInv, TypeOK
  <2>7. i >= n
    BY <2>3, <2>4, <2>5, <2>6
  <2>8. ~(i < n)
    BY <2>3, <2>7
  <2> QED
    BY <1>3, <2>2, <2>8 DEF Place
<1> QED
  BY <1>2, <1>4, <1>5 DEF Steady

(* A seek that drops what waits leaves each track where it stands. *)
LEMMA SeekCInv ==
  ASSUME Steady, CInv, BeforeSeek, UNCHANGED <<net, dups, delivered>>,
         lost' = [t \in Tracks |-> lost[t] \union HeldIds(t)]
  PROVE  CInv'
<1>1. NInv /\ IInv /\ NetOK /\ Genuine
  BY DEF CInv, NInv
<1>2. IInv'
  BY <1>1, BeforeSeekIInv
<1>3. seqBase' = seqBase /\ \A t \in Tracks : Held(t)' = {} /\ HeldIds(t)' = {}
  BY DEF BeforeSeek, Held, HeldIds
<1>4. \A t \in Tracks : HeldIds(t) \subseteq Arrived(t) /\ HeldIds(t) \intersect delivered[t] = {}
  BY HeldNotDelivered
<1>5. NetOK'
  BY <1>1, <1>4 DEF NetOK, Arrived
<1>6. \A t \in Tracks : Arrived(t)' = Arrived(t) \ HeldIds(t)
  BY DEF Arrived
<1>7. Genuine'
  BY <1>1, <1>3, <1>4, <1>6 DEF Genuine
<1>8. NothingLost => NothingLost'
  BY <1>6 DEF NothingLost
<1>9. ASSUME NEW t \in Tracks
      PROVE  /\ \E n \in 0 .. Sent : \E l \in -1 .. Sent - 1 : Place(t, n, l)'
             /\ Losses[t] = 0 => Narrow(t) \/ lost'[t] = {}
  <2>1. PICK n \in 0 .. Sent, l \in -1 .. Sent - 1 : Place(t, n, l)
    BY DEF CInv
  <2>2. Place(t, n, l)'
    BY <1>3, <2>1 DEF Place, InOrder
  <2>3. InOrder(t) => lost'[t] = lost[t]
    BY <2>1 DEF Place, HeldIds
  <2> QED
    BY <2>2, <2>3 DEF CInv, Narrow, Steady
<1> QED
  BY <1>2, <1>5, <1>7, <1>8, <1>9 DEF CInv, NInv, WithinALap, Narrow, InOrder

(* What a call of get_sample2 does, as the parsers see it: nothing is       *)
(* returned, or packet i of track t, flagged when it does not follow the    *)
(* last one.                                                                *)
Silent == out'.pkt = Hole /\ \A t \in Tracks : LastDelivered(t)' = LastDelivered(t)
Brings(t, i) ==
  /\ out'.pkt # Hole /\ out'.pkt.track = t /\ out'.pkt.id = i
  /\ out'.disc = (i # LastDelivered(t) + 1)
  /\ i \in Ids /\ i > LastDelivered(t)
  /\ (LastDelivered(t) + 1) .. (i - 1) \subseteq lost[t]
  /\ LastDelivered(t)' = i
  /\ \A u \in Tracks \ {t} : LastDelivered(u)' = LastDelivered(u)

LEMMA CallBrings ==
  ASSUME CInv, Steady, NEW P, Takes(P), NInv'
  PROVE  lost' = lost /\ (Silent \/ \E t \in Tracks, i \in Ids : Brings(t, i))
<1>1. NInv /\ lost' = lost /\ Orderly /\ Ids = 0 .. Sent - 1 /\ NoTrack \notin Tracks
  BY SteadyOrderly, NetworkAssumption, FilterAssumption DEF CInv, Takes
<1>2. CASE Handed' = [track |-> NoTrack, id |-> -1, disc |-> FALSE] /\ Lasts' = Lasts
  <2>1. Handed'.track = NoTrack
    BY <1>2
  <2>2. out'.pkt = Hole
    <3>1. out'.pkt # Hole => Handed'.track \in Tracks
      BY <1>1, ReturnedFacts DEF Handed
    <3> QED
      BY <1>1, <2>1, <3>1
  <2>3. \A t \in Tracks : LastDelivered(t)' = LastDelivered(t)
    <3>1. \A t \in Tracks : Lasts'[t] = LastDelivered(t)' /\ Lasts[t] = LastDelivered(t)
      BY DEF Lasts
    <3> QED
      BY <1>2, <3>1
  <2> QED
    BY <1>1, <2>2, <2>3 DEF Silent
<1>3. ASSUME NEW t \in Tracks, NEW i \in 0 .. Sent - 1,
             i > Lasts[t], (Lasts[t] + 1) .. (i - 1) \subseteq lost[t],
             Lasts' = [Lasts EXCEPT ![t] = i],
             Handed' = [track |-> t, id |-> i, disc |-> i # Lasts[t] + 1]
      PROVE  Brings(t, i)
  <2>1. Handed'.track = t /\ Handed'.id = i /\ Handed'.disc = (i # Lasts[t] + 1)
    BY <1>3
  <2>2. out'.pkt # Hole
    BY <1>1, <2>1 DEF Handed
  <2>3. out'.pkt.track = t /\ out'.pkt.id = i /\ out'.disc = (i # Lasts[t] + 1)
    BY <2>1, <2>2 DEF Handed
  <2>4. \A u \in Tracks : Lasts'[u] = LastDelivered(u)' /\ Lasts[u] = LastDelivered(u)
    BY DEF Lasts
  <2>5. Lasts'[t] = i /\ \A u \in Tracks \ {t} : Lasts'[u] = Lasts[u]
    BY <1>3 DEF Lasts
  <2>6. /\ LastDelivered(t)' = i /\ Lasts[t] = LastDelivered(t)
        /\ \A u \in Tracks \ {t} : LastDelivered(u)' = LastDelivered(u)
    BY <2>4, <2>5
  <2> QED
    BY <1>1, <1>3, <2>2, <2>3, <2>6 DEF Brings
<1> QED
  BY <1>1, <1>2, <1>3, CallDelivers

LEMMA StreamSame ==
  ASSUME stream' = stream
  PROVE  /\ \A i, l : Starts(i, l)' = Starts(i, l) /\ Ends(i, l)' = Ends(i, l)
         /\ \A i, l : (IsFrame(i, l) => IsFrame(i, l)') /\ (IsFrame(i, l)' => IsFrame(i, l))
         /\ \A i : (Begins(i) => Begins(i)') /\ (Leads(i) => Leads(i)') /\ (Leads(i)' => Leads(i))
<1>1. \A i, l : Starts(i, l)' = Starts(i, l) /\ Ends(i, l)' = Ends(i, l)
  BY DEF Starts, Ends
<1> QED
  BY <1>1 DEF IsFrame, Begins, Leads

LEMMA ContainsSame ==
  ASSUME stream' = stream, NEW i, NEW l, NEW r, Contains(r, i, l)
  PROVE  /\ taken' = r => Contains(taken, i, l)'
         /\ kept'[Video] = r => Contains(kept[Video], i, l)'
  BY StreamSame DEF Contains

----------------------------------------------------------------------------
(* What push does to buf_ and to nalu_sizes_. *)
LEMMA RoomFacts ==
  ASSUME NEW S, NEW v \in Seq(S), v # <<>>, NEW i \in Nat, NEW fill \in S,
         NEW r, r = Room(v, i, fill)
  PROVE  /\ r \in Seq(S) /\ Len(r) \in Nat /\ Len(r) >= Len(v)
         /\ i <= Len(v) => i < Len(r)
         /\ i < Len(v) => r = v
<1>1. Len(v) \in Nat \ {0}
  BY EmptySeq
<1>2. CASE i < Len(v)
  BY <1>1, <1>2 DEF Room
<1>3. CASE ~(i < Len(v))
  <2>1. PICK n \in Nat \ {0} : n = Len(v)
    BY <1>1
  <2>2. PICK w : w = [k \in 1 .. n |-> fill]
    OBVIOUS
  <2>3. w \in Seq(S) /\ Len(w) = n
    BY <2>2
  <2>4. r = v \o w
    BY <1>3, <2>1, <2>2 DEF Room
  <2>5. v \o w \in Seq(S) /\ Len(v \o w) = n + n
    BY <2>1, <2>3, ConcatProperties
  <2> QED
    BY <1>3, <2>1, <2>4, <2>5
<1> QED
  BY <1>2, <1>3

LEMMA RoomAt ==
  ASSUME NEW S, NEW v \in Seq(S), NEW i, NEW fill, NEW r, r = Room(v, i, fill), NEW m \in 1 .. Len(v)
  PROVE  r[m] = v[m]
<1>1. PICK n \in Nat : n = Len(v)
  BY LenProperties
<1>2. PICK w : w = [k \in 1 .. n |-> fill]
  OBVIOUS
<1>3. w \in Seq({fill}) /\ Len(w) = n
  BY <1>2
<1>4. (v \o w)[m] = v[m]
  BY <1>1, <1>3
<1>5. r = v \/ r = v \o w
  BY <1>1, <1>2 DEF Room
<1> QED
  BY <1>4, <1>5

LEMMA PutsIn ==
  ASSUME NEW S, NEW v \in Seq(S), NEW x \in S, NEW i
  PROVE  [v EXCEPT ![i] = x] \in Seq(S) /\ Len([v EXCEPT ![i] = x]) = Len(v)
<1>1. CASE i \in 1 .. Len(v)
  BY <1>1, ExceptSeq
<1>2. CASE i \notin 1 .. Len(v)
  <2>1. DOMAIN v = 1 .. Len(v)
    BY LenProperties
  <2>2. [v EXCEPT ![i] = x] = v
    BY <1>2, <2>1
  <2> QED
    BY <2>2
<1> QED
  BY <1>1, <1>2

LEMMA HeaderFacts ==
  ASSUME buf \in Seq(Ids \union {NoHeader}), Len(buf) >= BufSize, bufUsed \in Nat, moved \in Nat,
         NEW j \in Ids, NEW nal \in Nal, WriteHeader(j, nal)
  PROVE  /\ buf' \in Seq(Ids \union {NoHeader}) /\ Len(buf') >= BufSize /\ moved' \in Nat
         /\ bufUsed' = IF nal.mark THEN 0 ELSE IF nal.kind = "start" THEN bufUsed + 1 ELSE bufUsed
         /\ bufUsed' \in Nat
         /\ nal.kind # "start" => buf' = buf /\ moved' = moved
         /\ nal.kind = "start" /\ bufUsed + 1 <= BufSize =>
              moved' = moved /\ buf'[bufUsed + 1] = j /\ \A c \in 1 .. bufUsed : buf'[c] = buf[c]
<1>1. /\ bufUsed' = IF nal.mark THEN 0 ELSE IF nal.kind = "start" THEN bufUsed + 1 ELSE bufUsed
      /\ nal.kind # "start" => buf' = buf /\ moved' = moved
  BY DEF WriteHeader
<1>2. bufUsed' \in Nat
  BY <1>1
<1>3. CASE nal.kind # "start"
  BY <1>1, <1>2, <1>3
<1>4. CASE nal.kind = "start"
  <2>1. BufSize \in Nat \ {0} /\ Len(buf) \in Nat
    BY H264Assumption
  <2>2. buf # <<>>
    BY <2>1, EmptySeq
  <2>3. PICK room : room = Room(buf, bufUsed, NoHeader)
    OBVIOUS
  <2>4. /\ buf' = [room EXCEPT ![bufUsed + 1] = j]
        /\ moved' = IF Len(room) > Len(buf) THEN moved + 1 ELSE moved
    BY <1>4, <2>3 DEF WriteHeader
  <2>5. /\ room \in Seq(Ids \union {NoHeader}) /\ Len(room) \in Nat /\ Len(room) >= Len(buf)
        /\ bufUsed < Len(buf) => room = buf
    <3>1. PICK S : S = Ids \union {NoHeader} /\ NoHeader \in S
      OBVIOUS
    <3>2. buf \in Seq(S)
      BY <3>1
    <3>3. NoHeader \in S
      BY <3>1
    <3>4. room \in Seq(S) /\ Len(room) \in Nat /\ Len(room) >= Len(buf) /\ (bufUsed < Len(buf) => room = buf)
      BY <2>2, <2>3, <3>2, <3>3, RoomFacts
    <3> QED
      BY <3>1, <3>4
  <2>6. buf' \in Seq(Ids \union {NoHeader}) /\ Len(buf') = Len(room)
    BY <2>4, <2>5, PutsIn
  <2>7. ASSUME bufUsed + 1 <= BufSize
        PROVE  moved' = moved /\ buf'[bufUsed + 1] = j /\ \A c \in 1 .. bufUsed : buf'[c] = buf[c]
    <3>1. room = buf /\ bufUsed + 1 \in 1 .. Len(buf)
      BY <2>1, <2>5, <2>7
    <3>2. moved' = moved
      BY <2>1, <2>4, <3>1
    <3>3. DOMAIN buf = 1 .. Len(buf)
      BY LenProperties
    <3> QED
      BY <2>1, <2>4, <3>1, <3>2, <3>3
  <2> QED
    BY <1>1, <1>2, <1>4, <2>1, <2>4, <2>5, <2>6, <2>7
<1> QED
  BY <1>3, <1>4

LEMMA SizesFacts ==
  ASSUME naluSizes \in Seq(Nat), naluSizes # <<>>, naluCount \in Nat, NEW nal \in Nal, CountUnit(nal)
  PROVE  /\ naluSizes' \in Seq(Nat) /\ naluSizes' # <<>> /\ naluCount' \in Nat
         /\ \E sizes \in Seq(Nat) : \E count \in Nat :
              /\ Len(sizes) \in Nat /\ Len(sizes) >= Len(naluSizes)
              /\ naluCount <= Len(naluSizes) => naluCount < Len(sizes)
              /\ \A m \in 1 .. Len(naluSizes) : m # naluCount + 1 => sizes[m] = naluSizes[m]
              /\ naluCount < Len(sizes) /\ nal.kind \in {"start", "single"} =>
                   sizes[naluCount + 1] = SizeOf(nal)
              /\ naluCount < Len(naluSizes) /\ nal.kind \notin {"start", "single"} =>
                   sizes[naluCount + 1] = naluSizes[naluCount + 1] + 1
              /\ count = IF nal.kind \in {"end", "single"} THEN naluCount + 1 ELSE naluCount
              /\ naluCount' = IF nal.mark THEN 0 ELSE count
              /\ naluSizes' = IF nal.mark THEN [sizes EXCEPT ![count] = 0] ELSE sizes
<1> DEFINE c == naluCount + 1
<1>1. PICK room : room = Room(naluSizes, naluCount, 0)
  OBVIOUS
<1>2. /\ room \in Seq(Nat) /\ Len(room) \in Nat /\ Len(room) >= Len(naluSizes)
      /\ naluCount <= Len(naluSizes) => naluCount < Len(room)
      /\ \A m \in 1 .. Len(naluSizes) : room[m] = naluSizes[m]
  <2>1. PICK S : S = Nat
    OBVIOUS
  <2>2. naluSizes \in Seq(S) /\ 0 \in S
    BY <2>1
  <2>3. /\ room \in Seq(S) /\ Len(room) \in Nat /\ Len(room) >= Len(naluSizes)
        /\ naluCount <= Len(naluSizes) => naluCount < Len(room)
    BY <1>1, <2>2, RoomFacts
  <2>4. ASSUME NEW m \in 1 .. Len(naluSizes) PROVE room[m] = naluSizes[m]
    BY <1>1, <2>2, RoomAt
  <2> QED
    BY <2>1, <2>3, <2>4
<1>3. c \in Nat \ {0} /\ SizeOf(nal) \in Nat /\ DOMAIN room = 1 .. Len(room) /\ Len(naluSizes) \in Nat
  BY <1>2, LenProperties DEF SizeOf
<1>4. PICK x : x = IF nal.kind \in {"start", "single"} THEN SizeOf(nal) ELSE room[c] + SizeOf(nal)
  OBVIOUS
<1>5. PICK sizes : sizes = [room EXCEPT ![c] = x]
  OBVIOUS
<1>6. PICK count \in Nat : count = IF nal.kind \in {"end", "single"} THEN naluCount + 1 ELSE naluCount
  OBVIOUS
<1>7. SizesWith(nal) = sizes
  BY <1>1, <1>4, <1>5 DEF SizesWith
<1>8. /\ naluCount' = IF nal.mark THEN 0 ELSE count
      /\ naluSizes' = IF nal.mark THEN [sizes EXCEPT ![count] = 0] ELSE sizes
  BY <1>6, <1>7 DEF CountUnit, CountWith
<1> HIDE DEF c
<1>9. sizes \in Seq(Nat) /\ Len(sizes) = Len(room)
  <2>1. CASE c \in 1 .. Len(room)
    <3>1. x \in Nat
      <4>1. room[c] \in Nat
        BY <1>2, <2>1
      <4> QED
        BY <1>3, <1>4, <4>1
    <3> QED
      BY <1>2, <1>5, <3>1, PutsIn
  <2>2. CASE c \notin 1 .. Len(room)
    <3>1. sizes = room
      BY <1>2, <1>3, <1>5, <2>2
    <3> QED
      BY <1>2, <3>1
  <2> QED
    BY <2>1, <2>2
<1>10. DOMAIN sizes = 1 .. Len(room) /\ \A m \in 1 .. Len(room) : sizes[m] = IF m = c THEN x ELSE room[m]
  BY <1>2, <1>3, <1>5
<1>11. /\ \A m \in 1 .. Len(naluSizes) : m # c => sizes[m] = naluSizes[m]
       /\ naluCount < Len(sizes) /\ nal.kind \in {"start", "single"} => sizes[c] = SizeOf(nal)
       /\ naluCount < Len(naluSizes) /\ nal.kind \notin {"start", "single"} =>
            sizes[c] = naluSizes[c] + 1
  <2>1. \A m \in 1 .. Len(naluSizes) : m \in 1 .. Len(room)
    BY <1>2, <1>3
  <2>2. naluCount < Len(sizes) => c \in 1 .. Len(room)
    BY <1>2, <1>3, <1>9 DEF c
  <2>3. naluCount < Len(naluSizes) => c \in 1 .. Len(naluSizes)
    BY <1>3 DEF c
  <2>4. ASSUME nal.kind \notin {"start", "single"} PROVE SizeOf(nal) = 1
    BY <2>4 DEF SizeOf
  <2> QED
    BY <1>2, <1>4, <1>10, <2>1, <2>2, <2>3, <2>4
<1>12. naluSizes' \in Seq(Nat) /\ Len(naluSizes') = Len(room) /\ naluCount' \in Nat
  <2>1. [sizes EXCEPT ![count] = 0] \in Seq(Nat) /\ Len([sizes EXCEPT ![count] = 0]) = Len(sizes)
    <3>1. 0 \in Nat
      OBVIOUS
    <3> QED
      BY <1>9, <3>1, PutsIn
  <2> QED
    BY <1>8, <1>9, <2>1
<1>13. naluSizes' # <<>>
  <2>1. Len(room) # 0
    BY <1>2, <1>3, EmptySeq
  <2> QED
    BY <1>12, <2>1
<1>14. Len(sizes) \in Nat /\ Len(sizes) >= Len(naluSizes) /\ (naluCount <= Len(naluSizes) => naluCount < Len(sizes))
  BY <1>2, <1>9
<1> QED
  BY <1>6, <1>8, <1>9, <1>11, <1>12, <1>13, <1>14 DEF c

----------------------------------------------------------------------------
(* What push does to sample_: r is it with packet j. *)
Grown(s, nal, j, fl, at, cell) ==
  [data |-> IF nal.kind = "start"
            THEN Append(Append(s.data, [part |-> "header", at |-> at, cell |-> cell]), Payload(j))
            ELSE Append(s.data, Payload(j)),
   size |-> s.size + SizeOf(nal),
   flags |-> s.flags \union fl \union {"fragment"}
               \union (IF nal.idr /\ nal.kind \in {"start", "single"} THEN {"sync"} ELSE {})
               \union (IF "discontinuity" \in fl THEN {"frag_lost"} ELSE {})]

LEMMA GrownSample ==
  ASSUME NEW s \in Samples, NEW nal \in Nal, NEW j \in Ids, NEW fl \in SUBSET {"discontinuity"},
         NEW at \in Nat, NEW cell \in Nat
  PROVE  Grown(s, nal, j, fl, at, cell) \in Samples
<1>1. s.data \in Seq(Piece) /\ s.size \in Nat /\ s.flags \in SUBSET Flags
  BY DEF Samples
<1>2. Payload(j) \in Piece
  BY DEF Payload, Piece
<1>3. PICK h \in Piece : h = [part |-> "header", at |-> at, cell |-> cell]
  BY DEF Piece
<1>4. Append(s.data, h) \in Seq(Piece)
  BY <1>1, AppendProperties
<1>5. Append(Append(s.data, h), Payload(j)) \in Seq(Piece) /\ Append(s.data, Payload(j)) \in Seq(Piece)
  BY <1>1, <1>2, <1>4, AppendProperties
<1>6. s.size + SizeOf(nal) \in Nat
  BY <1>1 DEF SizeOf
<1> DEFINE fs == s.flags \union fl \union {"fragment"}
               \union (IF nal.idr /\ nal.kind \in {"start", "single"} THEN {"sync"} ELSE {})
               \union (IF "discontinuity" \in fl THEN {"frag_lost"} ELSE {})
           d == IF nal.kind = "start" THEN Append(Append(s.data, h), Payload(j))
                                      ELSE Append(s.data, Payload(j))
<1>7. fs \in SUBSET Flags
  BY <1>1 DEF Flags
<1>8. d \in Seq(Piece)
  BY <1>5
<1>9. Grown(s, nal, j, fl, at, cell) = [data |-> d, size |-> s.size + SizeOf(nal), flags |-> fs]
  BY <1>3 DEF Grown
<1> HIDE DEF fs, d
<1> QED
  BY <1>6, <1>7, <1>8, <1>9 DEF Samples

LEMMA PushVideo ==
  ASSUME kept \in [Tracks -> Samples], moved' \in Nat, bufUsed \in Nat, NEW j \in Ids, NEW nal \in Nal,
         NEW fl \in SUBSET {"discontinuity"}, PushH264(j, nal, fl),
         NEW r, r = Grown(kept[Video], nal, j, fl, moved', bufUsed + 1)
  PROVE  \/ ~nal.mark /\ Hold(Video, r)
         \/ nal.mark /\ "frag_lost" \notin r.flags /\ HandOver(Video, r)
         \/ nal.mark /\ "frag_lost" \in r.flags /\ Discard(Video, r)
<1>1. Video \in Tracks /\ kept[Video] \in Samples
  BY ReceiverAssumption
<1>2. PICK s : s = kept[Video]
  OBVIOUS
<1>3. s.data \in Seq(Piece) /\ s.flags \in SUBSET Flags
  BY <1>1, <1>2 DEF Samples
<1>4. PICK h \in Piece : h = [part |-> "header", at |-> moved', cell |-> bufUsed + 1]
  <2>1. PICK m \in Nat, c \in Nat : m = moved' /\ c = bufUsed + 1
    OBVIOUS
  <2>2. [part |-> "header", at |-> m, cell |-> c] \in Piece
    BY DEF Piece
  <2> QED
    BY <2>1, <2>2
<1>5. PICK p \in Piece : p = Payload(j)
  BY DEF Payload, Piece
<1>6. PICK pieces : pieces = (IF nal.kind = "start" THEN <<h>> ELSE <<>>) \o <<p>>
  OBVIOUS
<1>7. PICK flags : flags = fl \union {"fragment"} \union (IF nal.mark THEN {"frag_end"} ELSE {})
                             \union (IF nal.idr /\ nal.kind \in {"start", "single"} THEN {"sync"} ELSE {})
  OBVIOUS
<1>8. Push(Video, pieces, SizeOf(nal), flags)
  BY <1>4, <1>5, <1>6, <1>7 DEF PushH264, Header
<1>9. WithFragment(Gathered(Video, pieces, SizeOf(nal), flags), flags) = r
  <2>1. s.data \o pieces = IF nal.kind = "start" THEN Append(Append(s.data, h), p) ELSE Append(s.data, p)
    <3>1. CASE nal.kind = "start"
      <4>1. pieces = <<h>> \o <<p>> /\ <<h>> \in Seq(Piece) /\ <<p>> \in Seq(Piece)
        BY <1>6, <3>1
      <4>2. s.data \o (<<h>> \o <<p>>) = (s.data \o <<h>>) \o <<p>>
        BY <1>3, <4>1, ConcatAssociative
      <4>3. s.data \o <<h>> = Append(s.data, h) /\ Append(s.data, h) \in Seq(Piece)
        BY <1>3, AppendIsConcat, AppendProperties
      <4>4. Append(s.data, h) \o <<p>> = Append(Append(s.data, h), p)
        BY <4>3, AppendIsConcat
      <4> QED
        BY <3>1, <4>1, <4>2, <4>3, <4>4
    <3>2. CASE nal.kind # "start"
      <4>1. pieces = <<p>>
        BY <1>6, <3>2
      <4>2. s.data \o <<p>> = Append(s.data, p)
        BY <1>3
      <4> QED
        BY <3>2, <4>1, <4>2
    <3> QED
      BY <3>1, <3>2
  <2>2. PICK g : g = [data |-> s.data \o pieces, size |-> s.size + SizeOf(nal), flags |-> s.flags \union Low(flags)]
    OBVIOUS
  <2>3. Gathered(Video, pieces, SizeOf(nal), flags) = g
    BY <1>2, <2>2 DEF Gathered
  <2>4. PICK fs : fs = g.flags \union {"fragment"} \union
                        (IF "discontinuity" \in flags THEN {"discontinuity", "frag_lost"} ELSE {})
    OBVIOUS
  <2>5. WithFragment(g, flags) = [data |-> s.data \o pieces, size |-> s.size + SizeOf(nal), flags |-> fs]
    <3>1. WithFragment(g, flags) = [g EXCEPT !.flags = fs]
      BY <2>4 DEF WithFragment
    <3> QED
      BY <2>2, <3>1
  <2>6. fs = s.flags \union fl \union {"fragment"}
               \union (IF nal.idr /\ nal.kind \in {"start", "single"} THEN {"sync"} ELSE {})
               \union (IF "discontinuity" \in fl THEN {"frag_lost"} ELSE {})
    <3>1. g.flags = s.flags \union Low(flags)
      BY <2>2
    <3>2. "discontinuity" \in flags <=> "discontinuity" \in fl
      BY <1>7
    <3>3. Low(flags) = fl \union (IF nal.idr /\ nal.kind \in {"start", "single"} THEN {"sync"} ELSE {})
      <4>1. fl = {} \/ fl = {"discontinuity"}
        OBVIOUS
      <4> QED
        BY <1>7, <4>1 DEF Low
    <3> QED
      BY <2>4, <3>1, <3>2, <3>3
  <2> QED
    BY <1>2, <1>4, <1>5, <2>1, <2>3, <2>5, <2>6 DEF Grown
<1>10. "multiple" \notin flags /\ "fragment" \in flags /\ ("frag_end" \in flags <=> nal.mark)
  BY <1>7
<1> QED
  BY <1>8, <1>9, <1>10 DEF Push

LEMMA RunNext ==
  ASSUME NEW j \in Nat, NEW i \in 0 .. j
  PROVE  Append(Run(i, j - 1), j) = Run(i, j)
<1>1. PICK n \in Nat : n = j - i
  OBVIOUS
<1>2. (j - 1) - i + 1 = n /\ j - i + 1 = n + 1 /\ j = i + n
  BY <1>1
<1>3. PICK f : f = [k \in 1 .. n |-> i + k - 1]
  OBVIOUS
<1>4. Run(i, j - 1) = f /\ Run(i, j) = [k \in 1 .. n + 1 |-> i + k - 1]
  BY <1>2, <1>3 DEF Run
<1>5. f \in Seq(Nat) /\ Len(f) = n /\ \A k \in 1 .. n : f[k] = i + k - 1
  <2>1. \A k \in 1 .. n : i + k - 1 \in Nat
    OBVIOUS
  <2> QED
    BY <1>3, <2>1
<1>6. Append(f, j) = [k \in 1 .. n + 1 |-> i + k - 1]
  <2>1. PICK g : g = [k \in 1 .. n + 1 |-> i + k - 1]
    OBVIOUS
  <2>2. g \in Seq(Nat) /\ Len(g) = n + 1
    <3>1. \A k \in 1 .. n + 1 : i + k - 1 \in Nat
      OBVIOUS
    <3> QED
      BY <2>1, <3>1
  <2>3. /\ Append(f, j) \in Seq(Nat) /\ Len(Append(f, j)) = n + 1
        /\ Append(f, j)[n + 1] = j /\ \A k \in 1 .. n : Append(f, j)[k] = f[k]
    BY <1>5, AppendProperties
  <2>4. \A k \in 1 .. n + 1 : Append(f, j)[k] = g[k]
    <3>1. ASSUME NEW k \in 1 .. n PROVE Append(f, j)[k] = g[k]
      BY <1>5, <2>1, <2>3
    <3>2. g[n + 1] = j
      BY <1>2, <2>1
    <3>3. \A k \in 1 .. n + 1 : k \in 1 .. n \/ k = n + 1
      OBVIOUS
    <3> QED
      BY <2>3, <3>1, <3>2, <3>3
  <2> QED
    BY <2>1, <2>2, <2>3, <2>4, SeqEqual
<1> QED
  BY <1>4, <1>6

LEMMA ContainsAlike ==
  ASSUME NEW s, NEW r, NEW i, NEW l, r.data = s.data, r.size = s.size,
         "sync" \in r.flags <=> "sync" \in s.flags, Contains(s, i, l)
  PROVE  Contains(r, i, l)
<1>1. PacketsOf(r) = PacketsOf(s)
  BY DEF PacketsOf
<1> QED
  BY <1>1 DEF Contains

LEMMA GrownContains ==
  ASSUME stream \in [Ids -> Nal], NEW s \in Samples, NEW j \in Ids, NEW i \in 0 .. j,
         NEW fl \in SUBSET {"discontinuity"}, NEW at \in Nat, NEW cell \in Nat, Contains(s, i, j - 1)
  PROVE  Contains(Grown(s, stream[j], j, fl, at, cell), i, j)
<1>1. j \in Nat /\ stream[j] \in Nal
  BY NetworkAssumption
<1>2. s.data \in Seq(Piece) /\ s.size \in Nat
  BY DEF Samples
<1>3. PICK r : r = Grown(s, stream[j], j, fl, at, cell)
  OBVIOUS
<1>4. PICK h \in Piece : h = [part |-> "header", at |-> at, cell |-> cell]
  BY DEF Piece
<1>5. PICK p \in Piece : p = Payload(j) /\ p.part = "payload" /\ p.of = j
  <2>1. PICK p : p = [part |-> "payload", of |-> j]
    OBVIOUS
  <2>2. p \in Piece
    BY <2>1 DEF Piece
  <2> QED
    BY <2>1, <2>2 DEF Payload
<1>6. /\ r.data = IF stream[j].kind = "start" THEN Append(Append(s.data, h), p) ELSE Append(s.data, p)
      /\ r.size = s.size + SizeOf(stream[j])
  BY <1>3, <1>4, <1>5 DEF Grown
<1>7. /\ PacketsOf(r) = Append(PacketsOf(s), j)
      /\ Len(r.data) = Len(s.data) + SizeOf(stream[j])
  <2>1. CASE stream[j].kind = "start"
    <3>1. PICK m : m = [data |-> Append(s.data, h)]
      OBVIOUS
    <3>2. m.data = Append(s.data, h) /\ h.part # "payload"
      BY <1>4, <3>1
    <3>3. m.data \in Seq(Piece) /\ Len(m.data) = Len(s.data) + 1 /\ Len(s.data) \in Nat
      BY <1>2, <3>2, AppendProperties, LenProperties
    <3>4. PacketsOf(m) = PacketsOf(s)
      BY <1>2, <3>2, PacketsMore
    <3>5. r.data = Append(m.data, p)
      BY <1>6, <2>1, <3>2
    <3>6. PacketsOf(r) = Append(PacketsOf(m), j)
      BY <1>5, <3>3, <3>5, PacketsMore
    <3>7. Len(r.data) = Len(m.data) + 1
      BY <3>3, <3>5, AppendProperties
    <3> QED
      BY <2>1, <3>3, <3>4, <3>6, <3>7 DEF SizeOf
  <2>2. CASE stream[j].kind # "start"
    <3>1. r.data = Append(s.data, p)
      BY <1>6, <2>2
    <3>2. PacketsOf(r) = Append(PacketsOf(s), j)
      BY <1>2, <1>5, <3>1, PacketsMore
    <3>3. Len(r.data) = Len(s.data) + 1
      BY <1>2, <3>1, AppendProperties
    <3> QED
      BY <2>2, <3>2, <3>3 DEF SizeOf
  <2> QED
    BY <2>1, <2>2
<1>8. PacketsOf(r) = Run(i, j)
  BY <1>1, <1>7, RunNext DEF Contains
<1>9. r.size = Len(r.data)
  BY <1>2, <1>6, <1>7 DEF Contains
<1>10. r.size = (j - i + 1) + Cardinality(Starts(i, j))
  <2>1. j - 1 \in Int /\ i \in Int /\ i <= (j - 1) + 1 /\ (j - 1) + 1 = j
    BY <1>1
  <2>2. /\ Cardinality(Starts(i, j)) = Cardinality(Starts(i, j - 1)) + (IF stream[j].kind = "start" THEN 1 ELSE 0)
        /\ Cardinality(Starts(i, j - 1)) \in Nat
    BY <2>1, CountsNext, CountsAre
  <2>3. s.size = ((j - 1) - i + 1) + Cardinality(Starts(i, j - 1))
    BY DEF Contains
  <2> QED
    BY <1>6, <2>1, <2>2, <2>3 DEF SizeOf
<1>11. "sync" \in r.flags <=> \E k \in i .. j : Leads(k)
  <2>1. "sync" \in r.flags <=> "sync" \in s.flags \/ Leads(j)
    BY <1>3 DEF Grown, Leads
  <2>2. "sync" \in s.flags <=> \E k \in i .. j - 1 : Leads(k)
    BY DEF Contains
  <2>3. \A k : k \in i .. j <=> k \in i .. j - 1 \/ k = j
    BY <1>1
  <2> QED
    BY <2>1, <2>2, <2>3
<1> QED
  BY <1>3, <1>8, <1>9, <1>10, <1>11 DEF Contains

LEMMA GrownHeaded ==
  ASSUME NEW s \in Samples, NEW nal \in Nal, NEW j \in Ids, NEW fl \in SUBSET {"discontinuity"},
         NEW b, NEW c, NEW m \in Nat, NEW o \in Nat, NEW n \in Nat, NEW q \in Nat,
         HeadedIn(b, m, s.data, n),
         nal.kind # "start" => c = b /\ o = m /\ q = n,
         nal.kind = "start" => q = n + 1,
         nal.kind = "start" /\ n + 1 <= BufSize => o = m /\ c[n + 1] = j /\ \A k \in 1 .. n : c[k] = b[k]
  PROVE  HeadedIn(c, o, Grown(s, nal, j, fl, o, n + 1).data, q)
<1>1. PICK d \in Seq(Piece) : d = s.data
  BY DEF Samples
<1>2. PICK l \in Nat : l = Len(d)
  BY LenProperties
<1>3. PICK h \in Piece : h = [part |-> "header", at |-> o, cell |-> n + 1]
  <2>1. PICK z \in Nat : z = n + 1
    OBVIOUS
  <2>2. [part |-> "header", at |-> o, cell |-> z] \in Piece
    BY DEF Piece
  <2> QED
    BY <2>1, <2>2
<1>4. h.part = "header" /\ h.at = o /\ h.cell = n + 1
  BY <1>3
<1>5. PICK p \in Piece : p = Payload(j) /\ p.part = "payload" /\ p.of = j
  <2>1. PICK p : p = [part |-> "payload", of |-> j]
    OBVIOUS
  <2>2. p \in Piece
    BY <2>1 DEF Piece
  <2> QED
    BY <2>1, <2>2 DEF Payload
<1>6. PICK e : e = IF nal.kind = "start" THEN Append(Append(d, h), p) ELSE Append(d, p)
  OBVIOUS
<1>7. Grown(s, nal, j, fl, o, n + 1).data = e
  BY <1>1, <1>3, <1>5, <1>6 DEF Grown
<1> SUFFICES ASSUME q <= BufSize, NEW k \in DOMAIN e, e[k].part = "header"
             PROVE  /\ e[k].at = o
                    /\ e[k].cell \in 1 .. q
                    /\ k + 1 \in DOMAIN e /\ e[k + 1].part = "payload"
                    /\ c[e[k].cell] = e[k + 1].of
  BY <1>7 DEF HeadedIn
<1>8. n <= q /\ DOMAIN d = 1 .. l /\ BufSize \in Nat
  BY <1>2, LenProperties, H264Assumption
<1>9. \A i \in 1 .. l : d[i].part = "header" =>
        /\ d[i].at = m /\ d[i].cell \in 1 .. n
        /\ i + 1 \in 1 .. l /\ d[i + 1].part = "payload"
        /\ b[d[i].cell] = d[i + 1].of
  BY <1>1, <1>8 DEF HeadedIn
<1>10. CASE nal.kind = "start"
  <2>1. PICK g \in Seq(Piece) : g = Append(d, h)
    BY AppendProperties
  <2>2. Len(g) = l + 1 /\ g[l + 1] = h /\ \A i \in 1 .. l : g[i] = d[i]
    BY <1>2, <2>1, AppendProperties
  <2>3. e = Append(g, p)
    BY <1>6, <1>10, <2>1
  <2>4. e \in Seq(Piece) /\ Len(e) = l + 2 /\ e[l + 2] = p /\ \A i \in 1 .. l + 1 : e[i] = g[i]
    BY <2>2, <2>3, AppendProperties
  <2>5. DOMAIN e = 1 .. l + 2
    BY <2>4, LenProperties
  <2>6. e[l + 1] = h /\ e[l + 2] = p /\ \A i \in 1 .. l : e[i] = d[i]
    BY <2>2, <2>4
  <2>7. o = m /\ c[n + 1] = j /\ \A i \in 1 .. n : c[i] = b[i]
    BY <1>10
  <2>8. k # l + 2
    BY <1>5, <2>6
  <2>9. CASE k = l + 1
    <3>1. k + 1 = l + 2 /\ k + 1 \in DOMAIN e /\ n + 1 \in 1 .. q
      BY <1>10, <2>5, <2>9
    <3> QED
      BY <1>4, <1>5, <2>6, <2>7, <2>9, <3>1
  <2>10. CASE k \in 1 .. l
    <3>1. e[k] = d[k] /\ d[k].part = "header"
      BY <2>6, <2>10
    <3>2. /\ d[k].at = m /\ d[k].cell \in 1 .. n /\ k + 1 \in 1 .. l
          /\ d[k + 1].part = "payload" /\ b[d[k].cell] = d[k + 1].of
      BY <1>9, <2>10, <3>1
    <3>3. e[k + 1] = d[k + 1] /\ k + 1 \in DOMAIN e
      BY <2>5, <2>6, <3>2
    <3>4. c[d[k].cell] = b[d[k].cell] /\ d[k].cell \in 1 .. q
      BY <1>8, <2>7, <3>2
    <3> QED
      BY <2>7, <3>1, <3>2, <3>3, <3>4
  <2>11. k \in 1 .. l \/ k = l + 1 \/ k = l + 2
    BY <2>5
  <2> QED
    BY <2>8, <2>9, <2>10, <2>11
<1>11. CASE nal.kind # "start"
  <2>1. e = Append(d, p)
    BY <1>6, <1>11
  <2>2. e \in Seq(Piece) /\ Len(e) = l + 1 /\ e[l + 1] = p /\ \A i \in 1 .. l : e[i] = d[i]
    BY <1>2, <2>1, AppendProperties
  <2>3. DOMAIN e = 1 .. l + 1
    BY <2>2, LenProperties
  <2>4. k # l + 1
    BY <1>5, <2>2
  <2>5. k \in 1 .. l
    BY <2>3, <2>4
  <2>6. e[k] = d[k] /\ d[k].part = "header"
    BY <2>2, <2>5
  <2>7. /\ d[k].at = m /\ d[k].cell \in 1 .. n /\ k + 1 \in 1 .. l
        /\ d[k + 1].part = "payload" /\ b[d[k].cell] = d[k + 1].of
    BY <1>9, <2>5, <2>6
  <2>8. e[k + 1] = d[k + 1] /\ k + 1 \in DOMAIN e
    BY <2>2, <2>3, <2>7
  <2> QED
    BY <1>11, <2>6, <2>7, <2>8
<1> QED
  BY <1>10, <1>11

----------------------------------------------------------------------------
(* The sizes with packet j, in a stream whose units are framed. *)
Sized(ns, n, nal, ms, q) ==
  /\ n < Len(ms)
  /\ \A m \in 1 .. Len(ns) : m # n + 1 => ms[m] = ns[m]
  /\ nal.kind \in {"start", "single"} => ms[n + 1] = SizeOf(nal)
  /\ n < Len(ns) /\ nal.kind \notin {"start", "single"} => ms[n + 1] = ns[n + 1] + 1
  /\ q = IF nal.kind \in {"end", "single"} THEN n + 1 ELSE n
Positive(ms, n) == n < Len(ms) /\ \A m \in 1 .. n : ms[m] > 0

LEMMA GrownCounted ==
  ASSUME stream \in [Ids -> Nal], Framed(stream), NEW j \in Ids, NEW i \in 0 .. j, Begins(i),
         NEW ns \in Seq(Nat), NEW n \in Nat, CountedIn(ns, n, i, j - 1),
         NEW ms \in Seq(Nat), NEW q \in Nat, Sized(ns, n, stream[j], ms, q)
  PROVE  CountedIn(ms, q, i, j) /\ Positive(ms, n)
<1>0. /\ n < Len(ms)
      /\ \A m \in 1 .. Len(ns) : m # n + 1 => ms[m] = ns[m]
      /\ stream[j].kind \in {"start", "single"} => ms[n + 1] = SizeOf(stream[j])
      /\ n < Len(ns) /\ stream[j].kind \notin {"start", "single"} => ms[n + 1] = ns[n + 1] + 1
      /\ q = IF stream[j].kind \in {"end", "single"} THEN n + 1 ELSE n
  BY DEF Sized
<1>1. j \in Nat /\ i \in Nat /\ stream[j] \in Nal /\ j - 1 \in Int /\ i \in Int /\ (j - 1) + 1 = j
  BY NetworkAssumption
<1>2. PICK S \in Nat : S = Cardinality(Starts(i, j - 1))
  BY <1>1, CountsAre
<1>3. /\ Cardinality(Starts(i, j)) = S + (IF stream[j].kind = "start" THEN 1 ELSE 0)
      /\ Cardinality(Ends(i, j)) =
           Cardinality(Ends(i, j - 1)) + (IF stream[j].kind \in {"end", "single"} THEN 1 ELSE 0)
  <2>1. i <= (j - 1) + 1
    BY <1>1
  <2> QED
    BY <1>1, <1>2, <2>1, CountsNext
<1>4. /\ n = Cardinality(Ends(i, j - 1)) /\ n <= Len(ns) /\ \A m \in 1 .. n : ns[m] > 0
      /\ Measures(ns, i, j - 1)
  BY DEF CountedIn
<1>5. q = Cardinality(Ends(i, j))
  BY <1>0, <1>3, <1>4
<1>6. Len(ns) \in Nat /\ Len(ms) \in Nat
  BY LenProperties
<1>7. \A m \in 1 .. n : ms[m] = ns[m]
  <2> SUFFICES ASSUME NEW m \in 1 .. n PROVE ms[m] = ns[m]
    OBVIOUS
  <2>1. m \in 1 .. Len(ns) /\ m # n + 1
    BY <1>4, <1>6
  <2> QED
    BY <1>0, <2>1
<1>8. \A m \in 0 .. n : SumTo(ms, m) = SumTo(ns, m)
  <2> SUFFICES ASSUME NEW m \in 0 .. n PROVE SumTo(ms, m) = SumTo(ns, m)
    OBVIOUS
  <2>1. m \in Nat /\ \A k \in 1 .. m : ms[k] = ns[k]
    BY <1>7
  <2> QED
    BY <2>1, SumToSame
<1>9. SumTo(ns, n) \in Nat
  <2>1. n \in 0 .. Len(ns)
    BY <1>4, <1>6
  <2> QED
    BY <2>1, SumToNat
<1>10. SumTo(ms, n + 1) = SumTo(ns, n) + ms[n + 1]
  <2>1. SumTo(ms, n + 1) = SumTo(ms, n) + ms[n + 1]
    BY SumToNext
  <2>2. n \in 0 .. n
    OBVIOUS
  <2> QED
    BY <1>8, <2>1, <2>2
<1>11. SumTo(ms, n + 1) = (j - i + 1) + Cardinality(Starts(i, j)) /\ ms[n + 1] > 0
  <2>1. CASE stream[j].kind \in {"start", "single"}
    <3>1. j = 0 \/ stream[j - 1].kind \in {"single", "end"}
      BY <2>1 DEF Framed
    <3>2. ~InUnit(i, j - 1)
      BY <1>1, <3>1 DEF InUnit
    <3>3. SumTo(ns, n) = ((j - 1) - i + 1) + S
      BY <1>2, <3>2 DEF CountedIn
    <3>4. ms[n + 1] = IF stream[j].kind = "start" THEN 2 ELSE 1
      BY <1>0, <2>1 DEF SizeOf
    <3> QED
      BY <1>1, <1>2, <1>3, <1>10, <2>1, <3>3, <3>4
  <2>2. CASE stream[j].kind \notin {"start", "single"}
    <3>1. stream[j].kind \in {"middle", "end"}
      BY <1>1, <2>2 DEF Nal, Kinds
    <3>2. j # 0 /\ stream[j - 1].kind \in {"start", "middle"}
      BY <3>1 DEF Framed
    <3>3. j - 1 \in Ids
      BY <1>1, <3>2, NetworkAssumption
    <3>4. ~stream[j - 1].mark
      BY <3>2, <3>3 DEF Framed
    <3>5. i # j
      BY <3>2, <3>4 DEF Begins
    <3>6. InUnit(i, j - 1)
      BY <1>1, <3>2, <3>5 DEF InUnit
    <3>7. n < Len(ns) /\ ns[n + 1] > 0 /\ SumTo(ns, n + 1) = ((j - 1) - i + 1) + S
      BY <1>2, <3>6 DEF CountedIn
    <3>8. SumTo(ns, n + 1) = SumTo(ns, n) + ns[n + 1] /\ ms[n + 1] = ns[n + 1] + 1
      BY <1>0, <2>2, <3>7, SumToNext
    <3>9. ns[n + 1] \in Nat
      <4>1. n + 1 \in 1 .. Len(ns)
        BY <1>6, <3>7
      <4> QED
        BY <4>1
    <3>10. Cardinality(Starts(i, j)) = S
      BY <1>3, <2>2
    <3>11. PICK a \in Nat, x \in Nat : a = SumTo(ns, n) /\ x = ns[n + 1]
      BY <1>9, <3>9
    <3>12. SumTo(ms, n + 1) = a + (x + 1) /\ a + x = ((j - 1) - i + 1) + S /\ x > 0
      BY <1>10, <3>7, <3>8, <3>11
    <3>13. a + (x + 1) = (j - i + 1) + S
      BY <1>1, <3>12
    <3>14. SumTo(ms, n + 1) = (j - i + 1) + Cardinality(Starts(i, j))
      BY <3>10, <3>12, <3>13
    <3>15. ms[n + 1] > 0
      BY <3>8, <3>9
    <3> QED
      BY <3>14, <3>15
  <2> QED
    BY <2>1, <2>2
<1>12. \A m \in 1 .. n : ms[m] > 0
  BY <1>4, <1>7
<1>13. Measures(ms, i, j)
  <2> SUFFICES ASSUME NEW k \in Ends(i, j)
               PROVE  SumTo(ms, Cardinality(Ends(i, k))) = (k - i + 1) + Cardinality(Starts(i, k))
    BY DEF Measures
  <2>1. k \in i .. j /\ stream[k].kind \in {"end", "single"}
    BY DEF Ends
  <2>2. CASE k = j
    <3>1. Cardinality(Ends(i, k)) = n + 1
      BY <1>0, <1>5, <2>1, <2>2
    <3> QED
      BY <1>11, <2>2, <3>1
  <2>3. CASE k # j
    <3>1. k \in i .. j - 1 /\ k \in Int /\ k <= j - 1
      BY <1>1, <2>1, <2>3
    <3>2. k \in Ends(i, j - 1)
      BY <2>1, <3>1 DEF Ends
    <3>3. SumTo(ns, Cardinality(Ends(i, k))) = (k - i + 1) + Cardinality(Starts(i, k))
      BY <1>4, <3>2 DEF Measures
    <3>4. Cardinality(Ends(i, k)) \in Nat /\ Cardinality(Ends(i, k)) <= n
      BY <1>1, <1>4, <3>1, CountsAre, CountsGrow
    <3>5. Cardinality(Ends(i, k)) \in 0 .. n
      BY <3>4
    <3> QED
      BY <1>8, <3>3, <3>5
  <2> QED
    BY <2>2, <2>3
<1>14. CountedIn(ms, q, i, j)
  <2>1. CASE stream[j].kind \in {"end", "single"}
    <3>1. ~InUnit(i, j) /\ q = n + 1
      BY <1>0, <2>1 DEF InUnit
    <3>2. \A m \in 1 .. q : ms[m] > 0
      <4>1. \A m \in 1 .. q : m \in 1 .. n \/ m = n + 1
        BY <3>1
      <4> QED
        BY <1>11, <1>12, <4>1
    <3>3. q <= Len(ms)
      BY <1>0, <1>6, <3>1
    <3> QED
      BY <1>5, <1>11, <1>13, <3>1, <3>2, <3>3 DEF CountedIn
  <2>2. CASE stream[j].kind \notin {"end", "single"}
    <3>1. InUnit(i, j) /\ q = n
      BY <1>0, <1>1, <2>2 DEF InUnit, Nal, Kinds
    <3>2. q <= Len(ms)
      BY <1>0, <1>6, <3>1
    <3> QED
      BY <1>0, <1>5, <1>11, <1>12, <1>13, <3>1, <3>2 DEF CountedIn
  <2> QED
    BY <2>1, <2>2
<1> QED
  BY <1>0, <1>12, <1>14 DEF Positive

(* The units of a sample, when those before the n + 1st were measured. *)
ReadsOff(ms, n, size, u) ==
  /\ Len(u) = n + 1
  /\ \A m \in 1 .. n : u[m] = ms[m]
  /\ u[n + 1] = size - SumTo(ms, n)

LEMMA UnitsFacts ==
  ASSUME NEW ms \in Seq(Nat), NEW n \in Nat, Positive(ms, n),
         NEW z, z = [ms EXCEPT ![n + 1] = 0], NEW size \in Nat
  PROVE  ReadsOff(ms, n, size, Units(z, size))
<1>0. n < Len(ms) /\ \A m \in 1 .. n : ms[m] > 0
  BY DEF Positive
<1>1. Len(ms) \in Nat /\ DOMAIN ms = 1 .. Len(ms) /\ n + 1 \in 1 .. Len(ms)
  BY <1>0, LenProperties
<1>2. z \in Seq(Nat) /\ Len(z) = Len(ms) /\ z[n + 1] = 0 /\ \A m \in 1 .. n : z[m] = ms[m]
  <2>1. PICK o \in Nat : o = 0
    OBVIOUS
  <2>2. z \in Seq(Nat) /\ Len(z) = Len(ms)
    BY <2>1, PutsIn
  <2> QED
    BY <1>1, <2>2
<1>3. DOMAIN z = 1 .. Len(ms)
  BY <1>2, LenProperties
<1> DEFINE N == {k \in DOMAIN z : z[k] = 0} \union {Len(z) + 1}
<1>4. n + 1 \in N /\ N \in SUBSET Int /\ \A k \in N : n + 1 <= k
  <2>1. n + 1 \in N
    BY <1>1, <1>2, <1>3
  <2>2. N \in SUBSET Int
    BY <1>1, <1>2, <1>3
  <2>3. ASSUME NEW k \in N PROVE n + 1 <= k
    <3>1. k = Len(ms) + 1 \/ (k \in 1 .. Len(ms) /\ z[k] = 0)
      BY <1>2, <1>3, <2>3
    <3>2. ~(k \in 1 .. n /\ z[k] = 0)
      <4> SUFFICES ASSUME k \in 1 .. n, z[k] = 0 PROVE FALSE
        OBVIOUS
      <4>1. ms[k] > 0 /\ ms[k] = 0
        BY <1>0, <1>2
      <4> QED
        BY <4>1
    <3> QED
      BY <1>1, <3>1, <3>2
  <2> QED
    BY <2>1, <2>2, <2>3
<1>5. Units(z, size) = SubSeq(z, 1, Min(N) - 1) \o <<size - SumTo(z, Min(N) - 1)>>
  BY DEF Units
<1> HIDE DEF N
<1>6. Min(N) - 1 = n
  <2>1. Min(N) = n + 1
    BY <1>4, LeastIs
  <2> QED
    BY <2>1
<1>7. SumTo(z, n) = SumTo(ms, n) /\ SumTo(ms, n) \in Nat
  <2>1. n \in 0 .. Len(ms)
    BY <1>1
  <2> QED
    BY <1>2, <2>1, SumToSame, SumToNat
<1>8. PICK f : f = SubSeq(z, 1, n)
  OBVIOUS
<1>9. f \in Seq(Int) /\ Len(f) = n /\ \A m \in 1 .. n : f[m] = ms[m]
  <2>1. 1 \in 1 .. Len(z) + 1 /\ n \in 1 - 1 .. Len(z)
    BY <1>1, <1>2
  <2>2. f \in Seq(Nat) /\ Len(f) = n /\ \A m \in 1 .. n : f[m] = z[1 + m - 1]
    BY <1>2, <1>8, <2>1, SubSeqProperties
  <2>3. \A m \in 1 .. n : 1 + m - 1 = m
    OBVIOUS
  <2>4. f \in Seq(Int)
    BY <2>2
  <2> QED
    BY <1>2, <2>2, <2>3, <2>4
<1>10. PICK x \in Int : x = size - SumTo(ms, n)
  BY <1>7
<1>11. Units(z, size) = f \o <<x>>
  BY <1>5, <1>6, <1>7, <1>8, <1>10
<1>12. f \o <<x>> = Append(f, x)
  BY <1>9, AppendIsConcat
<1>13. /\ Len(Append(f, x)) = n + 1 /\ Append(f, x)[n + 1] = x
       /\ \A m \in 1 .. n : Append(f, x)[m] = f[m]
  BY <1>9, AppendProperties
<1> QED
  BY <1>9, <1>10, <1>11, <1>12, <1>13 DEF ReadsOff

Capped(ms, n) == [ms EXCEPT ![n + 1] = 0]
Span(i, j) == (j - i + 1) + Cardinality(Starts(i, j))

LEMMA MarkedUnits ==
  ASSUME stream \in [Ids -> Nal], Framed(stream), NEW j \in Ids, NEW i \in 0 .. j, stream[j].mark,
         NEW ms \in Seq(Nat), NEW n \in Nat, Positive(ms, n),
         CountedIn(ms, n + 1, i, j)
  PROVE  HasUnits(Units(Capped(ms, n), Span(i, j)), i, j)
<1>0. PICK size, z : size = (j - i + 1) + Cardinality(Starts(i, j)) /\ z = [ms EXCEPT ![n + 1] = 0]
  OBVIOUS
<1>1. j \in Nat /\ i \in Nat /\ j \in Int /\ i \in Int
  BY NetworkAssumption
<1>2. Cardinality(Starts(i, j)) \in Nat /\ size \in Nat
  <2>1. Cardinality(Starts(i, j)) \in Nat
    BY <1>1, CountsAre
  <2>2. j - i + 1 \in Nat
    BY <1>1
  <2> QED
    BY <1>0, <2>1, <2>2
<1>3. PICK u : u = Units(z, size)
  OBVIOUS
<1>4. Len(u) = n + 1 /\ (\A m \in 1 .. n : u[m] = ms[m]) /\ u[n + 1] = size - SumTo(ms, n)
  <2>1. ReadsOff(ms, n, size, Units(z, size))
    BY <1>0, <1>2, UnitsFacts
  <2> QED
    BY <1>3, <2>1 DEF ReadsOff
<1>5. n + 1 = Cardinality(Ends(i, j)) /\ Measures(ms, i, j)
  BY DEF CountedIn
<1>6. stream[j].kind \in {"single", "end"}
  BY DEF Framed
<1>7. j \in Ends(i, j)
  BY <1>1, <1>6 DEF Ends
<1>8. \A m \in 0 .. n : SumTo(u, m) = SumTo(ms, m)
  <2> SUFFICES ASSUME NEW m \in 0 .. n PROVE SumTo(u, m) = SumTo(ms, m)
    OBVIOUS
  <2>1. m \in Nat /\ \A k \in 1 .. m : u[k] = ms[k]
    BY <1>4
  <2> QED
    BY <2>1, SumToSame
<1>9. Measures(u, i, j)
  <2> SUFFICES ASSUME NEW k \in Ends(i, j)
               PROVE  SumTo(u, Cardinality(Ends(i, k))) = (k - i + 1) + Cardinality(Starts(i, k))
    BY DEF Measures
  <2>1. k \in i .. j
    BY DEF Ends
  <2>2. CASE k = j
    <3>1. SumTo(u, n + 1) = SumTo(u, n) + u[n + 1] /\ SumTo(u, n) = SumTo(ms, n)
      BY <1>8, SumToNext
    <3>2. SumTo(ms, n) \in Nat
      <4>1. n \in 0 .. Len(ms)
        BY LenProperties DEF Positive
      <4> QED
        BY <4>1, SumToNat
    <3>3. SumTo(u, n + 1) = size
      BY <1>2, <1>4, <3>1, <3>2
    <3> QED
      BY <1>0, <1>5, <2>2, <3>3
  <2>3. CASE k # j
    <3>1. k \in Int /\ k <= j /\ k < j
      BY <1>1, <2>1, <2>3
    <3>2. Cardinality(Ends(i, k)) < n + 1 /\ Cardinality(Ends(i, k)) \in Nat
      BY <1>1, <1>5, <1>7, <3>1, CountsGrow, CountsAre
    <3>3. Cardinality(Ends(i, k)) \in 0 .. n
      BY <3>2
    <3>4. SumTo(ms, Cardinality(Ends(i, k))) = (k - i + 1) + Cardinality(Starts(i, k))
      BY <1>5 DEF Measures
    <3> QED
      BY <1>8, <3>3, <3>4
  <2> QED
    BY <2>2, <2>3
<1> QED
  BY <1>0, <1>3, <1>4, <1>5, <1>9 DEF HasUnits, Capped, Span

----------------------------------------------------------------------------
(* A packet of Video.  Emptied: after it sample_ is empty. *)
Emptied(j) ==
  /\ kept'[Video].data = <<>> /\ kept'[Video].size = 0 /\ "sync" \notin kept'[Video].flags
  /\ "discontinuity" \in kept'[Video].flags <=> lastEnd' # j
  /\ bufUsed' = 0 /\ naluCount' = 0 /\ naluSizes' \in Seq(Nat)
  /\ Begins(j + 1) /\ lastEnd' \in -1 .. j

LEMMA EmptiedIntact ==
  ASSUME NEW j \in -1 .. Sent - 1, Emptied(j), stream' = stream
  PROVE  Intact(j)'
<1>1. j \in Int /\ j + 1 \in Nat /\ j + 1 \in 0 .. j + 1
  BY NetworkAssumption
<1> DEFINE i == j + 1
<1>2. /\ Starts(i, j) = {} /\ Ends(i, j) = {} /\ Cardinality(Starts(i, j)) = 0
      /\ Cardinality(Ends(i, j)) = 0 /\ i .. j = {}
  <2>1. i .. j = {}
    BY <1>1
  <2>2. Starts(i, j) = {} /\ Ends(i, j) = {}
    BY <2>1 DEF Starts, Ends
  <2> QED
    BY <2>1, <2>2, FS_EmptySet
<1>3. Starts(i, j)' = {} /\ Ends(i, j)' = {} /\ Cardinality(Starts(i, j))' = 0 /\ Cardinality(Ends(i, j))' = 0
  BY <1>2, StreamSame
<1>4. j - i + 1 = 0
  BY <1>1
<1> HIDE DEF i
<1>5. UnderWay(i, j)'
  <2>1. i \in 0 .. j + 1 /\ lastEnd' < i
    BY <1>1 DEF i, Emptied
  <2>2. Begins(i)'
    BY StreamSame DEF Emptied, i
  <2> QED
    BY <1>2, <2>1, <2>2 DEF UnderWay
<1>6. Contains(kept[Video], i, j)'
  <2>1. PacketsOf(kept[Video])' = Run(i, j)
    <3>1. PacketsOf(kept[Video])' = <<>>
      BY PacketsNone DEF Emptied
    <3>2. Run(i, j) = <<>>
      BY <1>4 DEF Run
    <3> QED
      BY <3>1, <3>2
  <2>2. Len(<<>>) = 0
    OBVIOUS
  <2> QED
    BY <1>2, <1>3, <1>4, <2>1, <2>2 DEF Contains, Emptied
<1>7. "discontinuity" \in kept'[Video].flags <=> i # lastEnd' + 1
  <2>1. i # lastEnd' + 1 <=> lastEnd' # j
    <3>1. PICK e \in Int : e = lastEnd'
      BY <1>1 DEF Emptied
    <3>2. j + 1 # e + 1 <=> e # j
      BY <1>1
    <3> QED
      BY <3>1, <3>2 DEF i
  <2> QED
    BY <2>1 DEF Emptied
<1>8. Headed(kept[Video], i, j)'
  BY DEF Headed, HeadedIn, Emptied
<1>9. Counted(i, j)'
  <2>1. naluCount' = Cardinality(Ends(i, j))' /\ naluCount' <= Len(naluSizes')
    BY <1>3, LenProperties DEF Emptied
  <2>2. Measures(naluSizes, i, j)'
    BY <1>3 DEF Measures
  <2>3. ~InUnit(i, j)'
    BY <1>1 DEF InUnit, i
  <2>4. SumTo(naluSizes, naluCount)' = (j - i + 1) + Cardinality(Starts(i, j))'
    <3>1. \A ns : SumTo(ns, 0) = 0
      <4>1. 0 \in Nat
        OBVIOUS
      <4> QED
        BY <4>1, SumToNext
    <3> QED
      BY <1>3, <1>4, <3>1 DEF Emptied
  <2>5. \A m \in 1 .. naluCount' : naluSizes'[m] > 0
    BY DEF Emptied
  <2> QED
    BY <2>1, <2>2, <2>3, <2>4, <2>5 DEF Counted, CountedIn
<1>10. i \in 0 .. j + 1 /\ bufUsed' = Cardinality(Starts(i, j))'
  BY <1>1, <1>3 DEF i, Emptied
<1> QED
  BY <1>5, <1>6, <1>7, <1>8, <1>9, <1>10 DEF Intact

VideoPacket(j) ==
  /\ Brings(Video, j) /\ PushH264(j, stream[j], FlagsOf(out'))
  /\ lastEnd' = IF taken' # NoSample THEN SX!Last(PacketsOf(taken')) ELSE lastEnd
  /\ stream' = stream /\ parsers' = parsers /\ lost' = lost

(* A packet of a frame that ends with j was lost, or the one before it. *)
Gap(j) == \E x \in lost[Video] : x < j /\ \A k \in x + 1 .. j - 1 : ~stream[k].mark

LEMMA VideoFlags ==
  ASSUME NEW j \in Ids, VideoPacket(j), NEW l \in Int, Stands(l)
  PROVE  /\ FlagsOf(out') \in SUBSET {"discontinuity"}
         /\ "discontinuity" \in FlagsOf(out') <=> j # l + 1
         /\ l < j /\ j \in 0 .. Sent - 1
         /\ \A x \in l + 1 .. j - 1 : x \in lost[Video]
         /\ LastDelivered(Video)' = j
<1>1. LastDelivered(Video) = l
  BY DEF Stands
<1>2. out'.disc = (j # l + 1)
  BY <1>1 DEF VideoPacket, Brings
<1>3. FlagsOf(out') = IF j # l + 1 THEN {"discontinuity"} ELSE {}
  BY <1>2 DEF FlagsOf
<1>4. l < j /\ j \in 0 .. Sent - 1 /\ LastDelivered(Video)' = j /\ \A x \in l + 1 .. j - 1 : x \in lost[Video]
  BY <1>1, NetworkAssumption DEF VideoPacket, Brings
<1> QED
  BY <1>3, <1>4

LEMMA VideoPushes ==
  ASSUME Typed, NEW j \in Ids, VideoPacket(j), NEW l \in Int, Stands(l),
         NEW r, r = Grown(kept[Video], stream[j], j, FlagsOf(out'), moved', bufUsed + 1)
  PROVE  /\ Video \in Tracks /\ stream[j] \in Nal /\ kept[Video] \in Samples /\ r \in Samples
         /\ WriteHeader(j, stream[j]) /\ CountUnit(stream[j])
         /\ buf' \in Seq(Ids \union {NoHeader}) /\ Len(buf') >= BufSize /\ moved' \in Nat /\ bufUsed' \in Nat
         /\ naluSizes' \in Seq(Nat) /\ naluSizes' # <<>> /\ naluCount' \in Nat
         /\ \/ ~stream[j].mark /\ kept' = [kept EXCEPT ![Video] = r] /\ taken' = NoSample
            \/ /\ stream[j].mark /\ "frag_lost" \notin r.flags
               /\ kept' = [kept EXCEPT ![Video] = NoSample]
               /\ taken' = [r EXCEPT !.flags = Low(r.flags)]
            \/ /\ stream[j].mark /\ "frag_lost" \in r.flags
               /\ kept' = [kept EXCEPT ![Video] =
                             [NoSample EXCEPT !.flags = r.flags \intersect {"discontinuity"}]]
               /\ taken' = NoSample
<1>1. Video \in Tracks /\ stream \in [Ids -> Nal]
  BY ReceiverAssumption DEF Typed
<1>2. PushH264(j, stream[j], FlagsOf(out'))
  BY DEF VideoPacket
<1>3. WriteHeader(j, stream[j]) /\ CountUnit(stream[j]) /\ stream[j] \in Nal /\ kept[Video] \in Samples
  BY <1>1, <1>2 DEF PushH264, Typed
<1>4. buf' \in Seq(Ids \union {NoHeader}) /\ Len(buf') >= BufSize /\ moved' \in Nat /\ bufUsed' \in Nat
  BY <1>3, HeaderFacts DEF Typed
<1>5. naluSizes' \in Seq(Nat) /\ naluSizes' # <<>> /\ naluCount' \in Nat
  BY <1>3, SizesFacts DEF Typed
<1>6. FlagsOf(out') \in SUBSET {"discontinuity"} /\ bufUsed \in Nat /\ bufUsed + 1 \in Nat
  BY VideoFlags DEF Typed
<1>7. r \in Samples
  BY <1>3, <1>4, <1>6, GrownSample
<1>8. \/ ~stream[j].mark /\ Hold(Video, r)
      \/ stream[j].mark /\ "frag_lost" \notin r.flags /\ HandOver(Video, r)
      \/ stream[j].mark /\ "frag_lost" \in r.flags /\ Discard(Video, r)
  BY <1>2, <1>3, <1>4, <1>6, PushVideo DEF Typed
<1> QED
  BY <1>1, <1>3, <1>4, <1>5, <1>7, <1>8 DEF Hold, HandOver, Discard

LEMMA NoSampleFacts ==
  /\ NoSample.data = <<>> /\ NoSample.size = 0 /\ NoSample.flags = {}
  /\ NoSample \in Samples
  /\ \A s : /\ [NoSample EXCEPT !.flags = s].data = <<>> /\ [NoSample EXCEPT !.flags = s].size = 0
            /\ [NoSample EXCEPT !.flags = s].flags = s
            /\ s \in SUBSET Flags => [NoSample EXCEPT !.flags = s] \in Samples
<1>1. <<>> \in Seq(Piece)
  OBVIOUS
<1> QED
  BY <1>1 DEF NoSample, Samples

LEMMA VideoTyped ==
  ASSUME Typed, NEW j \in Ids, VideoPacket(j), NEW l \in Int, Stands(l)
  PROVE  Typed'
<1>1. PICK r : r = Grown(kept[Video], stream[j], j, FlagsOf(out'), moved', bufUsed + 1)
  OBVIOUS
<1>2. /\ Video \in Tracks /\ r \in Samples
      /\ buf' \in Seq(Ids \union {NoHeader}) /\ Len(buf') >= BufSize /\ moved' \in Nat /\ bufUsed' \in Nat
      /\ naluSizes' \in Seq(Nat) /\ naluSizes' # <<>> /\ naluCount' \in Nat
      /\ \/ kept' = [kept EXCEPT ![Video] = r]
         \/ kept' = [kept EXCEPT ![Video] = NoSample]
         \/ kept' = [kept EXCEPT ![Video] = [NoSample EXCEPT !.flags = r.flags \intersect {"discontinuity"}]]
  BY <1>1, VideoPushes, Zenon
<1>3. \E s \in Samples : kept' = [kept EXCEPT ![Video] = s]
  <2>1. r.flags \intersect {"discontinuity"} \in SUBSET Flags
    BY DEF Flags
  <2> QED
    BY <1>2, <2>1, NoSampleFacts
<1>4. kept' \in [Tracks -> Samples]
  BY <1>3 DEF Typed
<1> QED
  BY <1>2, <1>4 DEF Typed, VideoPacket

(* Packet j when the frame under way lacks one. *)
LEMMA BrokenStep ==
  ASSUME NetOK, Typed, NEW j \in Ids, VideoPacket(j), NEW l \in -1 .. Sent - 1, Stands(l),
         NEW r, r = Grown(kept[Video], stream[j], j, FlagsOf(out'), moved', bufUsed + 1),
         "frag_lost" \in r.flags
  PROVE  Stands(j)' /\ taken' = NoSample /\ (stream[j].mark => Gap(j))
<1>0. \A x \in lost[Video] : x \in Int
  BY ReceiverAssumption, NetworkAssumption DEF NetOK
<1>1. /\ "discontinuity" \in FlagsOf(out') <=> j # l + 1
      /\ l \in Int /\ l < j /\ j \in 0 .. Sent - 1 /\ j \in Nat
      /\ \A x \in l + 1 .. j - 1 : x \in lost[Video]
      /\ LastDelivered(Video)' = j /\ lastEnd \in -1 .. l
  BY VideoFlags, NetworkAssumption DEF Stands
<1>2. /\ Video \in Tracks
      /\ bufUsed' = IF stream[j].mark THEN 0 ELSE IF stream[j].kind = "start" THEN bufUsed + 1 ELSE bufUsed
      /\ naluSizes' \in Seq(Nat)
      /\ \/ ~stream[j].mark /\ kept' = [kept EXCEPT ![Video] = r] /\ taken' = NoSample
         \/ /\ stream[j].mark
            /\ kept' = [kept EXCEPT ![Video] =
                          [NoSample EXCEPT !.flags = r.flags \intersect {"discontinuity"}]]
            /\ taken' = NoSample
  <2>1. /\ WriteHeader(j, stream[j]) /\ Video \in Tracks /\ naluSizes' \in Seq(Nat)
        /\ \/ ~stream[j].mark /\ kept' = [kept EXCEPT ![Video] = r] /\ taken' = NoSample
           \/ /\ stream[j].mark
              /\ kept' = [kept EXCEPT ![Video] =
                            [NoSample EXCEPT !.flags = r.flags \intersect {"discontinuity"}]]
              /\ taken' = NoSample
    BY <1>1, VideoPushes
  <2> QED
    BY <2>1 DEF WriteHeader
<1>3. kept \in [Tracks -> Samples] /\ taken' = NoSample /\ lastEnd' = lastEnd /\ stream' = stream /\ lost' = lost
  BY <1>2 DEF Typed, VideoPacket
<1>4. "discontinuity" \in r.flags
  <2>1. CASE j = l + 1
    <3>1. "frag_lost" \in kept[Video].flags
      BY <1>1, <2>1, VideoFlags DEF Grown
    <3>2. Broken(l)
      BY <3>1 DEF Stands
    <3> QED
      BY <3>2 DEF Broken, Grown
  <2>2. CASE j # l + 1
    BY <1>1, <2>2 DEF Grown
  <2> QED
    BY <2>1, <2>2
<1>5. Gap(j)
  <2>1. CASE j = l + 1
    <3>1. "frag_lost" \in kept[Video].flags
      BY <1>1, <2>1, VideoFlags DEF Grown
    <3>2. PICK x \in lost[Video] : x <= l /\ \A k \in x + 1 .. l : ~stream[k].mark
      BY <3>1 DEF Stands, Broken
    <3>3. j - 1 = l
      BY <1>1, <2>1
    <3>4. x < j
      <4>1. x <= j - 1 /\ j \in Int
        BY <1>1, <3>2, <3>3
      <4>2. x \in Int
        BY <1>0
      <4> QED
        BY <4>1, <4>2
    <3> QED
      BY <3>2, <3>3, <3>4 DEF Gap
  <2>2. CASE j # l + 1
    <3>1. j - 1 \in l + 1 .. j - 1 /\ j - 1 < j /\ (j - 1) + 1 .. j - 1 = {}
      BY <1>1, <2>2
    <3> QED
      BY <1>1, <3>1 DEF Gap
  <2> QED
    BY <2>1, <2>2
<1>6. lastEnd' \in -1 .. j
  BY <1>1, <1>3
<1>7. CASE ~stream[j].mark
  <2>1. kept'[Video] = r
    BY <1>2, <1>3, <1>7
  <2>2. Broken(j)'
    <3>1. PICK x \in lost[Video] : x < j /\ \A k \in x + 1 .. j - 1 : ~stream[k].mark
      BY <1>5 DEF Gap
    <3>2. x \in Int
      BY <1>0
    <3>3. x <= j /\ \A k \in x + 1 .. j : ~stream[k].mark
      <4>1. \A k \in x + 1 .. j : k \in x + 1 .. j - 1 \/ k = j
        BY <1>1, <3>2
      <4> QED
        BY <1>1, <1>7, <3>1, <3>2, <4>1
    <3> QED
      BY <1>3, <1>4, <2>1, <3>3 DEF Broken
  <2> QED
    BY <1>1, <1>3, <1>5, <1>6, <1>7, <2>1, <2>2 DEF Stands
<1>8. CASE stream[j].mark
  <2>1. kept'[Video] = [NoSample EXCEPT !.flags = r.flags \intersect {"discontinuity"}]
    BY <1>2, <1>3, <1>8
  <2>2. /\ kept'[Video].data = <<>> /\ kept'[Video].size = 0
        /\ kept'[Video].flags = r.flags \intersect {"discontinuity"}
    BY <2>1, NoSampleFacts
  <2>3. "discontinuity" \in kept'[Video].flags /\ "sync" \notin kept'[Video].flags /\ "frag_lost" \notin kept'[Video].flags
    BY <1>4, <2>2
  <2>4. bufUsed' = 0 /\ naluCount' = 0
    <3>1. CountUnit(stream[j])
      BY VideoPushes
    <3> QED
      BY <1>2, <1>8, <3>1 DEF CountUnit
  <2>5. Begins(j + 1)
    <3>1. (j + 1) - 1 = j
      BY <1>1
    <3> QED
      BY <1>8, <3>1 DEF Begins
  <2>6. lastEnd' # j
    BY <1>1, <1>3
  <2>7. Emptied(j)
    BY <1>2, <1>6, <2>2, <2>3, <2>4, <2>5, <2>6 DEF Emptied
  <2>8. Intact(j)'
    BY <1>1, <1>3, <2>7, EmptiedIntact
  <2> QED
    BY <1>1, <1>3, <1>5, <1>6, <2>3, <2>8 DEF Stands
<1> QED
  BY <1>7, <1>8

(* Packet j when nothing is missing: the frame under way from i goes on. *)
GoesOn(i, j, r) ==
  /\ i \in 0 .. j /\ UnderWay(i, j - 1)
  /\ Contains(r, i, j)
  /\ "discontinuity" \in r.flags <=> i # lastEnd + 1
  /\ bufUsed' = IF stream[j].mark THEN 0 ELSE Cardinality(Starts(i, j))
  /\ HeadedIn(buf', moved', r.data, Cardinality(Starts(i, j)))
  /\ WellFormed =>
       IF stream[j].mark
       THEN HasUnits(Units(naluSizes', r.size), i, j)
       ELSE CountedIn(naluSizes', naluCount', i, j)

LEMMA UnitsGoOn ==
  ASSUME Typed, NEW j \in Ids, CountUnit(stream[j]), NEW i \in 0 .. j, Begins(i), Framed(stream),
         CountedIn(naluSizes, naluCount, i, j - 1), NEW size, size = (j - i + 1) + Cardinality(Starts(i, j))
  PROVE  IF stream[j].mark
         THEN HasUnits(Units(naluSizes', size), i, j)
         ELSE CountedIn(naluSizes', naluCount', i, j)
<1>1. stream \in [Ids -> Nal] /\ stream[j] \in Nal
  BY ReceiverAssumption DEF Typed
<1>2. PICK sizes \in Seq(Nat), count \in Nat :
        /\ Len(sizes) \in Nat /\ Len(sizes) >= Len(naluSizes)
        /\ naluCount <= Len(naluSizes) => naluCount < Len(sizes)
        /\ \A m \in 1 .. Len(naluSizes) : m # naluCount + 1 => sizes[m] = naluSizes[m]
        /\ naluCount < Len(sizes) /\ stream[j].kind \in {"start", "single"} =>
             sizes[naluCount + 1] = SizeOf(stream[j])
        /\ naluCount < Len(naluSizes) /\ stream[j].kind \notin {"start", "single"} =>
             sizes[naluCount + 1] = naluSizes[naluCount + 1] + 1
        /\ count = IF stream[j].kind \in {"end", "single"} THEN naluCount + 1 ELSE naluCount
        /\ naluCount' = IF stream[j].mark THEN 0 ELSE count
        /\ naluSizes' = IF stream[j].mark THEN [sizes EXCEPT ![count] = 0] ELSE sizes
  BY <1>1, SizesFacts DEF Typed
<1>3. PICK ns \in Seq(Nat), n \in Nat : ns = naluSizes /\ n = naluCount
  BY DEF Typed
<1>4. CountedIn(ns, n, i, j - 1) /\ n <= Len(ns)
  BY <1>3 DEF CountedIn
<1>5. CountedIn(sizes, count, i, j) /\ Positive(sizes, n)
  <2>1. Sized(ns, n, stream[j], sizes, count)
    BY <1>2, <1>3, <1>4 DEF Sized
  <2> QED
    BY <1>1, <1>4, <2>1, GrownCounted
<1>6. CASE ~stream[j].mark
  BY <1>2, <1>5, <1>6
<1>7. CASE stream[j].mark
  <2>1. stream[j].kind \in {"single", "end"}
    BY <1>7 DEF Framed
  <2>2. count = n + 1 /\ naluSizes' = [sizes EXCEPT ![n + 1] = 0] /\ n < Len(sizes)
    BY <1>2, <1>3, <1>4, <1>7, <2>1
  <2>3. naluSizes' = Capped(sizes, n) /\ size = Span(i, j)
    BY <2>2 DEF Capped, Span
  <2>4. CountedIn(sizes, n + 1, i, j)
    BY <1>5, <2>2
  <2>5. HasUnits(Units(Capped(sizes, n), Span(i, j)), i, j)
    BY <1>1, <1>5, <1>7, <2>4, MarkedUnits
  <2> QED
    BY <1>7, <2>3, <2>5
<1> QED
  BY <1>6, <1>7

LEMMA IntactGrows ==
  ASSUME Typed, NEW j \in Ids, VideoPacket(j), NEW l \in -1 .. Sent - 1, Stands(l),
         NEW r, r = Grown(kept[Video], stream[j], j, FlagsOf(out'), moved', bufUsed + 1),
         "frag_lost" \notin r.flags
  PROVE  \E i : GoesOn(i, j, r)
<1>1. /\ "discontinuity" \notin FlagsOf(out') /\ FlagsOf(out') \in SUBSET {"discontinuity"}
      /\ j = l + 1 /\ j \in Nat /\ l = j - 1 /\ j \in Int /\ j - 1 \in Int
  <2>1. "discontinuity" \notin FlagsOf(out')
    BY DEF Grown
  <2> QED
    BY <2>1, VideoFlags, NetworkAssumption
<1>2. "frag_lost" \notin kept[Video].flags
  BY DEF Grown
<1>3. Intact(l)
  BY <1>2 DEF Stands
<1>4. PICK i \in 0 .. l + 1 :
        /\ UnderWay(i, l)
        /\ Contains(kept[Video], i, l)
        /\ "discontinuity" \in kept[Video].flags <=> i # lastEnd + 1
        /\ bufUsed = Cardinality(Starts(i, l))
        /\ Headed(kept[Video], i, l)
        /\ WellFormed => Counted(i, l)
  BY <1>3 DEF Intact
<1>5. /\ stream[j] \in Nal /\ stream \in [Ids -> Nal] /\ kept[Video] \in Samples /\ r \in Samples
      /\ WriteHeader(j, stream[j]) /\ CountUnit(stream[j])
      /\ moved' \in Nat /\ bufUsed \in Nat /\ moved \in Nat
  BY <1>1, VideoPushes, ReceiverAssumption DEF Typed
<1>6. i \in 0 .. j /\ i \in Int
  BY <1>1
<1>7. Contains(r, i, j)
  <2>1. Contains(kept[Video], i, j - 1) /\ bufUsed + 1 \in Nat
    BY <1>1, <1>4, <1>5
  <2> QED
    BY <1>1, <1>5, <1>6, <2>1, GrownContains
<1>8. PICK n \in Nat : n = Cardinality(Starts(i, l)) /\ n = bufUsed
  BY <1>4, <1>5
<1>9. PICK q \in Nat : q = Cardinality(Starts(i, j)) /\ q = n + (IF stream[j].kind = "start" THEN 1 ELSE 0)
  <2>1. i <= (j - 1) + 1 /\ (j - 1) + 1 = j
    BY <1>1, <1>6
  <2>2. Cardinality(Starts(i, j)) =
          Cardinality(Starts(i, j - 1)) + (IF stream[j].kind = "start" THEN 1 ELSE 0)
    BY <1>1, <1>6, <2>1, CountsNext
  <2> QED
    BY <1>1, <1>8, <2>2
<1>10. bufUsed' = IF stream[j].mark THEN 0 ELSE q
  BY <1>5, <1>8, <1>9 DEF WriteHeader
<1>11. HeadedIn(buf', moved', r.data, q)
  <2>1. HeadedIn(buf, moved, kept[Video].data, n)
    BY <1>4, <1>8 DEF Headed
  <2>2. /\ stream[j].kind # "start" => buf' = buf /\ moved' = moved
        /\ stream[j].kind = "start" /\ bufUsed + 1 <= BufSize =>
             moved' = moved /\ buf'[bufUsed + 1] = j /\ \A c \in 1 .. bufUsed : buf'[c] = buf[c]
    BY <1>5, HeaderFacts DEF Typed
  <2>3. PICK c : c = buf'
    OBVIOUS
  <2>4. PICK o \in Nat : o = moved'
    BY <1>5
  <2>5. PICK b : b = buf
    OBVIOUS
  <2>6. PICK m \in Nat : m = moved
    BY <1>5
  <2>7. /\ HeadedIn(b, m, kept[Video].data, n)
        /\ stream[j].kind # "start" => c = b /\ o = m /\ q = n
        /\ stream[j].kind = "start" => q = n + 1
        /\ stream[j].kind = "start" /\ n + 1 <= BufSize =>
             o = m /\ c[n + 1] = j /\ \A k \in 1 .. n : c[k] = b[k]
    BY <1>8, <1>9, <2>1, <2>2, <2>3, <2>4, <2>5, <2>6
  <2>8. HeadedIn(c, o, Grown(kept[Video], stream[j], j, FlagsOf(out'), o, n + 1).data, q)
    BY <1>1, <1>5, <2>7, GrownHeaded
  <2> QED
    BY <1>8, <2>3, <2>4, <2>8
<1>12. "discontinuity" \in r.flags <=> i # lastEnd + 1
  <2>1. "discontinuity" \in r.flags <=> "discontinuity" \in kept[Video].flags
    BY <1>1 DEF Grown
  <2> QED
    BY <1>4, <2>1
<1>13. ASSUME WellFormed
       PROVE  IF stream[j].mark
              THEN HasUnits(Units(naluSizes', r.size), i, j)
              ELSE CountedIn(naluSizes', naluCount', i, j)
  <2>1. Framed(stream)
    BY <1>13 DEF WellFormed, Typed
  <2>2. CountedIn(naluSizes, naluCount, i, j - 1) /\ Begins(i)
    BY <1>1, <1>4, <1>13 DEF Counted, UnderWay
  <2>3. r.size = (j - i + 1) + Cardinality(Starts(i, j))
    BY <1>7 DEF Contains
  <2> QED
    BY <1>5, <1>6, <2>1, <2>2, <2>3, UnitsGoOn
<1> QED
  BY <1>1, <1>4, <1>6, <1>7, <1>9, <1>10, <1>11, <1>12, <1>13 DEF GoesOn

LEMMA UnitsSame ==
  ASSUME stream' = stream, NEW i, NEW l
  PROVE  /\ \A ns, n : CountedIn(ns, n, i, l) /\ naluSizes' = ns /\ naluCount' = n => Counted(i, l)'
         /\ \A u : HasUnits(u, i, l) /\ nalus' = u => HasUnits(nalus, i, l)'
<1>1. \A a, b : Starts(a, b)' = Starts(a, b) /\ Ends(a, b)' = Ends(a, b)
  BY StreamSame
<1>2. \A ns : Measures(ns, i, l) => Measures(ns, i, l)'
  BY <1>1 DEF Measures
<1>3. InUnit(i, l)' <=> InUnit(i, l)
  BY DEF InUnit
<1>4. ASSUME NEW ns, NEW n, CountedIn(ns, n, i, l), naluSizes' = ns, naluCount' = n PROVE Counted(i, l)'
  <2>1. Measures(ns, i, l)'
    BY <1>2, <1>4 DEF CountedIn
  <2> QED
    BY <1>1, <1>3, <1>4, <2>1 DEF CountedIn, Counted
<1>5. ASSUME NEW u, HasUnits(u, i, l), nalus' = u PROVE HasUnits(nalus, i, l)'
  <2>1. Measures(u, i, l)'
    BY <1>2, <1>5 DEF HasUnits
  <2> QED
    BY <1>1, <1>5, <2>1 DEF HasUnits
<1> QED
  BY <1>4, <1>5

LEMMA HeadedSame ==
  ASSUME stream' = stream, NEW i, NEW l, NEW r, HeadedIn(buf', moved', r.data, Cardinality(Starts(i, l)))
  PROVE  /\ kept'[Video] = r => Headed(kept[Video], i, l)'
         /\ taken'.data = r.data => Headed(taken, i, l)'
<1>1. Cardinality(Starts(i, l))' = Cardinality(Starts(i, l))
  BY StreamSame
<1> QED
  BY <1>1 DEF Headed

LEMMA RunEnds ==
  ASSUME NEW j \in Nat, NEW i \in 0 .. j
  PROVE  Head(Run(i, j)) = i /\ SX!Last(Run(i, j)) = j
<1>1. i \in Int /\ j - i + 1 \in Nat \ {0}
  OBVIOUS
<1>2. Run(i, j) \in Seq(Int) /\ Len(Run(i, j)) = j - i + 1 /\ Run(i, j) # <<>>
  BY <1>1 DEF Run
<1>3. 1 \in 1 .. j - i + 1 /\ j - i + 1 \in 1 .. j - i + 1
  BY <1>1
<1>4. Run(i, j)[1] = i + 1 - 1 /\ Run(i, j)[j - i + 1] = i + (j - i + 1) - 1
  BY <1>3 DEF Run
<1>5. Run(i, j)[1] = i /\ Run(i, j)[j - i + 1] = j
  BY <1>1, <1>4
<1>6. Head(Run(i, j)) = Run(i, j)[1]
  BY <1>2
<1> QED
  BY <1>2, <1>5, <1>6 DEF SX!Last

(* What packet j hands over when nothing is missing. *)
HandsOn(j) ==
  /\ taken' = NoSample => ~stream[j].mark
  /\ taken' # NoSample =>
       \E i \in Ids :
         /\ Frame(i, j)' /\ i > lastEnd
         /\ "discontinuity" \in taken'.flags <=> i # lastEnd + 1

LEMMA IntactStep ==
  ASSUME Typed, NEW j \in Ids, VideoPacket(j), NEW l \in -1 .. Sent - 1, Stands(l),
         NEW r, r = Grown(kept[Video], stream[j], j, FlagsOf(out'), moved', bufUsed + 1),
         "frag_lost" \notin r.flags
  PROVE  Stands(j)' /\ HandsOn(j)
<1>1. PICK i : GoesOn(i, j, r)
  BY IntactGrows
<1>2. /\ j \in Nat /\ j \in -1 .. Sent - 1 /\ i \in 0 .. j /\ i \in Int /\ i \in Ids
      /\ LastDelivered(Video)' = j /\ lastEnd \in Int /\ lastEnd >= -1 /\ lastEnd <= j
      /\ stream' = stream
  <2>1. l < j /\ j \in 0 .. Sent - 1 /\ LastDelivered(Video)' = j
    BY VideoFlags, NetworkAssumption
  <2>2. i \in 0 .. j
    BY <1>1 DEF GoesOn
  <2>3. lastEnd \in -1 .. l
    BY DEF Stands
  <2> QED
    BY <2>1, <2>2, <2>3, NetworkAssumption DEF VideoPacket
<1>3. /\ Begins(i) /\ lastEnd < i /\ \A k \in i .. j - 1 : ~stream[k].mark
      /\ Contains(r, i, j)
      /\ "discontinuity" \in r.flags <=> i # lastEnd + 1
  BY <1>1 DEF GoesOn, UnderWay
<1>4. /\ kept \in [Tracks -> Samples] /\ Video \in Tracks /\ naluSizes' \in Seq(Nat) /\ CountUnit(stream[j])
      /\ \/ ~stream[j].mark /\ kept' = [kept EXCEPT ![Video] = r] /\ taken' = NoSample
         \/ /\ stream[j].mark
            /\ kept' = [kept EXCEPT ![Video] = NoSample]
            /\ taken' = [r EXCEPT !.flags = Low(r.flags)]
      /\ r \in Samples
  <2>1. l \in Int
    BY NetworkAssumption
  <2>2. /\ Video \in Tracks /\ naluSizes' \in Seq(Nat) /\ CountUnit(stream[j])
        /\ \/ ~stream[j].mark /\ kept' = [kept EXCEPT ![Video] = r] /\ taken' = NoSample
           \/ /\ stream[j].mark
              /\ kept' = [kept EXCEPT ![Video] = NoSample]
              /\ taken' = [r EXCEPT !.flags = Low(r.flags)]
        /\ r \in Samples
    BY <2>1, VideoPushes
  <2> QED
    BY <2>2 DEF Typed
<1>5. CASE ~stream[j].mark
  <2>1. kept'[Video] = r /\ taken' = NoSample
    BY <1>4, <1>5
  <2>2. lastEnd' = lastEnd
    BY <2>1 DEF VideoPacket
  <2>3. Begins(i)'
    BY <1>2, <1>3, StreamSame
  <2>4. UnderWay(i, j)'
    <3>1. \A k \in i .. j : k \in i .. j - 1 \/ k = j
      BY <1>2
    <3>2. i \in 0 .. j + 1
      BY <1>2
    <3> QED
      BY <1>2, <1>3, <1>5, <2>2, <2>3, <3>1, <3>2 DEF UnderWay
  <2>5. Contains(kept[Video], i, j)'
    BY <1>2, <1>3, <2>1, ContainsSame
  <2>6. "discontinuity" \in kept'[Video].flags <=> i # lastEnd' + 1
    BY <1>3, <2>1, <2>2
  <2>7. bufUsed' = Cardinality(Starts(i, j))'
    <3>1. bufUsed' = Cardinality(Starts(i, j))
      BY <1>1, <1>5 DEF GoesOn
    <3> QED
      BY <1>2, <3>1, StreamSame
  <2>8. Headed(kept[Video], i, j)'
    BY <1>1, <1>2, <2>1, HeadedSame DEF GoesOn
  <2>9. (WellFormed => Counted(i, j))'
    <3> SUFFICES ASSUME WellFormed PROVE Counted(i, j)'
      BY DEF WellFormed, Framed
    <3>1. CountedIn(naluSizes', naluCount', i, j)
      BY <1>1, <1>5 DEF GoesOn
    <3> QED
      BY <1>2, <3>1, UnitsSame
  <2>10. Intact(j)'
    BY <1>2, <2>4, <2>5, <2>6, <2>7, <2>8, <2>9 DEF Intact, UnderWay
  <2>11. Stands(j)'
    <3>1. lastEnd' \in -1 .. j
      BY <1>2, <2>2
    <3> QED
      BY <1>2, <2>1, <2>10, <3>1 DEF Stands
  <2> QED
    BY <1>5, <2>1, <2>11 DEF HandsOn
<1>6. CASE stream[j].mark
  <2>1. kept'[Video] = NoSample /\ taken' = [r EXCEPT !.flags = Low(r.flags)]
    BY <1>4, <1>6
  <2>2. taken'.data = r.data /\ taken'.size = r.size /\ taken'.flags = Low(r.flags)
    BY <1>4, <2>1 DEF Samples
  <2>3. taken' # NoSample
    <3>1. r.size = (j - i + 1) + Cardinality(Starts(i, j)) /\ Cardinality(Starts(i, j)) \in Nat
      BY <1>2, <1>3, CountsAre DEF Contains
    <3>2. r.size # 0
      BY <1>2, <3>1
    <3> QED
      BY <2>2, <3>2, NoSampleFacts
  <2>4. Contains(taken, i, j)'
    <3>1. PICK s : s = taken'
      OBVIOUS
    <3>2. s.data = r.data /\ s.size = r.size /\ ("sync" \in s.flags <=> "sync" \in r.flags)
      BY <2>2, <3>1 DEF Low
    <3>3. Contains(s, i, j)
      BY <1>3, <3>2, ContainsAlike
    <3> QED
      BY <1>2, <3>1, <3>3, ContainsSame
  <2>5. lastEnd' = j
    <3>1. PacketsOf(taken)' = Run(i, j)
      BY <2>4 DEF Contains, Run
    <3> QED
      BY <1>2, <2>3, <3>1, RunEnds DEF VideoPacket
  <2>6. IsFrame(i, j)'
    <3>1. IsFrame(i, j)
      BY <1>2, <1>3, <1>6 DEF IsFrame, Begins
    <3> QED
      BY <1>2, <3>1, StreamSame
  <2>7. Headed(taken, i, j)'
    BY <1>1, <1>2, <2>2, HeadedSame DEF GoesOn
  <2>8. (WellFormed => HasUnits(nalus, i, j))'
    <3> SUFFICES ASSUME WellFormed PROVE HasUnits(nalus, i, j)'
      BY DEF WellFormed, Framed
    <3>1. HasUnits(Units(naluSizes', r.size), i, j)
      BY <1>1, <1>6 DEF GoesOn
    <3>2. nalus' = Units(naluSizes', taken'.size)
      BY <2>3 DEF VideoPacket, PushH264
    <3> QED
      BY <1>2, <2>2, <3>1, <3>2, UnitsSame
  <2>9. Frame(i, j)'
    BY <2>4, <2>6, <2>7, <2>8 DEF Frame
  <2>10. "discontinuity" \in taken'.flags <=> i # lastEnd + 1
    BY <1>3, <2>2 DEF Low
  <2>11. Intact(j)'
    <3>1. "discontinuity" \notin kept'[Video].flags /\ "sync" \notin kept'[Video].flags
      BY <2>1, NoSampleFacts
    <3>2. bufUsed' = 0 /\ naluCount' = 0
      BY <1>1, <1>4, <1>6 DEF GoesOn, CountUnit
    <3>3. Begins(j + 1)
      <4>1. (j + 1) - 1 = j
        BY <1>2
      <4> QED
        BY <1>6, <4>1 DEF Begins
    <3>4. Emptied(j)
      BY <1>2, <1>4, <2>1, <2>5, <3>1, <3>2, <3>3, NoSampleFacts DEF Emptied
    <3> QED
      BY <1>2, <3>4, EmptiedIntact
  <2>12. Stands(j)'
    <3>1. "frag_lost" \notin kept'[Video].flags
      BY <2>1, NoSampleFacts
    <3> QED
      BY <1>2, <2>5, <2>11, <3>1 DEF Stands
  <2> QED
    BY <1>2, <1>3, <2>3, <2>9, <2>10, <2>12 DEF HandsOn
<1> QED
  BY <1>5, <1>6

(* What is known after packet j: a frame that ends with it is kept back     *)
(* only for a gap, and one handed over is flagged for one.                  *)
Yields(j) ==
  /\ taken' = NoSample /\ stream[j].mark => Gap(j)
  /\ taken' # NoSample =>
       \E i \in Ids :
         /\ Frame(i, j)' /\ i > lastEnd
         /\ "discontinuity" \in taken'.flags <=> i # lastEnd + 1

LEMMA VideoStep ==
  ASSUME NetOK, Typed, NEW j \in Ids, VideoPacket(j), NEW l \in -1 .. Sent - 1, Stands(l)
  PROVE  Typed' /\ Stands(j)' /\ HandedOver' /\ Yields(j)
<1>1. PICK r : r = Grown(kept[Video], stream[j], j, FlagsOf(out'), moved', bufUsed + 1)
  OBVIOUS
<1>2. Typed'
  <2>1. l \in Int
    BY NetworkAssumption
  <2> QED
    BY <2>1, VideoTyped
<1>3. Stands(j)' /\ Yields(j)
  <2>1. CASE "frag_lost" \in r.flags
    BY <1>1, <2>1, BrokenStep DEF Yields
  <2>2. CASE "frag_lost" \notin r.flags
    BY <1>1, <2>2, IntactStep DEF Yields, HandsOn
  <2> QED
    BY <2>1, <2>2
<1>4. HandedOver'
  <2> SUFFICES ASSUME HandsFrame' PROVE (\E i, m \in Ids : Frame(i, m))'
    BY DEF HandedOver
  <2>1. taken' # NoSample
    BY DEF HandsFrame
  <2>2. \E i \in Ids : Frame(i, j)'
    BY <1>3, <2>1 DEF Yields
  <2> QED
    BY <2>2
<1> QED
  BY <1>2, <1>3, <1>4

----------------------------------------------------------------------------
(* A step that leaves the parser of Video alone. *)
Untouched ==
  /\ kept' \in [Tracks -> Samples] /\ kept'[Video] = kept[Video]
  /\ UNCHANGED <<h264Vars, stream, parsers, lastEnd>>
  /\ LastDelivered(Video)' = LastDelivered(Video)
  /\ lost[Video] \subseteq lost'[Video]

LEMMA UntouchedStands ==
  ASSUME Typed, Untouched, NEW l \in -1 .. Sent - 1, Stands(l)
  PROVE  Typed' /\ Stands(l)'
<1>1. /\ kept'[Video] = kept[Video] /\ stream' = stream /\ lastEnd' = lastEnd
      /\ buf' = buf /\ moved' = moved /\ bufUsed' = bufUsed
      /\ naluSizes' = naluSizes /\ naluCount' = naluCount
      /\ kept' \in [Tracks -> Samples] /\ parsers' = parsers
  BY DEF Untouched, h264Vars
<1>2. Typed'
  BY <1>1 DEF Typed
<1>3. ASSUME Broken(l) PROVE Broken(l)'
  <2>1. PICK x \in lost[Video] : x <= l /\ \A k \in x + 1 .. l : ~stream[k].mark
    BY <1>3 DEF Broken
  <2>2. x \in lost'[Video] /\ x <= l /\ \A k \in x + 1 .. l : ~stream'[k].mark
    BY <1>1, <2>1 DEF Untouched
  <2> QED
    BY <1>1, <1>3, <2>2 DEF Broken
<1>4. ASSUME Intact(l) PROVE Intact(l)'
  <2>1. PICK i \in 0 .. l + 1 :
          /\ UnderWay(i, l)
          /\ Contains(kept[Video], i, l)
          /\ "discontinuity" \in kept[Video].flags <=> i # lastEnd + 1
          /\ bufUsed = Cardinality(Starts(i, l))
          /\ Headed(kept[Video], i, l)
          /\ WellFormed => Counted(i, l)
    BY <1>4 DEF Intact
  <2>2. UnderWay(i, l)'
    BY <1>1, <2>1, StreamSame DEF UnderWay
  <2>3. Contains(kept[Video], i, l)'
    BY <1>1, <2>1, ContainsSame
  <2>4. bufUsed' = Cardinality(Starts(i, l))'
    BY <1>1, <2>1, StreamSame
  <2>5. Headed(kept[Video], i, l)'
    <3>1. HeadedIn(buf', moved', kept[Video].data, Cardinality(Starts(i, l)))
      BY <1>1, <2>1 DEF Headed
    <3> QED
      BY <1>1, <3>1, HeadedSame
  <2>6. (WellFormed => Counted(i, l))'
    <3> SUFFICES ASSUME WellFormed PROVE Counted(i, l)'
      BY DEF WellFormed, Framed
    <3>1. CountedIn(naluSizes', naluCount', i, l)
      BY <1>1, <2>1 DEF Counted
    <3> QED
      BY <1>1, <3>1, UnitsSame
  <2> QED
    BY <1>1, <2>1, <2>2, <2>3, <2>4, <2>5, <2>6 DEF Intact
<1> QED
  BY <1>1, <1>2, <1>3, <1>4 DEF Stands, Untouched

(* A packet of another track with a parser. *)
LEMMA OtherPushed ==
  ASSUME Typed, NEW t \in Tracks, t # Video, NEW i, PushMpeg4(t, i, FlagsOf(out'))
  PROVE  kept' \in [Tracks -> Samples] /\ kept'[Video] = kept[Video] /\ UNCHANGED h264Vars
<1>1. "multiple" \notin FlagsOf(out') /\ "fragment" \notin FlagsOf(out')
  BY DEF FlagsOf
<1>2. Push(t, <<Payload(i)>>, 1, FlagsOf(out')) /\ UNCHANGED h264Vars
  BY DEF PushMpeg4
<1>3. \E s : HandOver(t, s)
  BY <1>1, <1>2 DEF Push
<1>4. kept' = [kept EXCEPT ![t] = NoSample] /\ kept \in [Tracks -> Samples] /\ Video \in Tracks
  BY <1>3, ReceiverAssumption DEF HandOver, Typed
<1> QED
  BY <1>2, <1>4, NoSampleFacts

(* A call of get_sample brings the parser of Video a packet, or leaves it   *)
(* alone.                                                                   *)
LEMMA CallStep ==
  ASSUME NetOK, Typed, Forwarded, lost' = lost, Silent \/ \E t \in Tracks, i \in Ids : Brings(t, i),
         NEW l \in -1 .. Sent - 1, Stands(l)
  PROVE  /\ Typed' /\ HandedOver' /\ \E m \in -1 .. Sent - 1 : Stands(m)'
         /\ out'.pkt # Hole /\ out'.pkt.track = Video =>
              \E j \in Ids : j = out'.pkt.id /\ Yields(j)
<1>1. /\ Parse(out') /\ stream' = stream /\ parsers' = parsers
      /\ lastEnd' = IF taken' # NoSample /\ out'.pkt.track = Video
                    THEN SX!Last(PacketsOf(taken')) ELSE lastEnd
      /\ Video \in parsers /\ Video \in Tracks /\ kept \in [Tracks -> Samples]
  BY ReceiverAssumption DEF Forwarded, Typed
<1>2. ASSUME out'.pkt = Hole \/ out'.pkt.track # Video, LastDelivered(Video)' = LastDelivered(Video),
             out'.pkt = Hole \/ out'.pkt.track \in Tracks
      PROVE  /\ Typed' /\ HandedOver' /\ \E m \in -1 .. Sent - 1 : Stands(m)'
  <2>1. /\ kept' \in [Tracks -> Samples] /\ kept'[Video] = kept[Video] /\ UNCHANGED h264Vars
        /\ out'.pkt = Hole => taken' = NoSample
    <3>1. CASE ~HasParser(out')
      BY <1>1, <3>1 DEF Parse
    <3>2. CASE HasParser(out')
      <4>1. out'.pkt # Hole /\ out'.pkt.track # Video /\ out'.pkt.track \in Tracks
        BY <1>2, <3>2 DEF HasParser
      <4>2. PushMpeg4(out'.pkt.track, out'.pkt.id, FlagsOf(out'))
        BY <1>1, <3>2, <4>1 DEF Parse
      <4> QED
        BY <4>1, <4>2, OtherPushed
    <3> QED
      BY <3>1, <3>2
  <2>2. lastEnd' = lastEnd
    BY <1>1, <1>2, <2>1
  <2>3. Untouched
    BY <1>1, <1>2, <2>1, <2>2 DEF Untouched
  <2>4. HandedOver'
    BY <1>2 DEF HandedOver, HandsFrame
  <2> QED
    BY <2>3, <2>4, UntouchedStands
<1>3. CASE Silent
  BY <1>1, <1>2, <1>3 DEF Silent
<1>4. ASSUME NEW t \in Tracks, NEW i \in Ids, Brings(t, i), t # Video
      PROVE  /\ Typed' /\ HandedOver' /\ \E m \in -1 .. Sent - 1 : Stands(m)'
             /\ out'.pkt.track # Video
  BY <1>1, <1>2, <1>4 DEF Brings
<1>5. ASSUME NEW i \in Ids, Brings(Video, i)
      PROVE  /\ Typed' /\ HandedOver' /\ \E m \in -1 .. Sent - 1 : Stands(m)'
             /\ out'.pkt.id = i /\ Yields(i)
  <2>1. out'.pkt # Hole /\ out'.pkt.track = Video /\ out'.pkt.id = i
    BY <1>5 DEF Brings
  <2>2. PushH264(i, stream[i], FlagsOf(out'))
    BY <1>1, <2>1 DEF Parse, HasParser
  <2>3. VideoPacket(i)
    BY <1>1, <1>5, <2>1, <2>2 DEF VideoPacket
  <2>4. i \in -1 .. Sent - 1
    BY NetworkAssumption
  <2> QED
    BY <2>1, <2>3, <2>4, VideoStep
<1> QED
  BY <1>3, <1>4, <1>5 DEF Silent

----------------------------------------------------------------------------
(* A seek between frames finds the parsers empty already. *)
LEMMA SeekStep ==
  ASSUME Steady, CInv, Typed, ReceiverSeek, ~cut', NEW l \in -1 .. Sent - 1, Stands(l)
  PROVE  CInv' /\ Typed' /\ HandedOver' /\ Stands(l)'
<1>1. /\ BeforeSeek /\ H264BeforeSeek /\ taken' = NoSample
      /\ lost' = [t \in Tracks |-> lost[t] \union HeldIds(t)]
      /\ UNCHANGED <<net, dups, delivered>> /\ stream' = stream /\ parsers' = parsers /\ lastEnd' = lastEnd
      /\ \A t \in Tracks : kept[t].data = <<>>
  BY DEF ReceiverSeek
<1>2. CInv'
  BY <1>1, SeekCInv
<1>3. kept' = kept /\ kept \in [Tracks -> Samples] /\ Video \in Tracks
  <2>1. kept \in [Tracks -> Samples]
    BY DEF Typed
  <2>2. \A t \in Tracks : [kept[t] EXCEPT !.data = <<>>] = kept[t]
    BY <1>1, <2>1 DEF Samples
  <2>3. kept' = [t \in Tracks |-> [kept[t] EXCEPT !.data = <<>>]]
    BY <1>1, <2>1 DEF H264BeforeSeek, ParserBeforeSeek
  <2>4. kept' = [t \in Tracks |-> kept[t]]
    BY <2>2, <2>3
  <2> QED
    BY <2>1, <2>4, ReceiverAssumption
<1>4. buf' = buf /\ moved' = moved /\ naluSizes' = naluSizes /\ bufUsed' = 0 /\ naluCount' = 0
  BY <1>1 DEF H264BeforeSeek
<1>5. Typed'
  BY <1>1, <1>3, <1>4 DEF Typed
<1>6. HandedOver'
  BY <1>1 DEF HandedOver, HandsFrame
<1>7. LastDelivered(Video)' = l /\ lastEnd \in -1 .. l /\ l \in Int
  <2>1. LastDelivered(Video)' = LastDelivered(Video)
    BY <1>1 DEF LastDelivered
  <2> QED
    BY <2>1, NetworkAssumption DEF Stands
<1>8. CASE "frag_lost" \in kept[Video].flags
  <2>1. Broken(l)
    BY <1>8 DEF Stands
  <2>2. lost[Video] \subseteq lost'[Video]
    BY <1>1, <1>3
  <2>3. Broken(l)'
    <3>1. PICK x \in lost[Video] : x <= l /\ \A k \in x + 1 .. l : ~stream[k].mark
      BY <2>1 DEF Broken
    <3>2. x \in lost'[Video] /\ x <= l /\ \A k \in x + 1 .. l : ~stream'[k].mark
      BY <1>1, <2>2, <3>1
    <3> QED
      BY <1>3, <2>1, <3>2 DEF Broken
  <2> QED
    BY <1>1, <1>2, <1>3, <1>5, <1>6, <1>7, <1>8, <2>3 DEF Stands
<1>9. CASE "frag_lost" \notin kept[Video].flags
  <2>1. Intact(l)
    BY <1>9 DEF Stands
  <2>2. PICK i \in 0 .. l + 1 :
          /\ UnderWay(i, l) /\ Contains(kept[Video], i, l)
          /\ "discontinuity" \in kept[Video].flags <=> i # lastEnd + 1
    BY <2>1 DEF Intact
  <2>3. kept[Video].size = 0
    <3>1. Len(<<>>) = 0
      OBVIOUS
    <3> QED
      BY <1>1, <1>3, <2>2, <3>1 DEF Contains
  <2>4. i = l + 1
    <3>1. i \in Int /\ i <= l + 1
      BY <1>7, <2>2
    <3>2. PICK n \in Nat : n = Cardinality(Starts(i, l))
      BY <1>7, <3>1, CountsAre
    <3>3. (l - i + 1) + n = 0
      BY <2>2, <2>3, <3>2 DEF Contains
    <3> QED
      BY <1>7, <3>1, <3>2, <3>3
  <2>5. Emptied(l)
    <3>1. "sync" \notin kept[Video].flags
      <4>1. i .. l = {}
        BY <1>7, <2>4
      <4> QED
        BY <2>2, <4>1 DEF Contains
    <3>2. "discontinuity" \in kept[Video].flags <=> lastEnd # l
      <4>1. i # lastEnd + 1 <=> lastEnd # l
        BY <1>7, <2>4
      <4> QED
        BY <2>2, <4>1
    <3>3. Begins(l + 1) /\ naluSizes' \in Seq(Nat)
      BY <1>4, <2>2, <2>4 DEF UnderWay, Typed
    <3> QED
      BY <1>1, <1>3, <1>4, <1>7, <2>3, <3>1, <3>2, <3>3 DEF Emptied
  <2>6. Intact(l)'
    BY <1>1, <2>5, EmptiedIntact
  <2> QED
    BY <1>1, <1>2, <1>3, <1>5, <1>6, <1>7, <1>9, <2>6 DEF Stands
<1> QED
  BY <1>2, <1>5, <1>6, <1>8, <1>9

----------------------------------------------------------------------------
(* RInv holds at the start, and every step keeps it. *)
LEMMA InitRInv == Steady /\ ReceiverInit => RInv
<1> SUFFICES ASSUME Steady, ReceiverInit PROVE RInv
  OBVIOUS
<1>1. /\ CInv /\ cut = FALSE /\ lastEnd = -1 /\ stream \in Streams /\ parsers \in Parsed
      /\ Video \in Tracks /\ BufSize \in Nat \ {0} /\ Sent \in Nat
      /\ kept = [t \in Tracks |-> NoSample] /\ taken = NoSample
      /\ moved = 0 /\ bufUsed = 0 /\ naluCount = 0
  BY InitCInv, ReceiverAssumption, H264Assumption, NetworkAssumption DEF ReceiverInit, H264Init, ParserInit
<1>2. /\ buf \in Seq(Ids \union {NoHeader}) /\ Len(buf) >= BufSize
      /\ naluSizes \in Seq(Nat) /\ naluSizes # <<>>
  <2>1. buf = [k \in 1 .. BufSize |-> NoHeader] /\ naluSizes = [k \in 1 .. BufSize |-> 0]
    BY DEF ReceiverInit, H264Init
  <2>2. buf \in Seq(Ids \union {NoHeader}) /\ Len(buf) = BufSize
    BY <1>1, <2>1
  <2>3. naluSizes \in Seq(Nat) /\ Len(naluSizes) = BufSize
    BY <1>1, <2>1
  <2> QED
    BY <1>1, <2>2, <2>3
<1>3. Typed
  BY <1>1, <1>2, NoSampleFacts DEF Typed
<1>4. HandedOver
  BY <1>1 DEF HandedOver, HandsFrame
<1>5. LastDelivered(Video) = -1
  <2>1. delivered[Video] = {}
    BY <1>1 DEF ReceiverInit, ReorderInit
  <2>2. LastDelivered(Video) = Max({-1})
    BY <2>1 DEF LastDelivered
  <2>3. Max({-1}) = -1
    BY GreatestIs
  <2> QED
    BY <2>2, <2>3
<1>6. kept[Video].data = <<>> /\ kept[Video].size = 0 /\ kept[Video].flags = {}
  BY <1>1, NoSampleFacts
<1>7. 0 .. -1 = {} /\ Starts(0, -1) = {} /\ Ends(0, -1) = {} /\ Cardinality({}) = 0
  BY FS_EmptySet DEF Starts, Ends
<1>8. Contains(kept[Video], 0, -1)
  <2>1. PacketsOf(kept[Video]) = <<>>
    BY <1>6, PacketsNone
  <2>2. Run(0, -1) = <<>>
    BY DEF Run
  <2>3. Len(<<>>) = 0 /\ (-1 - 0 + 1) + 0 = 0
    OBVIOUS
  <2>4. Cardinality(Starts(0, -1)) = 0
    BY <1>7
  <2>5. kept[Video].size = (-1 - 0 + 1) + Cardinality(Starts(0, -1))
    BY <1>6, <2>3, <2>4
  <2>6. "sync" \in kept[Video].flags <=> \E k \in 0 .. -1 : Leads(k)
    BY <1>6, <1>7
  <2>7. kept[Video].size = Len(kept[Video].data)
    BY <1>6, <2>3
  <2> QED
    BY <2>1, <2>2, <2>5, <2>6, <2>7 DEF Contains
<1>9. Counted(0, -1)
  <2>1. SumTo(naluSizes, 0) = 0
    <3>1. 0 \in Nat
      OBVIOUS
    <3> QED
      BY <3>1, SumToNext
  <2>2. Measures(naluSizes, 0, -1)
    BY <1>7 DEF Measures
  <2>3. Len(naluSizes) \in Nat
    BY <1>2, LenProperties
  <2>4. Cardinality(Starts(0, -1)) = 0 /\ Cardinality(Ends(0, -1)) = 0 /\ (-1 - 0 + 1) + 0 = 0
    BY <1>7
  <2>5. ~InUnit(0, -1)
    BY DEF InUnit
  <2>6. SumTo(naluSizes, naluCount) = (-1 - 0 + 1) + Cardinality(Starts(0, -1))
    BY <1>1, <2>1, <2>4
  <2>7. naluCount <= Len(naluSizes) /\ 1 .. naluCount = {}
    BY <1>1, <2>3
  <2> QED
    BY <1>1, <2>2, <2>4, <2>5, <2>6, <2>7 DEF Counted, CountedIn
<1>10. Intact(-1)
  <2>1. UnderWay(0, -1)
    BY <1>1, <1>7 DEF UnderWay, Begins
  <2>2. Headed(kept[Video], 0, -1)
    BY <1>6 DEF Headed, HeadedIn
  <2>3. 0 \in 0 .. -1 + 1 /\ 0 = lastEnd + 1 /\ "discontinuity" \notin kept[Video].flags
    BY <1>1, <1>6
  <2> QED
    BY <1>1, <1>7, <1>8, <1>9, <2>1, <2>2, <2>3 DEF Intact
<1>11. Stands(-1) /\ -1 \in -1 .. Sent - 1
  BY <1>1, <1>5, <1>6, <1>10 DEF Stands
<1> QED
  BY <1>1, <1>3, <1>4, <1>11 DEF RInv, Good

(* The steps are calls of get_sample, losses and seeks. *)
LEMMA ReceiverStepCases ==
  ASSUME NetOK, ReceiverNext
  PROVE  \/ Forwarded /\ ReorderNext /\ \E P : Takes(P)
         \/ /\ \E t \in Tracks, i \in Ids : Lose(t, i)
            /\ UNCHANGED <<parserVars, stream, parsers, seeks, cut, lastEnd>>
         \/ ReceiverSeek
<1>1. ASSUME \/ Drain \/ WouldBlock
             \/ \E t \in Tracks, i \in Ids : Arrive(t, i)
      PROVE  ReorderNext /\ \E P : Takes(P)
  BY <1>1, CallsTake DEF ReorderNext
<1> QED
  BY <1>1 DEF ReceiverNext

LEMMA CallGood ==
  ASSUME Steady, Good, Forwarded, ReorderNext, NEW P, Takes(P)
  PROVE  /\ Good' /\ cut' = cut
         /\ out'.pkt # Hole /\ out'.pkt.track = Video =>
              \E j \in Ids : j = out'.pkt.id /\ Yields(j)
<1>1. CInv /\ Typed /\ NetOK /\ cut' = cut
  BY DEF Good, CInv, NInv, Forwarded
<1>2. PICK l \in -1 .. Sent - 1 : Stands(l)
  BY DEF Good
<1>3. CInv' /\ NInv'
  BY <1>1, TakesCInv, SteadyOrderly DEF CInv
<1>4. lost' = lost /\ (Silent \/ \E t \in Tracks, i \in Ids : Brings(t, i))
  BY <1>1, <1>3, CallBrings
<1>5. /\ Typed' /\ HandedOver' /\ \E m \in -1 .. Sent - 1 : Stands(m)'
      /\ out'.pkt # Hole /\ out'.pkt.track = Video =>
              \E j \in Ids : j = out'.pkt.id /\ Yields(j)
  BY <1>1, <1>2, <1>4, CallStep
<1> QED
  BY <1>1, <1>3, <1>5 DEF Good

(* A step in which the parsers and what they handed over stay. *)
LEMMA IdleGood ==
  ASSUME Good, CInv', UNCHANGED <<parserVars, stream, parsers, lastEnd, out, delivered>>,
         lost[Video] \subseteq lost'[Video]
  PROVE  Good'
<1>1. PICK l \in -1 .. Sent - 1 : Stands(l)
  BY DEF Good
<1>2. Typed /\ HandedOver
  BY DEF Good
<1>3. kept' = kept /\ taken' = taken /\ UNCHANGED h264Vars /\ out' = out /\ stream' = stream
  BY DEF parserVars
<1>4. LastDelivered(Video)' = LastDelivered(Video)
  BY DEF LastDelivered
<1>5. Untouched
  BY <1>2, <1>3, <1>4 DEF Untouched, Typed
<1>6. Typed' /\ Stands(l)'
  BY <1>1, <1>2, <1>5, UntouchedStands
<1>7. HandedOver'
  <2> SUFFICES ASSUME HandsFrame' PROVE (\E i, j \in Ids : Frame(i, j))'
    BY DEF HandedOver
  <2>1. HandsFrame
    BY <1>3 DEF HandsFrame
  <2>2. PICK i \in Ids, j \in Ids : Frame(i, j)
    BY <1>2, <2>1 DEF HandedOver
  <2>3. IsFrame(i, j)'
    BY <1>3, <2>2, StreamSame DEF Frame
  <2>4. Contains(taken, i, j)'
    BY <1>3, <2>2, ContainsSame DEF Frame
  <2>5. Headed(taken, i, j)'
    <3>1. HeadedIn(buf', moved', taken.data, Cardinality(Starts(i, j)))
      BY <1>3, <2>2 DEF Frame, Headed, h264Vars
    <3> QED
      BY <1>3, <3>1, HeadedSame
  <2>6. (WellFormed => HasUnits(nalus, i, j))'
    <3> SUFFICES ASSUME WellFormed PROVE HasUnits(nalus, i, j)'
      BY DEF WellFormed, Framed
    <3>1. HasUnits(nalus, i, j) /\ nalus' = nalus
      BY <1>3, <2>2 DEF Frame, h264Vars
    <3> QED
      BY <1>3, <3>1, UnitsSame
  <2>7. Frame(i, j)'
    BY <2>3, <2>4, <2>5, <2>6 DEF Frame
  <2> QED
    BY <2>7
<1> QED
  BY <1>6, <1>7 DEF Good

LEMMA LoseGood ==
  ASSUME Steady, Good, NEW t \in Tracks, NEW i \in Ids, Lose(t, i),
         UNCHANGED <<parserVars, stream, parsers, seeks, cut, lastEnd>>
  PROVE  Good'
<1>1. CInv /\ NetOK
  BY DEF Good, CInv, NInv
<1>2. CInv'
  BY <1>1, LoseCInv, SteadyOrderly
<1>3. out' = out /\ delivered' = delivered /\ lost[Video] \subseteq lost'[Video]
  BY <1>1, ReceiverAssumption DEF Lose, vars, NetOK
<1> QED
  BY <1>2, <1>3, IdleGood

LEMMA StepRInv == Steady /\ RInv /\ [ReceiverNext]_receiverVars => RInv'
<1> SUFFICES ASSUME Steady, RInv, [ReceiverNext]_receiverVars PROVE RInv'
  OBVIOUS
<1>1. CASE UNCHANGED receiverVars
  <2>1. cut' = cut /\ UNCHANGED allVars /\ UNCHANGED <<parserVars, stream, parsers, lastEnd>>
    BY <1>1 DEF receiverVars
  <2>2. ASSUME Good PROVE Good'
    <3>1. CInv'
      BY <2>1, <2>2, StepCInv, SteadyOrderly DEF Good
    <3>2. out' = out /\ delivered' = delivered /\ lost' = lost
      BY <2>1 DEF allVars
    <3> QED
      BY <2>1, <2>2, <3>1, <3>2, IdleGood
  <2> QED
    BY <2>1, <2>2 DEF RInv
<1>2. CASE ReceiverNext /\ cut
  <2>1. cut' = TRUE
    BY <1>2 DEF ReceiverNext, Forwarded, ReceiverSeek
  <2> QED
    BY <2>1 DEF RInv
<1>3. CASE ReceiverNext /\ ~cut
  <2>1. Good /\ NetOK
    BY <1>3 DEF RInv, Good, CInv, NInv
  <2>2. ASSUME Forwarded, ReorderNext, NEW P, Takes(P) PROVE RInv'
    BY <2>1, <2>2, CallGood DEF RInv
  <2>3. ASSUME NEW t \in Tracks, NEW i \in Ids, Lose(t, i),
               UNCHANGED <<parserVars, stream, parsers, seeks, cut, lastEnd>>
        PROVE  RInv'
    BY <2>1, <2>3, LoseGood DEF RInv
  <2>4. CASE ReceiverSeek
    <3>1. cut' \in BOOLEAN
      BY <2>4 DEF ReceiverSeek
    <3>2. ASSUME ~cut' PROVE Good'
      <4>1. PICK l \in -1 .. Sent - 1 : Stands(l)
        BY <2>1 DEF Good
      <4> QED
        BY <2>1, <2>4, <3>2, <4>1, SeekStep DEF Good
    <3> QED
      BY <3>1, <3>2 DEF RInv
  <2> QED
    BY <1>3, <2>1, <2>2, <2>3, <2>4, ReceiverStepCases
<1> QED
  BY <1>1, <1>2, <1>3 DEF RInv

LEMMA ReceiverInvariance == Steady => (ReceiverSpec => [](Steady /\ RInv))
<1> DEFINE I == Steady /\ RInv
<1>1. Steady /\ ReceiverInit => I
  BY InitRInv
<1>2. I /\ [ReceiverNext]_receiverVars => I'
  BY StepRInv DEF Steady, InOrder, First
<1>3. Steady => (ReceiverSpec => []I)
  <2> HIDE DEF I
  <2> QED
    BY <1>1, <1>2, PTL DEF ReceiverSpec
<1> QED
  BY <1>3

(* A packet of Video returned before any seek cut a frame. *)
LEMMA VideoYields ==
  ASSUME Steady, RInv, ReceiverNext, ReturnsVideo, ~cut \/ ~cut'
  PROVE  cut' = cut /\ lost' = lost /\ Typed /\ \E j \in Ids : j = out'.pkt.id /\ Yields(j)
<1>1. out' # out /\ out'.pkt # Hole /\ out'.pkt.track = Video
  BY DEF ReturnsVideo
<1>2. ~ReceiverSeek
  BY <1>1 DEF ReceiverSeek, BeforeSeek, Returns
<1>3. \A t \in Tracks, i \in Ids : ~Lose(t, i)
  BY <1>1 DEF Lose, vars
<1>4. cut' = cut
  BY <1>2, <1>3 DEF ReceiverNext, Forwarded
<1>5. Good /\ NetOK
  BY <1>4 DEF RInv, Good, CInv, NInv
<1>6. PICK P : Forwarded /\ ReorderNext /\ Takes(P)
  BY <1>2, <1>3, <1>5, ReceiverStepCases
<1>7. lost' = lost /\ Typed
  BY <1>5, <1>6 DEF Takes, Good
<1> QED
  BY <1>1, <1>4, <1>5, <1>6, <1>7, CallGood

----------------------------------------------------------------------------
(* What a frame handed over tells. *)
LEMMA FrameFacts ==
  ASSUME NEW i \in Ids, NEW j \in Ids, Frame(i, j)
  PROVE  /\ i \in Nat /\ j \in Nat /\ i <= j /\ PacketsOf(taken) = Run(i, j)
         /\ Head(PacketsOf(taken)) = i /\ SX!Last(PacketsOf(taken)) = j /\ FirstOf(taken) = i
<1>1. i \in Nat /\ j \in Nat /\ i <= j
  BY NetworkAssumption DEF Frame, IsFrame
<1>2. PacketsOf(taken) = Run(i, j)
  BY DEF Frame, Contains
<1> QED
  BY <1>1, <1>2, RunEnds DEF FirstOf

LEMMA FrameThere ==
  ASSUME RInv, HandsFrame, ~cut
  PROVE  Typed /\ \E i, j \in Ids : Frame(i, j)
  BY DEF RInv, Good, HandedOver

(* In a framed stream, an IDR unit in a frame leads with its flag. *)
LEMMA IdrLeads ==
  ASSUME stream \in [Ids -> Nal], Framed(stream), NEW i \in Ids, NEW j \in Ids, IsFrame(i, j),
         NEW h \in i .. j, stream[h].idr
  PROVE  \E k \in i .. j : Leads(k)
<1>1. i \in Nat /\ j \in Nat /\ h \in Nat /\ i <= h /\ h <= j /\ \A k \in i .. j : k \in Ids
  BY NetworkAssumption
<1> DEFINE T == {n \in Nat : i + n <= j /\ stream[i + n].idr => \E k \in i .. j : Leads(k)}
<1>2. 0 \in T
  <2> SUFFICES ASSUME i + 0 <= j, stream[i + 0].idr PROVE \E k \in i .. j : Leads(k)
    OBVIOUS
  <2>1. i + 0 = i /\ i \in i .. j
    BY <1>1
  <2>2. stream[i].kind \in {"single", "start"}
    <3>1. i = 0 \/ stream[i - 1].mark
      BY DEF IsFrame
    <3>2. i # 0 => i - 1 \in Ids
      BY <1>1, NetworkAssumption
    <3>3. i # 0 => stream[i - 1].kind \in {"single", "end"}
      BY <3>1, <3>2 DEF Framed
    <3>4. stream[i].kind \notin {"middle", "end"}
      BY <3>3 DEF Framed
    <3>5. stream[i].kind \in Kinds
      BY DEF Nal
    <3> QED
      BY <3>4, <3>5 DEF Kinds
  <2> QED
    BY <2>1, <2>2 DEF Leads
<1>3. ASSUME NEW n \in Nat, n \in T PROVE n + 1 \in T
  <2> SUFFICES ASSUME i + (n + 1) <= j, stream[i + (n + 1)].idr PROVE \E k \in i .. j : Leads(k)
    OBVIOUS
  <2>1. PICK k \in i .. j : k = i + (n + 1)
    BY <1>1
  <2>2. k - 1 = i + n /\ i + n <= j /\ k \in Ids
    BY <1>1, <2>1
  <2>3. stream[k].kind \in Kinds /\ stream[k].idr
    BY <2>1, <2>2 DEF Nal
  <2>4. CASE stream[k].kind \in {"start", "single"}
    BY <2>3, <2>4 DEF Leads
  <2>5. CASE stream[k].kind \in {"middle", "end"}
    <3>1. stream[k].idr = stream[k - 1].idr
      BY <2>2, <2>5 DEF Framed
    <3>2. stream[i + n].idr
      BY <2>2, <2>3, <3>1
    <3> QED
      BY <1>3, <2>2, <3>2
  <2> QED
    BY <2>3, <2>4, <2>5 DEF Kinds
<1>4. PICK n \in Nat : h = i + n
  <2>1. h - i \in Nat /\ h = i + (h - i)
    BY <1>1
  <2> QED
    BY <2>1
<1>5. n \in T
  <2> HIDE DEF T
  <2>1. \A m \in T : m \in Nat
    BY DEF T
  <2> QED
    BY <1>2, <1>3, SetInduction
<1> QED
  BY <1>1, <1>4, <1>5

(* Behind such a network, whatever is lost, and with seeks between frames,  *)
(* a sample of Video is one frame, all of it and nothing else, in order,    *)
(* with its size and its sync flag (src/RtpParser.cpp:39-69).               *)
THEOREM AlwaysWholeFrames == Steady /\ WellFormed => (ReceiverSpec => []WholeFrames)
<1>1. WellFormed /\ RInv => WholeFrames
  <2> SUFFICES ASSUME WellFormed, RInv, HandsFrame, ~cut
               PROVE  LET ps == PacketsOf(taken)
                          i == Head(ps)
                          j == SX!Last(ps)
                      IN  /\ ps = [k \in 1 .. j - i + 1 |-> i + k - 1]
                          /\ IsFrame(i, j)
                          /\ taken.size = Len(taken.data)
                          /\ "sync" \in taken.flags <=> \E k \in i .. j : stream[k].idr
    BY DEF WholeFrames
  <2>1. Typed
    BY FrameThere
  <2>2. PICK i \in Ids, j \in Ids : Frame(i, j)
    BY FrameThere
  <2>3. PacketsOf(taken) = Run(i, j) /\ Head(PacketsOf(taken)) = i /\ SX!Last(PacketsOf(taken)) = j
    BY <2>2, FrameFacts
  <2>4. IsFrame(i, j) /\ taken.size = Len(taken.data) /\ ("sync" \in taken.flags <=> \E k \in i .. j : Leads(k))
    BY <2>2 DEF Frame, Contains
  <2>5. (\E k \in i .. j : Leads(k)) <=> \E k \in i .. j : stream[k].idr
    <3>1. stream \in [Ids -> Nal] /\ Framed(stream)
      BY <2>1, ReceiverAssumption DEF Typed, WellFormed
    <3>2. (\E k \in i .. j : stream[k].idr) => \E k \in i .. j : Leads(k)
      BY <2>4, <3>1, IdrLeads
    <3> QED
      BY <3>2 DEF Leads
  <2>6. PacketsOf(taken) = [k \in 1 .. j - i + 1 |-> i + k - 1]
    BY <2>3 DEF Run
  <2>7. "sync" \in taken.flags <=> \E k \in i .. j : stream[k].idr
    BY <2>4, <2>5
  <2> QED
    BY <2>3, <2>4, <2>6, <2>7
<1>2. WellFormed /\ [ReceiverNext]_receiverVars => WellFormed'
  BY DEF WellFormed, Framed
<1> QED
  BY <1>1, <1>2, ReceiverInvariance, PTL DEF ReceiverSpec

(* Such frames come in order, one flagged as discontinuous exactly when the *)
(* one before it was not handed over (src/RtpParser.cpp:46, 58, 71).        *)
THEOREM AlwaysGapsFlagged == Steady => (ReceiverSpec => GapsFlagged)
<1> DEFINE A == HandsNewFrame =>
                  /\ FirstOf(taken') > lastEnd
                  /\ "discontinuity" \in taken'.flags <=> FirstOf(taken') # lastEnd + 1
           I == Steady /\ RInv
<1>1. I /\ [ReceiverNext]_receiverVars => [A]_receiverVars
  <2> SUFFICES ASSUME Steady, RInv, ReceiverNext, HandsNewFrame
               PROVE  /\ FirstOf(taken') > lastEnd
                      /\ "discontinuity" \in taken'.flags <=> FirstOf(taken') # lastEnd + 1
    OBVIOUS
  <2>1. ReturnsVideo /\ taken' # NoSample /\ ~cut'
    BY DEF HandsNewFrame, HandsFrame, ReturnsVideo
  <2>2. PICK j \in Ids : Yields(j)
    BY <2>1, VideoYields
  <2>3. PICK i \in Ids : /\ Frame(i, j)' /\ i > lastEnd
                         /\ "discontinuity" \in taken'.flags <=> i # lastEnd + 1
    BY <2>1, <2>2 DEF Yields
  <2>4. FirstOf(taken') = i
    <3>1. PICK s : s = taken'
      OBVIOUS
    <3>2. PacketsOf(s) = Run(i, j)
      BY <2>3, <3>1 DEF Frame, Contains, PacketsOf, Run
    <3>3. i <= j /\ j \in Nat /\ i \in 0 .. j
      BY <2>3, NetworkAssumption DEF Frame, IsFrame
    <3> QED
      BY <3>1, <3>2, <3>3, RunEnds DEF FirstOf
  <2> QED
    BY <2>3, <2>4
<1>2. Steady => (ReceiverSpec => [][A]_receiverVars)
  <2>1. Steady => (ReceiverSpec => []I)
    BY ReceiverInvariance
  <2> HIDE DEF I, A
  <2> QED
    BY <1>1, <2>1, PTL DEF ReceiverSpec
<1> QED
  BY <1>2 DEF GapsFlagged

(* A frame whose last packet comes is kept back only for a packet lost of   *)
(* it, or the one before it (src/RtpParser.cpp:46-49).                      *)
THEOREM AlwaysOnlyBrokenDropped == Steady => (ReceiverSpec => OnlyBrokenFramesDropped)
<1> DEFINE A == ReturnsVideo /\ ~cut =>
                  LET j == out'.pkt.id
                      i == Min({k \in 0 .. j : IsFrame(k, j)} \union {Sent})
                  IN  stream[j].mark /\ taken' = NoSample =>
                        (i - 1 .. j) \intersect lost[Video] # {}
           I == Steady /\ RInv
<1>1. I /\ [ReceiverNext]_receiverVars => [A]_receiverVars
  <2> SUFFICES ASSUME Steady, RInv, ReceiverNext, ReturnsVideo, ~cut,
                      NEW j, j = out'.pkt.id, stream[j].mark, taken' = NoSample
               PROVE  (Min({k \in 0 .. j : IsFrame(k, j)} \union {Sent}) - 1 .. j)
                        \intersect lost[Video] # {}
    OBVIOUS
  <2>1. j \in Ids /\ Yields(j) /\ lost' = lost
    BY VideoYields
  <2>2. PICK x \in lost[Video] : x < j /\ \A k \in x + 1 .. j - 1 : ~stream[k].mark
    BY <2>1 DEF Yields, Gap
  <2>3. x \in Ids
    <3>1. lost[Video] \subseteq Ids
      <4>1. Good
        BY DEF RInv
      <4> QED
        BY <4>1, ReceiverAssumption DEF Good, CInv, NInv, NetOK
    <3> QED
      BY <3>1
  <2>4. x \in Nat /\ j \in Nat /\ Sent \in Nat
    BY <2>1, <2>3, NetworkAssumption
  <2> DEFINE F == {k \in 0 .. x + 1 : \A q \in k .. j - 1 : ~stream[q].mark}
             S == {k \in 0 .. j : IsFrame(k, j)} \union {Sent}
  <2>5. PICK f \in F : \A k \in F : f <= k
    <3>1. x + 1 \in F /\ F \in SUBSET Nat
      BY <2>2, <2>4
    <3> HIDE DEF F
    <3> QED
      BY <3>1, Least
  <2>6. f \in Nat /\ f <= x + 1 /\ f <= j
    BY <2>2, <2>4
  <2>7. f = 0 \/ stream[f - 1].mark
    <3> SUFFICES ASSUME f # 0, ~stream[f - 1].mark PROVE FALSE
      OBVIOUS
    <3>1. f - 1 \in 0 .. x + 1
      BY <2>4, <2>6
    <3>2. \A q \in f - 1 .. j - 1 : q = f - 1 \/ q \in f .. j - 1
      BY <2>4, <2>6
    <3>3. f - 1 \in F
      BY <2>5, <3>1, <3>2
    <3>4. ~(f <= f - 1)
      BY <2>6
    <3> QED
      BY <2>5, <3>3, <3>4
  <2>8. f \in S
    BY <2>5, <2>6, <2>7, <2>4 DEF IsFrame
  <2>9. S \in SUBSET Nat
    BY <2>4
  <2> HIDE DEF F, S
  <2>10. PICK m \in S : \A k \in S : m <= k
    BY <2>8, <2>9, Least
  <2>11. Min(S) = m /\ m \in Nat /\ m <= f
    <3>1. S \in SUBSET Int
      BY <2>9
    <3> QED
      BY <2>8, <2>9, <2>10, <3>1, LeastIs
  <2>12. x \in Min(S) - 1 .. j
    BY <2>2, <2>4, <2>6, <2>11
  <2> QED
    BY <2>2, <2>12 DEF S
<1>2. Steady => (ReceiverSpec => [][A]_receiverVars)
  <2>1. Steady => (ReceiverSpec => []I)
    BY ReceiverInvariance
  <2> HIDE DEF I, A
  <2> QED
    BY <1>1, <2>1, PTL DEF ReceiverSpec
<1> QED
  BY <1>2, PTL DEF OnlyBrokenFramesDropped

(* The rebuilt headers of a frame are those of its units when it is handed  *)
(* over, unless buf_ had to grow for them                                   *)
(* (src/raw/RtpH264Parser.cpp:82-86, 107).                                  *)
THEOREM AlwaysHeadersIntact == Steady => (ReceiverSpec => []HeadersIntact)
<1>1. RInv => HeadersIntact
  <2> SUFFICES ASSUME RInv, HandsFrame, ~cut,
                      Cardinality(Starts(Head(PacketsOf(taken)), SX!Last(PacketsOf(taken)))) <= BufSize,
                      NEW k \in DOMAIN taken.data, taken.data[k].part = "header"
               PROVE  /\ taken.data[k].at = moved
                      /\ buf[taken.data[k].cell] = taken.data[k + 1].of
    BY DEF HeadersIntact
  <2>1. PICK i \in Ids, j \in Ids : Frame(i, j)
    BY FrameThere
  <2>2. Cardinality(Starts(i, j)) <= BufSize
    BY <2>1, FrameFacts
  <2>3. HeadedIn(buf, moved, taken.data, Cardinality(Starts(i, j)))
    BY <2>1 DEF Frame, Headed
  <2> QED
    BY <2>2, <2>3 DEF HeadedIn
<1> QED
  BY <1>1, ReceiverInvariance, PTL

(* The units nalu_ is given are those of the frame, with their sizes, in a  *)
(* framed stream (src/raw/RtpH264Parser.cpp:87-108, 117-122).               *)
THEOREM AlwaysNalusAreUnits == Steady /\ WellFormed => (ReceiverSpec => []NalusAreUnits)
<1>1. WellFormed /\ RInv => NalusAreUnits
  <2> SUFFICES ASSUME WellFormed, RInv, HandsFrame, ~cut PROVE NalusAreUnits
    BY DEF NalusAreUnits
  <2>1. PICK i \in Ids, j \in Ids : Frame(i, j)
    BY FrameThere
  <2>2. FirstOf(taken) = i /\ SX!Last(PacketsOf(taken)) = j /\ i \in Nat /\ j \in Nat
    BY <2>1, FrameFacts
  <2>3. Len(nalus) = Cardinality(Ends(i, j)) /\ Measures(nalus, i, j)
    BY <2>1 DEF Frame, HasUnits
  <2>4. {k \in i .. j : stream[k].kind \in {"end", "single"}} = Ends(i, j)
    BY DEF Ends
  <2>5. ASSUME NEW k \in Ends(i, j)
        PROVE  SumTo(nalus, Cardinality({e \in Ends(i, j) : e <= k}))
                 = (k - i + 1) + Cardinality(Starts(i, k))
    <3>1. k \in Int /\ k <= j
      BY <2>2 DEF Ends
    <3>2. {e \in Ends(i, j) : e <= k} = Ends(i, k)
      BY <2>2, <3>1 DEF Ends
    <3> QED
      BY <2>3, <3>2 DEF Measures
  <2> QED
    BY <2>2, <2>3, <2>4, <2>5 DEF NalusAreUnits
<1>2. WellFormed /\ [ReceiverNext]_receiverVars => WellFormed'
  BY DEF WellFormed, Framed
<1> QED
  BY <1>1, <1>2, ReceiverInvariance, PTL DEF ReceiverSpec
=============================================================================
