------------------------- MODULE RtpTsBufferProofs -------------------------
(***************************************************************************)
(* Proofs about RtpTsBuffer: the reader's iterator is where it says it is, *)
(* packets_ is never indexed out of range, and to its reader the buffer is *)
(* a ByteStream, for any payloads and any order of puts, seeks, reads and  *)
(* samples.                                                                *)
(***************************************************************************)
EXTENDS RtpTsBuffer, SequenceTheorems, FiniteSetTheorems, WellFoundedInduction, TLAPS

(* Induction over the numbers in a set. *)
LEMMA LeastNumber ==
  ASSUME NEW S \in SUBSET Nat, S # {}
  PROVE  \E m \in S : \A k \in S : m <= k
<1>1. PICK R : R = OpToRel(<, Nat)
  OBVIOUS
<1>2. IsWellFoundedOn(R, Nat)
  BY <1>1, NatLessThanWellFounded
<1>3. PICK m \in S : \A k \in S : ~(<<k, m>> \in R)
  BY <1>2, WFMin
<1>4. \A k \in S : ~(k < m)
  BY <1>1, <1>3 DEF OpToRel
<1> QED
  BY <1>4

LEMMA CountUp ==
  ASSUME NEW T, 0 \in T, \A n \in Nat : n \in T => n + 1 \in T
  PROVE  Nat \subseteq T
<1> SUFFICES ASSUME Nat \ T # {} PROVE FALSE
  OBVIOUS
<1>1. PICK m \in Nat \ T : \A k \in Nat \ T : m <= k
  BY LeastNumber
<1>2. m - 1 \in Nat /\ m - 1 \in T
  BY <1>1
<1> QED
  BY <1>1, <1>2

LEMMA LeastIs ==
  ASSUME NEW S \in SUBSET Int, NEW m \in S, \A i \in S : m <= i
  PROVE  Min(S) = m
<1>1. \A x \in S : (\A y \in S : x <= y) => x = m
  OBVIOUS
<1> QED
  BY <1>1 DEF Min

(* A function that does not fall from one place to the next does not fall. *)
LEMMA Rising ==
  ASSUME NEW n \in Nat, NEW c, \A i \in 1 .. n : c[i] \in Int,
         \A i \in 1 .. n - 1 : c[i] <= c[i + 1],
         NEW a \in 1 .. n, NEW b \in a .. n
  PROVE  c[a] <= c[b]
<1> DEFINE T == {m \in Nat : a + m <= n => c[a] <= c[a + m]}
<1>1. 0 \in T
  OBVIOUS
<1>2. ASSUME NEW m \in Nat, m \in T PROVE m + 1 \in T
  <2> SUFFICES ASSUME a + (m + 1) <= n PROVE c[a] <= c[a + (m + 1)]
    OBVIOUS
  <2>1. c[a] <= c[a + m]
    BY <1>2
  <2>2. a + m \in 1 .. n - 1 /\ (a + m) + 1 = a + (m + 1) /\ a + (m + 1) \in 1 .. n
    OBVIOUS
  <2>3. c[a + m] <= c[a + (m + 1)]
    BY <2>2
  <2> QED
    BY <2>1, <2>2, <2>3
<1>3. \A m \in Nat : a + m <= n => c[a] <= c[a + m]
  BY <1>1, <1>2, CountUp
<1>4. b - a \in Nat /\ a + (b - a) = b
  OBVIOUS
<1> QED
  BY <1>3, <1>4

----------------------------------------------------------------------------
(* Total of a sequence of numbers. *)
Sums(f, n, ns) == f = [i \in 0 .. n |-> IF i = 0 THEN 0 ELSE f[i - 1] + ns[i]]

LEMMA SumsAt ==
  ASSUME NEW f, NEW n \in Nat, NEW ns, Sums(f, n, ns)
  PROVE  /\ f[0] = 0
         /\ \A i \in 0 .. n : i # 0 => f[i] = f[i - 1] + ns[i]
<1>1. \A i \in 0 .. n : f[i] = IF i = 0 THEN 0 ELSE f[i - 1] + ns[i]
  BY DEF Sums
<1> QED
  BY <1>1

LEMMA SumsExist ==
  ASSUME NEW n \in Nat, NEW ns
  PROVE  \E f : Sums(f, n, ns)
<1> DEFINE T == {m \in Nat : \E f : Sums(f, m, ns)}
<1>1. 0 \in T
  <2>1. PICK f : f = [i \in 0 .. 0 |-> 0]
    OBVIOUS
  <2>2. f = [i \in 0 .. 0 |-> IF i = 0 THEN 0 ELSE f[i - 1] + ns[i]]
    BY <2>1
  <2> QED
    BY <2>2 DEF Sums
<1>2. ASSUME NEW m \in Nat, m \in T PROVE m + 1 \in T
  <2>1. PICK f : Sums(f, m, ns)
    BY <1>2
  <2>2. PICK g : g = [i \in 0 .. m + 1 |-> IF i = 0 THEN 0 ELSE f[i - 1] + ns[i]]
    OBVIOUS
  <2>3. \A i \in 0 .. m : g[i] = f[i]
    BY <2>1, <2>2, SumsAt
  <2>4. g = [i \in 0 .. m + 1 |-> IF i = 0 THEN 0 ELSE g[i - 1] + ns[i]]
    <3>1. \A i \in 0 .. m + 1 : i # 0 => i - 1 \in 0 .. m
      OBVIOUS
    <3> QED
      BY <2>2, <2>3, <3>1
  <2> QED
    BY <2>4 DEF Sums
<1> QED
  BY <1>1, <1>2, CountUp

LEMMA TotalIs ==
  ASSUME NEW ns \in Seq(Nat)
  PROVE  \E f : Sums(f, Len(ns), ns) /\ Total(ns) = f[Len(ns)]
<1>1. PICK f : f = CHOOSE g : Sums(g, Len(ns), ns)
  OBVIOUS
<1>2. Sums(f, Len(ns), ns)
  BY <1>1, SumsExist, LenProperties
<1>3. Total(ns) = f[Len(ns)]
  BY <1>1 DEF Total, Sums
<1> QED
  BY <1>2, <1>3

(* It is what lies between the ends, for numbers that are the distances *)
(* between points.                                                      *)
LEMMA Telescope ==
  ASSUME NEW ns \in Seq(Nat), NEW c, c[1] \in Int,
         \A i \in 1 .. Len(ns) : c[i + 1] = c[i] + ns[i]
  PROVE  /\ Total(ns) = c[Len(ns) + 1] - c[1]
         /\ \A i \in 1 .. Len(ns) + 1 : c[i] \in Int
<1>1. PICK f : Sums(f, Len(ns), ns) /\ Total(ns) = f[Len(ns)]
  BY TotalIs
<1> DEFINE T == {m \in Nat : m <= Len(ns) => c[m + 1] \in Int /\ f[m] = c[m + 1] - c[1]}
<1>2. 0 \in T
  BY <1>1, SumsAt, LenProperties
<1>3. ASSUME NEW m \in Nat, m \in T PROVE m + 1 \in T
  <2> SUFFICES ASSUME m + 1 <= Len(ns)
               PROVE  c[(m + 1) + 1] \in Int /\ f[m + 1] = c[(m + 1) + 1] - c[1]
    OBVIOUS
  <2>1. c[m + 1] \in Int /\ f[m] = c[m + 1] - c[1]
    BY <1>3
  <2>2. m + 1 \in 1 .. Len(ns) /\ m + 1 \in 0 .. Len(ns) /\ (m + 1) - 1 = m /\ m + 1 # 0
    BY LenProperties
  <2>3. f[m + 1] = f[m] + ns[m + 1]
    <3>1. f[m + 1] = f[(m + 1) - 1] + ns[m + 1]
      BY <1>1, <2>2, SumsAt, LenProperties
    <3> QED
      BY <2>2, <3>1
  <2>4. c[(m + 1) + 1] = c[m + 1] + ns[m + 1] /\ ns[m + 1] \in Nat
    BY <2>2, ElementOfSeq
  <2> QED
    BY <2>1, <2>3, <2>4
<1>4. \A m \in Nat : m <= Len(ns) => c[m + 1] \in Int /\ f[m] = c[m + 1] - c[1]
  BY <1>2, <1>3, CountUp
<1>5. Len(ns) \in Nat /\ \A i \in 1 .. Len(ns) + 1 : i - 1 \in Nat /\ i - 1 <= Len(ns) /\ (i - 1) + 1 = i
  BY LenProperties
<1>6. \A i \in 1 .. Len(ns) + 1 : c[i] \in Int
  <2> TAKE i \in 1 .. Len(ns) + 1
  <2>1. c[(i - 1) + 1] \in Int
    BY <1>4, <1>5
  <2> QED
    BY <1>5, <2>1
<1> QED
  BY <1>1, <1>4, <1>5, <1>6

LEMMA TelescopePart ==
  ASSUME NEW ns \in Seq(Nat), NEW c, c[1] \in Int,
         \A i \in 1 .. Len(ns) : c[i + 1] = c[i] + ns[i],
         NEW a \in 1 .. Len(ns) + 1, NEW b \in a .. Len(ns) + 1
  PROVE  Total(SubSeq(ns, a, b - 1)) = c[b] - c[a]
<1> DEFINE part == SubSeq(ns, a, b - 1)
<1> DEFINE d == [i \in 1 .. Len(part) + 1 |-> c[i + (a - 1)]]
<1>1. Len(ns) \in Nat
  BY LenProperties
<1>2. /\ part \in Seq(Nat) /\ Len(part) = b - a
      /\ \A i \in 1 .. b - a : part[i] = ns[i + (a - 1)]
  <2>1. CASE a = b
    <3>1. part = <<>>
      BY <1>1, <2>1
    <3> HIDE DEF part
    <3> QED
      BY <2>1, <3>1
  <2>2. CASE a # b
    <3>1. a \in 1 .. Len(ns) + 1 /\ b - 1 \in a - 1 .. Len(ns)
      BY <1>1
    <3>2. part \in Seq(Nat) /\ Len(part) = (b - 1) - a + 1
      BY <1>1, <3>1, SubSeqProperties
    <3>3. \A i \in 1 .. (b - 1) - a + 1 : part[i] = ns[a + i - 1]
      BY <1>1, <3>1, SubSeqProperties
    <3>4. (b - 1) - a + 1 = b - a /\ \A i \in 1 .. b - a : a + i - 1 = i + (a - 1)
      BY <1>1
    <3> QED
      BY <3>2, <3>3, <3>4
  <2> QED
    BY <2>1, <2>2
<1>3. \A i \in 1 .. Len(ns) + 1 : c[i] \in Int
  BY Telescope
<1>4. Len(part) = b - a /\ a \in Int /\ b \in Int /\ b - a \in Nat
  BY <1>1, <1>2
<1> HIDE DEF part
<1>5. d[1] = c[a] /\ d[Len(part) + 1] = c[b]
  BY <1>1, <1>4
<1>6. \A i \in 1 .. Len(part) : d[i + 1] = d[i] + part[i]
  <2> TAKE i \in 1 .. Len(part)
  <2>1. i + (a - 1) \in 1 .. Len(ns) /\ (i + 1) + (a - 1) = (i + (a - 1)) + 1
    BY <1>1, <1>4
  <2>2. c[(i + (a - 1)) + 1] = c[i + (a - 1)] + ns[i + (a - 1)]
    BY <2>1
  <2>3. d[i + 1] = c[(i + 1) + (a - 1)] /\ d[i] = c[i + (a - 1)]
    BY <1>4
  <2> QED
    BY <1>2, <1>4, <2>1, <2>2, <2>3
<1> HIDE DEF d
<1>7. Total(part) = d[Len(part) + 1] - d[1]
  BY <1>2, <1>3, <1>5, <1>6, Telescope
<1> QED
  BY <1>5, <1>7 DEF part

----------------------------------------------------------------------------
Buffer == [from : Int, size : Nat]
Fields == {"pos", "end", "index1", "pos1", "index2", "pos2", "buf", "off"}

(* Where the k-th packet begins, and the j-th buffer of a packet: one past  *)
(* the last, where the last one ends.                                       *)
StartOf(k) == IF k <= Len(packets) THEN packets[k][1].from ELSE iter.end
Past(packet) == packet[Len(packet)].from + packet[Len(packet)].size
At(packet, j) == IF j <= Len(packet) THEN packet[j].from ELSE Past(packet)

(* The buffers of a packet follow each other. *)
Linked(packet) ==
  /\ packet \in Seq(Buffer) /\ packet # <<>>
  /\ \A j \in 1 .. Len(packet) : At(packet, j + 1) = packet[j].from + packet[j].size

(* The packets do, from pos to end. *)
Laid ==
  /\ packets \in Seq(Seq(Buffer))
  /\ \A k \in 1 .. Len(packets) : Linked(packets[k]) /\ Past(packets[k]) = StartOf(k + 1)
  /\ iter.pos \in Nat /\ iter.end \in Nat
  /\ StartOf(1) = iter.pos

(* An iterator is at the beginning of a buffer, or at the end. *)
InPlace(it) ==
  /\ DOMAIN it = Fields
  /\ it.pos = iter.pos /\ it.end = iter.end
  /\ it.index1 \in 1 .. Len(packets) + 1
  /\ it.pos1 = StartOf(it.index1)
  /\ it.index1 <= Len(packets) =>
       /\ it.index2 \in 1 .. Len(packets[it.index1])
       /\ it.pos2 = packets[it.index1][it.index2].from
  /\ it.index1 = Len(packets) + 1 => it.index2 = 1 /\ it.pos2 = it.end

(* and buf is that buffer. *)
Holds(it) ==
  it.buf = IF it.index1 <= Len(packets) THEN packets[it.index1][it.index2] ELSE NoBuf

Kept == \A t \in Tracks : offsets[t] = -1 \/ offsets[t] \in iter.pos .. iter.end

TInv ==
  /\ Laid
  /\ InPlace(iter)
  /\ iter.buf \in Buffer
  /\ placed \in BOOLEAN /\ (placed => Holds(iter))
  /\ bufOff \in 0 .. iter.buf.size
  /\ Position \in iter.pos .. iter.end
  /\ offsets \in [Tracks -> Int] /\ Kept
  /\ fault \in {"none", "assert"}


(* How a packet is laid out. *)
LEMMA PacketParts ==
  ASSUME NEW packet, Linked(packet)
  PROVE  /\ Len(packet) \in Nat \ {0}
         /\ \A j \in 1 .. Len(packet) + 1 : At(packet, j) \in Int
         /\ \A i \in 1 .. Len(packet) + 1 : \A j \in i .. Len(packet) + 1 :
              /\ At(packet, i) <= At(packet, j)
              /\ Total(SubSeq(Sizes(packet), i, j - 1)) = At(packet, j) - At(packet, i)
         /\ Size(packet) = Past(packet) - packet[1].from
         /\ Size(packet) \in Nat
<1> DEFINE ns == Sizes(packet)
<1> DEFINE c == [j \in 1 .. Len(packet) + 1 |-> At(packet, j)]
<1>1. packet \in Seq(Buffer) /\ Len(packet) \in Nat \ {0} /\ DOMAIN packet = 1 .. Len(packet)
  BY LenProperties, EmptySeq DEF Linked
<1>2. \A j \in 1 .. Len(packet) : packet[j] \in Buffer /\ packet[j].from \in Int /\ packet[j].size \in Nat
  <2>1. \A j \in 1 .. Len(packet) : packet[j] \in Buffer
    BY <1>1, ElementOfSeq
  <2> QED
    BY <2>1 DEF Buffer
<1>3. \A j \in 1 .. Len(packet) + 1 : At(packet, j) \in Int
  BY <1>1, <1>2 DEF At, Past
<1>4. ns \in Seq(Nat) /\ Len(ns) = Len(packet) /\ \A j \in 1 .. Len(packet) : ns[j] = packet[j].size
  BY <1>1, <1>2 DEF Sizes
<1>5. c[1] \in Int /\ \A i \in 1 .. Len(ns) : c[i + 1] = c[i] + ns[i]
  <2>1. c[1] \in Int
    BY <1>1, <1>3
  <2>2. ASSUME NEW i \in 1 .. Len(ns) PROVE c[i + 1] = c[i] + ns[i]
    <3>1. i \in 1 .. Len(packet) /\ i \in 1 .. Len(packet) + 1 /\ i + 1 \in 1 .. Len(packet) + 1
      BY <1>1, <1>4
    <3>2. At(packet, i + 1) = At(packet, i) + packet[i].size
      BY <3>1 DEF Linked, At
    <3> QED
      BY <1>4, <3>1, <3>2
  <2> QED
    BY <2>1, <2>2
<1> HIDE DEF ns, c
<1>6. \A i \in 1 .. Len(ns) + 1 : \A j \in i .. Len(ns) + 1 : Total(SubSeq(ns, i, j - 1)) = c[j] - c[i]
  BY <1>4, <1>5, TelescopePart
<1>7. Total(ns) = c[Len(ns) + 1] - c[1]
  BY <1>4, <1>5, Telescope
<1>8. \A i \in 1 .. Len(packet) + 1 : c[i] = At(packet, i)
  BY DEF c
<1>9. \A i \in 1 .. Len(packet) + 1 : \A j \in i .. Len(packet) + 1 : c[i] <= c[j]
  <2>1. \A i \in 1 .. Len(packet) : c[i] <= c[i + 1]
    BY <1>1, <1>3, <1>4, <1>5, <1>8
  <2>2. Len(packet) + 1 \in Nat /\ (Len(packet) + 1) - 1 = Len(packet)
    BY <1>1
  <2>3. \A i \in 1 .. Len(packet) + 1 : c[i] \in Int
    BY <1>3, <1>8
  <2> QED
    BY <2>1, <2>2, <2>3, Rising
<1>10. Size(packet) = Past(packet) - packet[1].from
  <2>1. At(packet, 1) = packet[1].from /\ At(packet, Len(packet) + 1) = Past(packet)
    BY <1>1 DEF At
  <2> QED
    BY <1>1, <1>4, <1>7, <1>8, <2>1 DEF Size, ns
<1>11. Size(packet) \in Nat
  <2>1. c[1] <= c[Len(packet) + 1] /\ c[1] \in Int /\ c[Len(packet) + 1] \in Int
    BY <1>1, <1>3, <1>8, <1>9
  <2> QED
    BY <1>4, <1>7, <2>1 DEF Size, ns
<1>12. \A i \in 1 .. Len(packet) + 1 : \A j \in i .. Len(packet) + 1 :
        /\ At(packet, i) <= At(packet, j)
        /\ Total(SubSeq(ns, i, j - 1)) = At(packet, j) - At(packet, i)
  <2> TAKE i \in 1 .. Len(packet) + 1
  <2> TAKE j \in i .. Len(packet) + 1
  <2>1. j \in 1 .. Len(packet) + 1
    BY <1>1
  <2> QED
    BY <1>4, <1>6, <1>8, <1>9, <2>1
<1> QED
  BY <1>1, <1>3, <1>10, <1>11, <1>12 DEF ns

(* How the packets are. *)
PacketSizes == [i \in DOMAIN packets |-> Size(packets[i])]

LEMMA StreamParts ==
  ASSUME Laid
  PROVE  /\ Len(packets) \in Nat /\ DOMAIN packets = 1 .. Len(packets)
         /\ \A k \in 1 .. Len(packets) + 1 : StartOf(k) \in iter.pos .. iter.end
         /\ StartOf(Len(packets) + 1) = iter.end /\ iter.pos <= iter.end
         /\ \A i \in 1 .. Len(packets) + 1 : \A j \in i .. Len(packets) + 1 :
              /\ StartOf(i) <= StartOf(j)
              /\ Total(SubSeq(PacketSizes, i, j - 1)) = StartOf(j) - StartOf(i)
         /\ \A k \in 1 .. Len(packets) : Size(packets[k]) = StartOf(k + 1) - StartOf(k)
         /\ PacketSizes \in Seq(Nat) /\ Len(PacketSizes) = Len(packets)
         /\ Total(PacketSizes) = iter.end - iter.pos
<1> DEFINE ns == PacketSizes
<1> DEFINE c == [k \in 1 .. Len(packets) + 1 |-> StartOf(k)]
<1>1. Len(packets) \in Nat /\ DOMAIN packets = 1 .. Len(packets)
  BY LenProperties DEF Laid
<1>2. \A k \in 1 .. Len(packets) : Size(packets[k]) \in Nat /\ Size(packets[k]) = StartOf(k + 1) - StartOf(k)
  <2> TAKE k \in 1 .. Len(packets)
  <2>1. Linked(packets[k]) /\ Past(packets[k]) = StartOf(k + 1)
    BY DEF Laid
  <2>2. StartOf(k) = packets[k][1].from
    BY <1>1 DEF StartOf
  <2> QED
    BY <2>1, <2>2, PacketParts
<1>3. ns \in Seq(Nat) /\ Len(ns) = Len(packets) /\ \A k \in 1 .. Len(packets) : ns[k] = Size(packets[k])
  BY <1>1, <1>2 DEF PacketSizes
<1>4. c[1] = iter.pos /\ c[Len(ns) + 1] = iter.end /\ iter.pos \in Nat /\ iter.end \in Nat
  BY <1>1, <1>3 DEF Laid, StartOf
<1>5. \A k \in 1 .. Len(packets) + 1 : StartOf(k) \in Int
  <2> TAKE k \in 1 .. Len(packets) + 1
  <2>1. CASE k = Len(packets) + 1
    BY <1>1, <1>4, <2>1 DEF StartOf
  <2>2. CASE k # Len(packets) + 1
    <3>1. k \in 1 .. Len(packets) /\ k <= Len(packets)
      BY <1>1, <2>2
    <3>2. packets[k] \in Seq(Buffer) /\ 1 \in 1 .. Len(packets[k])
      BY <3>1, LenProperties, EmptySeq DEF Laid, Linked
    <3>3. packets[k][1] \in Buffer
      BY <3>2, ElementOfSeq
    <3> QED
      BY <3>1, <3>3 DEF StartOf, Buffer
  <2> QED
    BY <2>1, <2>2
<1>6. \A i \in 1 .. Len(ns) : c[i + 1] = c[i] + ns[i]
  <2> TAKE i \in 1 .. Len(ns)
  <2>1. i \in 1 .. Len(packets) /\ i \in 1 .. Len(packets) + 1 /\ i + 1 \in 1 .. Len(packets) + 1
    BY <1>1, <1>3
  <2>2. StartOf(i) \in Int /\ StartOf(i + 1) \in Int /\ ns[i] = StartOf(i + 1) - StartOf(i)
    BY <1>2, <1>3, <1>5, <2>1
  <2> QED
    BY <2>1, <2>2
<1>7. \A k \in 1 .. Len(packets) + 1 : c[k] = StartOf(k)
  OBVIOUS
<1> HIDE DEF ns, c
<1>8. \A i \in 1 .. Len(ns) + 1 : \A j \in i .. Len(ns) + 1 : Total(SubSeq(ns, i, j - 1)) = c[j] - c[i]
  BY <1>3, <1>4, <1>6, TelescopePart
<1>9. Total(ns) = c[Len(ns) + 1] - c[1]
  BY <1>3, <1>4, <1>6, Telescope
<1>10. \A i \in 1 .. Len(packets) + 1 : \A j \in i .. Len(packets) + 1 : c[i] <= c[j]
  <2>1. ASSUME NEW i \in 1 .. Len(packets) PROVE c[i] <= c[i + 1]
    <3>1. i \in 1 .. Len(packets) + 1 /\ ns[i] \in Nat /\ c[i] \in Int
      BY <1>1, <1>2, <1>3, <1>5, <1>7
    <3> QED
      BY <1>3, <1>6, <3>1
  <2>2. Len(packets) + 1 \in Nat /\ (Len(packets) + 1) - 1 = Len(packets)
    BY <1>1
  <2>3. \A i \in 1 .. Len(packets) + 1 : c[i] \in Int
    BY <1>5, <1>7
  <2> QED
    BY <2>1, <2>2, <2>3, Rising
<1>11. \A k \in 1 .. Len(packets) + 1 : StartOf(k) \in iter.pos .. iter.end
  <2> TAKE k \in 1 .. Len(packets) + 1
  <2>1. 1 \in 1 .. Len(packets) + 1 /\ k \in 1 .. Len(packets) + 1 /\ Len(packets) + 1 \in k .. Len(packets) + 1
    BY <1>1
  <2>2. c[1] <= c[k] /\ c[k] <= c[Len(packets) + 1]
    BY <1>10, <2>1
  <2> QED
    BY <1>3, <1>4, <1>5, <1>7, <2>2
<1>12. StartOf(Len(packets) + 1) = iter.end /\ iter.pos <= iter.end
  BY <1>1, <1>4, <1>11 DEF StartOf
<1>13. \A i \in 1 .. Len(packets) + 1 : \A j \in i .. Len(packets) + 1 :
        /\ StartOf(i) <= StartOf(j)
        /\ Total(SubSeq(ns, i, j - 1)) = StartOf(j) - StartOf(i)
  <2> TAKE i \in 1 .. Len(packets) + 1
  <2> TAKE j \in i .. Len(packets) + 1
  <2>1. j \in 1 .. Len(packets) + 1
    BY <1>1
  <2> QED
    BY <1>3, <1>7, <1>8, <1>10, <2>1
<1>14. Total(ns) = iter.end - iter.pos
  BY <1>3, <1>4, <1>9
<1> QED
  BY <1>1, <1>2, <1>3, <1>11, <1>12, <1>13, <1>14 DEF ns

----------------------------------------------------------------------------
(* The loops of set: the first part that does not end before the place     *)
(* asked for, counted from the i-th.                                       *)
LEMMA FitIs ==
  ASSUME NEW ns \in Seq(Nat), NEW c, \A k \in 1 .. Len(ns) + 1 : c[k] \in Int,
         \A k \in 1 .. Len(ns) : c[k + 1] = c[k] + ns[k],
         NEW i \in 1 .. Len(ns), NEW off \in Int, c[i] + off <= c[Len(ns) + 1]
  PROVE  /\ Fit(ns, i, off) \in i .. Len(ns)
         /\ c[i] + off <= c[Fit(ns, i, off) + 1]
         /\ Fit(ns, i, off) = i \/ c[Fit(ns, i, off)] < c[i] + off
         /\ Total(SubSeq(ns, i, Fit(ns, i, off) - 1)) = c[Fit(ns, i, off)] - c[i]
<1> DEFINE S == {k \in i .. Len(ns) : off - Total(SubSeq(ns, i, k - 1)) <= ns[k]} \union {Len(ns) + 1}
<1>1. Len(ns) \in Nat /\ i \in 1 .. Len(ns) + 1 /\ c[1] \in Int
  BY LenProperties
<1>2. \A k \in i .. Len(ns) + 1 : Total(SubSeq(ns, i, k - 1)) = c[k] - c[i]
  BY <1>1, TelescopePart
<1>3. \A k \in i .. Len(ns) : k \in S <=> c[i] + off <= c[k + 1]
  <2> TAKE k \in i .. Len(ns)
  <2>1. k \in 1 .. Len(ns) /\ k \in i .. Len(ns) + 1 /\ k + 1 \in 1 .. Len(ns) + 1 /\ k # Len(ns) + 1
    BY <1>1
  <2>2. Total(SubSeq(ns, i, k - 1)) = c[k] - c[i] /\ c[k + 1] = c[k] + ns[k]
    BY <1>2, <2>1
  <2>3. ns[k] \in Nat /\ c[k] \in Int /\ c[i] \in Int /\ c[k + 1] \in Int
    BY <1>1, <2>1, ElementOfSeq
  <2>4. k \in S <=> off - Total(SubSeq(ns, i, k - 1)) <= ns[k]
    BY <2>1
  <2> HIDE DEF S
  <2>5. off - (c[k] - c[i]) <= ns[k] <=> c[i] + off <= c[k] + ns[k]
    <3>1. \A x, y, z, w \in Int : x - (y - z) <= w <=> z + x <= y + w
      OBVIOUS
    <3>2. off \in Int /\ c[k] \in Int /\ c[i] \in Int /\ ns[k] \in Int
      BY <2>3
    <3> QED
      BY <3>1, <3>2
  <2>6. k \in S <=> off - (c[k] - c[i]) <= ns[k]
    BY <2>2, <2>4, Zenon
  <2>7. c[i] + off <= c[k + 1] <=> c[i] + off <= c[k] + ns[k]
    BY <2>2, Zenon
  <2> QED
    BY <2>5, <2>6, <2>7, Zenon
<1>4. S \in SUBSET Nat /\ \A k \in S : k \in i .. Len(ns) + 1
  BY <1>1
<1>5. Fit(ns, i, off) = Min(S)
  BY DEF Fit
<1> HIDE DEF S
<1>6. Len(ns) \in S
  BY <1>1, <1>3
<1>7. PICK m \in S : \A k \in S : m <= k
  BY <1>4, <1>6, LeastNumber
<1>8. Min(S) = m
  <2>1. S \in SUBSET Int
    BY <1>4
  <2> QED
    BY <1>7, <2>1, LeastIs
<1>9. m \in i .. Len(ns)
  BY <1>1, <1>4, <1>6, <1>7
<1>10. m = i \/ c[m] < c[i] + off
  <2> SUFFICES ASSUME m # i PROVE c[m] < c[i] + off
    OBVIOUS
  <2>1. m - 1 \in i .. Len(ns) /\ (m - 1) + 1 = m /\ m \in 1 .. Len(ns) + 1
    BY <1>1, <1>9
  <2>2. m - 1 \notin S
    BY <1>4, <1>7, <1>9
  <2>3. ~(c[i] + off <= c[(m - 1) + 1])
    BY <1>3, <2>1, <2>2
  <2>4. c[m] \in Int /\ c[i] \in Int
    BY <1>1, <2>1
  <2> QED
    BY <2>1, <2>3, <2>4
<1>11. c[i] + off <= c[m + 1]
  BY <1>3, <1>7, <1>9
<1> QED
  BY <1>2, <1>5, <1>8, <1>9, <1>10, <1>11

(* The same for the packets and for the buffers of one of them. *)
LEMMA FitPacket ==
  ASSUME Laid, NEW i \in 1 .. Len(packets), NEW p \in iter.pos .. iter.end - 1
  PROVE  LET k == Fit(PacketSizes, i, p - StartOf(i))
         IN  /\ k \in i .. Len(packets)
             /\ p <= StartOf(k + 1)
             /\ k = i \/ StartOf(k) < p
             /\ StartOf(i) + Total(SubSeq(PacketSizes, i, k - 1)) = StartOf(k)
<1> DEFINE c == [k \in 1 .. Len(packets) + 1 |-> StartOf(k)]
<1> DEFINE k == Fit(PacketSizes, i, p - StartOf(i))
<1>1. /\ Len(packets) \in Nat /\ PacketSizes \in Seq(Nat) /\ Len(PacketSizes) = Len(packets)
      /\ iter.pos \in Nat /\ iter.end \in Nat
  BY StreamParts DEF Laid
<1>2. \A j \in 1 .. Len(packets) + 1 : c[j] = StartOf(j) /\ StartOf(j) \in Int
  BY <1>1, StreamParts
<1>3. \A j \in 1 .. Len(packets) : c[j + 1] = c[j] + PacketSizes[j]
  <2> TAKE j \in 1 .. Len(packets)
  <2>1. j \in 1 .. Len(packets) + 1 /\ j + 1 \in 1 .. Len(packets) + 1
    BY <1>1
  <2>2. PacketSizes[j] = StartOf(j + 1) - StartOf(j)
    BY StreamParts DEF PacketSizes
  <2> HIDE DEF c
  <2> QED
    BY <1>2, <2>1, <2>2
<1>4. i \in 1 .. Len(packets) + 1 /\ Len(packets) + 1 \in 1 .. Len(packets) + 1
  BY <1>1
<1>5. c[i] = StartOf(i) /\ StartOf(i) \in Int /\ c[Len(packets) + 1] = iter.end
  BY <1>2, <1>4, StreamParts
<1> HIDE DEF c
<1>6. c[i] + (p - StartOf(i)) = p /\ p - StartOf(i) \in Int /\ p <= iter.end
  BY <1>1, <1>5
<1>7. /\ k \in i .. Len(packets)
      /\ p <= c[k + 1]
      /\ k = i \/ c[k] < p
      /\ Total(SubSeq(PacketSizes, i, k - 1)) = c[k] - c[i]
  <2> DEFINE ns == PacketSizes
  <2> DEFINE off == p - StartOf(i)
  <2>1. ns \in Seq(Nat) /\ Len(ns) = Len(packets) /\ off \in Int /\ c[i] + off = p
    BY <1>1, <1>2, <1>3, <1>5, <1>6
  <2>2. /\ i \in 1 .. Len(ns) /\ \A j \in 1 .. Len(ns) + 1 : c[j] \in Int
        /\ c[i] + off <= c[Len(ns) + 1] /\ \A j \in 1 .. Len(ns) : c[j + 1] = c[j] + ns[j]
    BY <1>1, <1>2, <1>3, <1>5, <1>6
  <2> HIDE DEF ns, off
  <2>3. /\ Fit(ns, i, off) \in i .. Len(ns)
        /\ c[i] + off <= c[Fit(ns, i, off) + 1]
        /\ Fit(ns, i, off) = i \/ c[Fit(ns, i, off)] < c[i] + off
        /\ Total(SubSeq(ns, i, Fit(ns, i, off) - 1)) = c[Fit(ns, i, off)] - c[i]
    BY <2>1, <2>2, FitIs
  <2> QED
    BY <2>1, <2>3 DEF ns, off
<1> HIDE DEF k
<1>8. k \in 1 .. Len(packets) + 1 /\ k + 1 \in 1 .. Len(packets) + 1
  BY <1>1, <1>7
<1>9. c[k] = StartOf(k) /\ c[k + 1] = StartOf(k + 1) /\ StartOf(k) \in Int
  BY <1>2, <1>8
<1>10. /\ k \in i .. Len(packets)
       /\ p <= StartOf(k + 1)
       /\ k = i \/ StartOf(k) < p
       /\ StartOf(i) + Total(SubSeq(PacketSizes, i, k - 1)) = StartOf(k)
  BY <1>5, <1>7, <1>9
<1> QED
  BY <1>10 DEF k

LEMMA FitBuffer ==
  ASSUME NEW packet, Linked(packet), NEW i \in 1 .. Len(packet), NEW p \in Int, p <= Past(packet)
  PROVE  LET k == Fit(Sizes(packet), i, p - packet[i].from)
         IN  /\ k \in i .. Len(packet)
             /\ p <= packet[k].from + packet[k].size
             /\ k = i \/ packet[k].from < p
             /\ packet[i].from + Total(SubSeq(Sizes(packet), i, k - 1)) = packet[k].from
<1> DEFINE c == [k \in 1 .. Len(packet) + 1 |-> At(packet, k)]
<1> DEFINE k == Fit(Sizes(packet), i, p - packet[i].from)
<1>1. packet \in Seq(Buffer) /\ Len(packet) \in Nat /\ DOMAIN packet = 1 .. Len(packet)
  BY LenProperties DEF Linked
<1>2. \A j \in 1 .. Len(packet) : packet[j] \in Buffer
  BY <1>1, ElementOfSeq
<1>3. Sizes(packet) \in Seq(Nat) /\ Len(Sizes(packet)) = Len(packet)
  BY <1>1, <1>2 DEF Sizes, Buffer
<1>4. \A j \in 1 .. Len(packet) : Sizes(packet)[j] = packet[j].size /\ At(packet, j) = packet[j].from
  BY <1>1 DEF Sizes, At
<1>5. \A j \in 1 .. Len(packet) + 1 : c[j] = At(packet, j) /\ At(packet, j) \in Int
  BY PacketParts
<1>6. \A j \in 1 .. Len(packet) : c[j + 1] = packet[j].from + packet[j].size
  BY <1>1, <1>5 DEF Linked
<1>7. i \in 1 .. Len(packet) + 1 /\ Len(packet) + 1 \in 1 .. Len(packet) + 1
  BY <1>1
<1>8. c[i] = packet[i].from /\ packet[i].from \in Int /\ c[Len(packet) + 1] = Past(packet)
  BY <1>1, <1>4, <1>5, <1>7 DEF At
<1> HIDE DEF c
<1>9. \A j \in 1 .. Len(packet) : c[j + 1] = c[j] + Sizes(packet)[j]
  BY <1>1, <1>4, <1>5, <1>6
<1>10. c[i] + (p - packet[i].from) = p /\ p - packet[i].from \in Int
  BY <1>8
<1>11. /\ k \in i .. Len(packet)
       /\ p <= c[k + 1]
       /\ k = i \/ c[k] < p
       /\ Total(SubSeq(Sizes(packet), i, k - 1)) = c[k] - c[i]
  <2> DEFINE ns == Sizes(packet)
  <2> DEFINE off == p - packet[i].from
  <2>1. ns \in Seq(Nat) /\ Len(ns) = Len(packet) /\ off \in Int /\ c[i] + off = p
    BY <1>3, <1>5, <1>8, <1>9, <1>10
  <2>2. /\ i \in 1 .. Len(ns) /\ \A j \in 1 .. Len(ns) + 1 : c[j] \in Int
        /\ c[i] + off <= c[Len(ns) + 1] /\ \A j \in 1 .. Len(ns) : c[j + 1] = c[j] + ns[j]
    BY <1>3, <1>5, <1>8, <1>9, <1>10
  <2> HIDE DEF ns, off
  <2>3. /\ Fit(ns, i, off) \in i .. Len(ns)
        /\ c[i] + off <= c[Fit(ns, i, off) + 1]
        /\ Fit(ns, i, off) = i \/ c[Fit(ns, i, off)] < c[i] + off
        /\ Total(SubSeq(ns, i, Fit(ns, i, off) - 1)) = c[Fit(ns, i, off)] - c[i]
    BY <2>1, <2>2, FitIs
  <2> QED
    BY <2>1, <2>3 DEF ns, off
<1> HIDE DEF k
<1>12. k \in 1 .. Len(packet) /\ k \in 1 .. Len(packet) + 1
  BY <1>1, <1>11
<1>13. c[k] = packet[k].from /\ c[k + 1] = packet[k].from + packet[k].size /\ packet[k].from \in Int
  BY <1>4, <1>5, <1>6, <1>12
<1>14. /\ k \in i .. Len(packet)
       /\ p <= packet[k].from + packet[k].size
       /\ k = i \/ packet[k].from < p
       /\ packet[i].from + Total(SubSeq(Sizes(packet), i, k - 1)) = packet[k].from
  BY <1>8, <1>11, <1>13
<1> QED
  BY <1>14 DEF k

(* An iterator that is at position p, which may be where its buffer ends. *)
Reads(it, p) ==
  /\ InPlace(it) /\ Holds(it)
  /\ it.buf \in Buffer
  /\ it.off \in 0 .. it.buf.size
  /\ it.pos2 + it.off = p

LEMMA InPlaceInRange ==
  ASSUME NEW it, InPlace(it)
  PROVE  it # OutOfRange
<1>1. it.index1 # -1
  BY LenProperties DEF InPlace
<1> QED
  BY <1>1 DEF OutOfRange

LEMMA AtTheEnd ==
  ASSUME Laid, NEW it, InPlace(it)
  PROVE  Reads([it EXCEPT !.index1 = Len(packets) + 1, !.index2 = 1, !.pos1 = iter.end,
                          !.pos2 = iter.end, !.off = 0, !.buf = NoBuf], iter.end)
<1> DEFINE at == [it EXCEPT !.index1 = Len(packets) + 1, !.index2 = 1, !.pos1 = iter.end,
                            !.pos2 = iter.end, !.off = 0, !.buf = NoBuf]
<1>1. DOMAIN it = Fields
  BY DEF InPlace
<1>2. /\ DOMAIN at = Fields
      /\ at.pos = it.pos /\ at.end = it.end /\ at.index1 = Len(packets) + 1 /\ at.index2 = 1
      /\ at.pos1 = iter.end /\ at.pos2 = iter.end /\ at.off = 0 /\ at.buf = NoBuf
  BY <1>1 DEF Fields
<1> HIDE DEF at
<1>3. Len(packets) \in Nat /\ iter.end \in Nat /\ StartOf(Len(packets) + 1) = iter.end
  BY StreamParts DEF Laid
<1>4. InPlace(at) /\ Holds(at)
  BY <1>2, <1>3 DEF InPlace, Holds
<1>5. at.buf \in Buffer /\ at.off \in 0 .. at.buf.size
  BY <1>2 DEF NoBuf, Buffer
<1>6. Reads(at, iter.end)
  BY <1>2, <1>3, <1>4, <1>5 DEF Reads
<1> QED
  BY <1>6 DEF at

(* Fields that put an iterator into a buffer. *)
LEMMA AtABuffer ==
  ASSUME Laid, NEW i \in 1 .. Len(packets), NEW j \in 1 .. Len(packets[i]), NEW off,
         off \in 0 .. packets[i][j].size, NEW at, DOMAIN at = Fields,
         at.pos = iter.pos, at.end = iter.end, at.index1 = i, at.index2 = j,
         at.pos1 = StartOf(i), at.pos2 = packets[i][j].from, at.off = off,
         at.buf = packets[i][j]
  PROVE  Reads(at, packets[i][j].from + off)
<1>1. Len(packets) \in Nat
  BY StreamParts
<1>2. packets[i][j] \in Buffer
  <2>1. packets[i] \in Seq(Buffer)
    BY ElementOfSeq DEF Laid
  <2> QED
    BY <2>1, ElementOfSeq
<1>3. InPlace(at) /\ Holds(at)
  BY <1>1 DEF InPlace, Holds
<1> QED
  BY <1>2, <1>3 DEF Reads

(* set goes to any position there is, from wherever the iterator is. *)
LEMMA SetToFacts ==
  ASSUME Laid, NEW it, InPlace(it), NEW p \in iter.pos .. iter.end
  PROVE  Reads(SetTo(it, p), p)
<1>0. /\ it.pos = iter.pos /\ it.end = iter.end /\ iter.pos \in Nat /\ iter.end \in Nat
      /\ Len(packets) \in Nat /\ DOMAIN packets = 1 .. Len(packets)
      /\ StartOf(1) = iter.pos /\ StartOf(Len(packets) + 1) = iter.end
      /\ it.index1 \in 1 .. Len(packets) + 1 /\ it.pos1 = StartOf(it.index1)
  BY StreamParts DEF Laid, InPlace
<1>1. CASE p = iter.end
  <2>1. SetTo(it, p) = [it EXCEPT !.index1 = Len(packets) + 1, !.index2 = 1, !.pos1 = p, !.pos2 = p,
                                  !.off = 0, !.buf = NoBuf]
    BY <1>0, <1>1 DEF SetTo
  <2> QED
    BY <1>1, <2>1, AtTheEnd
<1>2. CASE p # iter.end
  <2> DEFINE back  == p < it.pos1
             from1 == IF back THEN 1 ELSE it.index1
             begin == IF back THEN it.pos ELSE it.pos1
             i     == Fit(PacketSizes, from1, p - begin)
             pos1  == begin + Total(SubSeq(PacketSizes, from1, i - 1))
             again == back \/ i # it.index1 \/ p < it.pos2
             from2 == IF again THEN 1 ELSE it.index2
             inner == IF again THEN pos1 ELSE it.pos2
             ns2   == Sizes(packets[i])
             j     == Fit(ns2, from2, p - inner)
             pos2  == inner + Total(SubSeq(ns2, from2, j - 1))
  <2>1. SetTo(it, p) =
          CASE p = it.end ->
             [it EXCEPT !.index1 = Len(packets) + 1, !.index2 = 1, !.pos1 = p, !.pos2 = p,
                        !.off = 0, !.buf = NoBuf]
          [] p # it.end /\ (from1 \notin DOMAIN packets \/ i \notin DOMAIN packets) -> OutOfRange
          [] p # it.end /\ from1 \in DOMAIN packets /\ i \in DOMAIN packets ->
             IF j \notin DOMAIN ns2 THEN OutOfRange
             ELSE [it EXCEPT !.index1 = i, !.index2 = j, !.pos1 = pos1, !.pos2 = pos2,
                             !.off = p - pos2, !.buf = packets[i][j]]
    BY DEF SetTo, PacketSizes
  <2>2. from1 \in 1 .. Len(packets) /\ begin = StartOf(from1) /\ begin <= p
    <3>1. Len(packets) # 0
      BY <1>0, <1>2
    <3>2. it.index1 = Len(packets) + 1 => p < it.pos1
      BY <1>0, <1>2
    <3>3. StartOf(it.index1) \in Int
      BY <1>0, StreamParts
    <3> QED
      BY <1>0, <3>1, <3>2, <3>3
  <2> HIDE DEF from1, begin
  <2>3. /\ i \in from1 .. Len(packets) /\ p <= StartOf(i + 1) /\ StartOf(i) <= p
        /\ pos1 = StartOf(i)
    <3>1. p \in iter.pos .. iter.end - 1
      BY <1>0, <1>2
    <3>2. /\ i \in from1 .. Len(packets)
          /\ p <= StartOf(i + 1)
          /\ i = from1 \/ StartOf(i) < p
          /\ StartOf(from1) + Total(SubSeq(PacketSizes, from1, i - 1)) = StartOf(i)
      BY <2>2, <3>1, FitPacket
    <3> HIDE DEF i
    <3>3. StartOf(i) <= p
      <4>1. i \in 1 .. Len(packets) + 1
        BY <1>0, <2>2, <3>2
      <4>2. StartOf(i) \in Int
        BY <1>0, <4>1, StreamParts
      <4> QED
        BY <1>0, <2>2, <3>2, <4>2
    <3> QED
      BY <2>2, <3>2, <3>3
  <2> HIDE DEF i, pos1
  <2>4. i \in 1 .. Len(packets)
    BY <1>0, <2>2, <2>3
  <2>5. Linked(packets[i]) /\ Past(packets[i]) = StartOf(i + 1) /\ packets[i][1].from = StartOf(i)
    <3>1. Linked(packets[i]) /\ Past(packets[i]) = StartOf(i + 1)
      BY <2>4 DEF Laid
    <3>2. packets[i][1].from = StartOf(i)
      BY <1>0, <2>4 DEF StartOf
    <3> QED
      BY <3>1, <3>2
  <2>6. /\ Len(packets[i]) \in Nat \ {0} /\ DOMAIN packets[i] = 1 .. Len(packets[i])
        /\ packets[i] \in Seq(Buffer) /\ p <= Past(packets[i])
    BY <2>3, <2>5, PacketParts, LenProperties DEF Linked
  <2>7. from2 \in 1 .. Len(packets[i]) /\ inner = packets[i][from2].from /\ inner <= p
    <3>1. CASE again
      BY <2>3, <2>5, <2>6, <3>1
    <3>2. CASE ~again
      <4>1. i = it.index1 /\ ~(p < it.pos2)
        BY <3>2
      <4>2. it.index2 \in 1 .. Len(packets[i]) /\ it.pos2 = packets[i][it.index2].from
        BY <1>0, <2>4, <4>1 DEF InPlace
      <4>3. it.pos2 \in Int
        <5>1. packets[i][it.index2] \in Buffer
          BY <2>6, <4>2, ElementOfSeq
        <5> QED
          BY <4>2, <5>1 DEF Buffer
      <4> QED
        BY <3>2, <4>1, <4>2, <4>3
    <3> QED
      BY <3>1, <3>2
  <2> HIDE DEF from2, inner
  <2>8. /\ j \in from2 .. Len(packets[i])
        /\ p <= packets[i][j].from + packets[i][j].size /\ packets[i][j].from <= p
        /\ pos2 = packets[i][j].from
    <3>1. /\ j \in from2 .. Len(packets[i])
          /\ p <= packets[i][j].from + packets[i][j].size
          /\ j = from2 \/ packets[i][j].from < p
          /\ packets[i][from2].from + Total(SubSeq(ns2, from2, j - 1)) = packets[i][j].from
      <4>1. p \in Int
        BY <1>0
      <4> QED
        BY <2>5, <2>6, <2>7, <4>1, FitBuffer
    <3> HIDE DEF j, ns2
    <3>2. packets[i][j].from <= p
      <4>1. j \in 1 .. Len(packets[i])
        BY <2>6, <2>7, <3>1
      <4>2. packets[i][j] \in Buffer
        BY <2>6, <4>1, ElementOfSeq
      <4> QED
        BY <1>0, <2>7, <3>1, <4>2 DEF Buffer
    <3> QED
      BY <2>7, <3>1, <3>2
  <2>9. j \in 1 .. Len(packets[i]) /\ DOMAIN ns2 = 1 .. Len(packets[i])
    BY <2>6, <2>7, <2>8 DEF Sizes
  <2> HIDE DEF ns2, j, pos2
  <2>10. SetTo(it, p) = [it EXCEPT !.index1 = i, !.index2 = j, !.pos1 = pos1, !.pos2 = pos2,
                                   !.off = p - pos2, !.buf = packets[i][j]]
    BY <1>0, <1>2, <2>1, <2>2, <2>4, <2>9
  <2>11. p - pos2 \in 0 .. packets[i][j].size /\ packets[i][j].from + (p - pos2) = p
    <3>1. packets[i][j] \in Buffer
      BY <2>6, <2>9, ElementOfSeq
    <3> QED
      BY <1>0, <2>8, <3>1 DEF Buffer
  <2>12. Reads(SetTo(it, p), packets[i][j].from + (p - pos2))
    <3> DEFINE at == SetTo(it, p)
    <3>1. DOMAIN it = Fields
      BY DEF InPlace
    <3>2. /\ DOMAIN at = Fields
          /\ at.pos = iter.pos /\ at.end = iter.end /\ at.index1 = i /\ at.index2 = j
          /\ at.pos1 = StartOf(i) /\ at.pos2 = packets[i][j].from /\ at.off = p - pos2
          /\ at.buf = packets[i][j]
      BY <1>0, <2>3, <2>8, <2>10, <3>1 DEF Fields
    <3> HIDE DEF at
    <3>3. Reads(at, packets[i][j].from + (p - pos2))
      BY <2>4, <2>9, <2>11, <3>2, AtABuffer
    <3> QED
      BY <3>3 DEF at
  <2> QED
    BY <2>11, <2>12
<1> QED
  BY <1>1, <1>2

----------------------------------------------------------------------------
(* c counts the buffers in front of each packet. *)
Counts(c) ==
  /\ c[1] = 0
  /\ \A k \in 1 .. Len(packets) : c[k + 1] = c[k] + Len(packets[k])
  /\ \A i \in 1 .. Len(packets) + 1 : c[i] \in Int
  /\ \A i \in 1 .. Len(packets) + 1 : \A j \in i .. Len(packets) + 1 : c[i] <= c[j]
  /\ Total([k \in DOMAIN packets |-> Len(packets[k])]) = c[Len(packets) + 1]
  /\ c[Len(packets) + 1] \in Nat

LEMMA CountsExist ==
  ASSUME Laid
  PROVE  \E c : Counts(c)
<1> DEFINE ns == [k \in DOMAIN packets |-> Len(packets[k])]
<1>1. Len(packets) \in Nat /\ DOMAIN packets = 1 .. Len(packets)
  BY StreamParts
<1>2. \A k \in 1 .. Len(packets) : Len(packets[k]) \in Nat
  BY PacketParts DEF Laid
<1>3. ns \in Seq(Nat) /\ Len(ns) = Len(packets) /\ \A k \in 1 .. Len(packets) : ns[k] = Len(packets[k])
  BY <1>1, <1>2
<1> HIDE DEF ns
<1>4. PICK f : Sums(f, Len(ns), ns) /\ Total(ns) = f[Len(ns)]
  BY <1>3, TotalIs
<1> DEFINE c == [k \in 1 .. Len(packets) + 1 |-> f[k - 1]]
<1>5. f[0] = 0 /\ \A i \in 0 .. Len(ns) : i # 0 => f[i] = f[i - 1] + ns[i]
  BY <1>1, <1>3, <1>4, SumsAt
<1>6. c[1] = 0 /\ c[Len(ns) + 1] = f[Len(ns)]
  BY <1>1, <1>3, <1>5
<1>7. \A k \in 1 .. Len(ns) : c[k + 1] = c[k] + ns[k]
  <2> TAKE k \in 1 .. Len(ns)
  <2>1. c[k + 1] = f[k] /\ c[k] = f[k - 1]
    BY <1>1, <1>3
  <2>2. f[k] = f[k - 1] + ns[k]
    BY <1>1, <1>3, <1>5
  <2> QED
    BY <2>1, <2>2
<1> HIDE DEF c
<1>8. \A i \in 1 .. Len(ns) + 1 : c[i] \in Int
  BY <1>3, <1>6, <1>7, Telescope
<1>9. \A i \in 1 .. Len(ns) + 1 : \A j \in i .. Len(ns) + 1 : c[i] <= c[j]
  <2>1. ASSUME NEW i \in 1 .. Len(ns) PROVE c[i] <= c[i + 1]
    <3>1. i \in 1 .. Len(ns) + 1 /\ ns[i] \in Nat /\ c[i] \in Int
      BY <1>1, <1>2, <1>3, <1>8
    <3> QED
      BY <1>7, <3>1
  <2>2. Len(ns) + 1 \in Nat /\ (Len(ns) + 1) - 1 = Len(ns)
    BY <1>1, <1>3
  <2> QED
    BY <1>8, <2>1, <2>2, Rising
<1>10. c[Len(ns) + 1] \in Nat
  <2>1. 1 \in 1 .. Len(ns) + 1 /\ Len(ns) + 1 \in 1 .. Len(ns) + 1
    BY <1>1, <1>3
  <2>2. c[1] <= c[Len(ns) + 1] /\ c[Len(ns) + 1] \in Int
    BY <1>8, <1>9, <2>1
  <2> QED
    BY <1>6, <2>2
<1>11. Total(ns) = c[Len(ns) + 1]
  BY <1>4, <1>6
<1> QED
  BY <1>3, <1>6, <1>7, <1>8, <1>9, <1>10, <1>11 DEF Counts, ns

(* The ordinal of the buffer of an iterator never passes the number of      *)
(* buffers.                                                                 *)
LEMMA CountsBound ==
  ASSUME Laid, NEW c, Counts(c), NEW i \in 1 .. Len(packets), NEW j \in 1 .. Len(packets[i])
  PROVE  c[i] + j \in 1 .. c[Len(packets) + 1]
<1>1. Len(packets) \in Nat /\ Len(packets[i]) \in Nat
  BY StreamParts, PacketParts DEF Laid
<1>2. i \in 1 .. Len(packets) + 1 /\ i + 1 \in 1 .. Len(packets) + 1 /\ Len(packets) + 1 \in i + 1 .. Len(packets) + 1
  BY <1>1
<1>3. c[i + 1] = c[i] + Len(packets[i]) /\ c[i + 1] <= c[Len(packets) + 1] /\ c[1] <= c[i]
  BY <1>1, <1>2 DEF Counts
<1>4. c[i] \in Int /\ c[i + 1] \in Int /\ c[Len(packets) + 1] \in Int /\ c[1] = 0
  BY <1>1, <1>2 DEF Counts
<1> QED
  BY <1>1, <1>3, <1>4

(* Before the end there is a next buffer. *)
LEMMA NextBufFacts ==
  ASSUME Laid, NEW it, InPlace(it), Holds(it), it.index1 <= Len(packets),
         it.buf.from + it.buf.size < iter.end,
         NEW c, Counts(c)
  PROVE  /\ Reads(NextBuf(it), it.buf.from + it.buf.size)
         /\ NextBuf(it).off = 0
         /\ NextBuf(it).index1 <= Len(packets)
         /\ c[NextBuf(it).index1] + NextBuf(it).index2 = c[it.index1] + it.index2 + 1
<1> DEFINE k == it.index1
           packet == packets[k]
           over == it.index2 >= Len(packet)
           i == IF over THEN k + 1 ELSE k
           j == IF over THEN 1 ELSE it.index2 + 1
           at == NextBuf(it)
           p == it.buf.from + it.buf.size
<1>1. /\ k \in 1 .. Len(packets) /\ Len(packets) \in Nat /\ DOMAIN packets = 1 .. Len(packets)
      /\ it.index2 \in 1 .. Len(packet) /\ it.buf = packet[it.index2] /\ it.pos2 = it.buf.from
      /\ it.pos1 = StartOf(k) /\ it.pos = iter.pos /\ it.end = iter.end /\ DOMAIN it = Fields
  BY StreamParts DEF InPlace, Holds
<1>2. it # OutOfRange
  BY InPlaceInRange
<1>3. Linked(packet) /\ Past(packet) = StartOf(k + 1) /\ Len(packet) \in Nat
  BY <1>1, PacketParts DEF Laid
<1>4. packet[it.index2] \in Buffer /\ p \in Int
  <2>1. packet[it.index2] \in Buffer
    BY <1>1, <1>3, ElementOfSeq DEF Linked
  <2> QED
    BY <1>1, <2>1 DEF Buffer
<1>5. p = At(packet, it.index2 + 1)
  BY <1>1, <1>3 DEF Linked
<1>6. /\ i \in 1 .. Len(packets) /\ j \in 1 .. Len(packets[i]) /\ packets[i][j].from = p
      /\ StartOf(i) = IF over THEN it.pos1 + Size(packet) ELSE it.pos1
      /\ c[i] + j = c[k] + it.index2 + 1
  <2>1. CASE over
    <3>1. it.index2 = Len(packet)
      BY <1>1, <1>3, <2>1
    <3>2. p = StartOf(k + 1)
      BY <1>3, <1>5, <3>1 DEF At
    <3>3. k + 1 # Len(packets) + 1
      <4>1. StartOf(Len(packets) + 1) = iter.end /\ iter.end \in Int
        BY StreamParts DEF Laid
      <4> QED
        BY <1>4, <3>2, <4>1
    <3>4. k + 1 \in 1 .. Len(packets) /\ i = k + 1 /\ j = 1
      BY <1>1, <2>1, <3>3
    <3>5. 1 \in 1 .. Len(packets[k + 1])
      BY <3>4, PacketParts DEF Laid
    <3>6. packets[k + 1][1].from = p
      BY <1>1, <3>2, <3>4 DEF StartOf
    <3>7. StartOf(k + 1) = StartOf(k) + Size(packet)
      <4>1. k \in 1 .. Len(packets) + 1 /\ k + 1 \in 1 .. Len(packets) + 1
        BY <1>1
      <4>2. Size(packet) = StartOf(k + 1) - StartOf(k) /\ StartOf(k) \in Int /\ StartOf(k + 1) \in Int
        <5>1. iter.pos \in Int /\ iter.end \in Int
          BY DEF Laid
        <5>2. StartOf(k) \in iter.pos .. iter.end /\ StartOf(k + 1) \in iter.pos .. iter.end
          BY <4>1, StreamParts
        <5> QED
          BY <1>1, <5>1, <5>2, StreamParts
      <4> QED
        BY <4>2
    <3>8. c[k + 1] = c[k] + Len(packet) /\ c[k] \in Int
      BY <1>1 DEF Counts
    <3> HIDE DEF p, packet, k
    <3>9. c[i] + j = c[k] + it.index2 + 1
      BY <1>3, <3>1, <3>4, <3>8
    <3> QED
      BY <1>1, <2>1, <3>4, <3>5, <3>6, <3>7, <3>9
  <2>2. CASE ~over
    <3>1. i = k /\ j = it.index2 + 1 /\ j \in 1 .. Len(packet) /\ c[k] \in Int
      BY <1>1, <1>3, <2>2 DEF Counts
    <3>2. packet[j].from = p
      BY <1>3, <1>5, <3>1 DEF At
    <3> QED
      BY <1>1, <2>2, <3>1, <3>2
  <2> QED
    BY <2>1, <2>2
<1>7. /\ DOMAIN at = Fields
      /\ at.pos = iter.pos /\ at.end = iter.end /\ at.index1 = i /\ at.index2 = j
      /\ at.pos1 = StartOf(i) /\ at.pos2 = packets[i][j].from /\ at.off = 0
      /\ at.buf = packets[i][j]
  <2>1. at = [it EXCEPT !.index1 = i, !.index2 = j, !.off = 0, !.buf = packets[i][j],
                        !.pos1 = IF over THEN @ + Size(packet) ELSE @,
                        !.pos2 = @ + it.buf.size]
    BY <1>1, <1>2, <1>6 DEF NextBuf
  <2> HIDE DEF at, over, i, j, packet
  <2>2. /\ DOMAIN at = Fields
        /\ at.pos = it.pos /\ at.end = it.end /\ at.index1 = i /\ at.index2 = j /\ at.off = 0
        /\ at.pos1 = IF over THEN it.pos1 + Size(packet) ELSE it.pos1
        /\ at.pos2 = it.pos2 + it.buf.size /\ at.buf = packets[i][j]
    BY <1>1, <2>1 DEF Fields
  <2> QED
    BY <1>1, <1>6, <2>2
<1> HIDE DEF at, over, i, j, packet, k
<1>8. 0 \in 0 .. packets[i][j].size
  <2>1. packets[i][j] \in Buffer
    BY <1>6, ElementOfSeq DEF Laid
  <2> QED
    BY <2>1 DEF Buffer
<1>9. Reads(at, packets[i][j].from + 0)
  BY <1>6, <1>7, <1>8, AtABuffer
<1>10. Reads(at, p) /\ at.off = 0 /\ at.index1 <= Len(packets) /\ c[at.index1] + at.index2 = c[k] + it.index2 + 1
  BY <1>1, <1>4, <1>6, <1>7, <1>9
<1> QED
  BY <1>10 DEF at, k

(* The rounds of inc. *)
Round(x, k) == IF k > 1 /\ (x = OutOfRange \/ x.buf.size # 0) THEN x ELSE NextBuf(x)
Rounds(f, n, it) == f = [k \in 1 .. n |-> Round(IF k = 1 THEN it ELSE f[k - 1], k)]

LEMMA RoundsAt ==
  ASSUME NEW f, NEW n \in Nat, NEW it, Rounds(f, n, it)
  PROVE  \A k \in 1 .. n : f[k] = Round(IF k = 1 THEN it ELSE f[k - 1], k)
  BY DEF Rounds

LEMMA RoundsExist ==
  ASSUME NEW n \in Nat, NEW it
  PROVE  \E f : Rounds(f, n, it)
<1> DEFINE T == {m \in Nat : \E f : Rounds(f, m, it)}
<1>1. 0 \in T
  <2>1. PICK f : f = [k \in 1 .. 0 |-> it]
    OBVIOUS
  <2>2. f = [k \in 1 .. 0 |-> Round(IF k = 1 THEN it ELSE f[k - 1], k)]
    BY <2>1
  <2> QED
    BY <2>2 DEF Rounds
<1>2. ASSUME NEW m \in Nat, m \in T PROVE m + 1 \in T
  <2>1. PICK f : Rounds(f, m, it)
    BY <1>2
  <2>2. PICK g : g = [k \in 1 .. m + 1 |-> Round(IF k = 1 THEN it ELSE f[k - 1], k)]
    OBVIOUS
  <2>3. \A k \in 1 .. m : g[k] = f[k]
    BY <2>1, <2>2, RoundsAt
  <2>4. g = [k \in 1 .. m + 1 |-> Round(IF k = 1 THEN it ELSE g[k - 1], k)]
    <3>1. \A k \in 1 .. m + 1 : k # 1 => k - 1 \in 1 .. m
      OBVIOUS
    <3> QED
      BY <2>2, <2>3, <3>1
  <2> QED
    BY <2>4 DEF Rounds
<1> QED
  BY <1>1, <1>2, CountUp

(* Before the end, inc comes to a buffer with something in it, which goes on *)
(* where the last one ended.                                                 *)
LEMMA IncFacts ==
  ASSUME Laid, NEW it, InPlace(it), Holds(it), it.index1 <= Len(packets),
         it.buf.from + it.buf.size < iter.end
  PROVE  /\ Reads(Inc(it), it.buf.from + it.buf.size)
         /\ Inc(it).off = 0
         /\ Inc(it).index1 <= Len(packets)
         /\ Inc(it).buf.size # 0
<1> DEFINE n == Total([i \in DOMAIN packets |-> Len(packets[i])])
           p == it.buf.from + it.buf.size
           At0(x) == Reads(x, p) /\ x.off = 0 /\ x.index1 <= Len(packets)
<1>1. PICK c : Counts(c)
  BY CountsExist
<1>2. n = c[Len(packets) + 1] /\ n \in Nat /\ n + 1 \in Nat
  BY <1>1 DEF Counts
<1> HIDE DEF n
<1>3. PICK f : f = CHOOSE g : Rounds(g, n + 1, it)
  OBVIOUS
<1>4. Rounds(f, n + 1, it)
  BY <1>2, <1>3, RoundsExist
<1>5. Inc(it) = f[n + 1]
  BY <1>3 DEF Inc, Rounds, Round, n
<1>6. \A k \in 1 .. n + 1 : f[k] = Round(IF k = 1 THEN it ELSE f[k - 1], k)
  BY <1>2, <1>4, RoundsAt
<1>7. ASSUME NEW x, InPlace(x), x.index1 <= Len(packets)
      PROVE  c[x.index1] + x.index2 \in 1 .. n
  <2>1. x.index1 \in 1 .. Len(packets) /\ x.index2 \in 1 .. Len(packets[x.index1])
    BY <1>7, StreamParts DEF InPlace
  <2> QED
    BY <1>1, <1>2, <2>1, CountsBound
<1> DEFINE T == {m \in Nat : m <= n =>
                   /\ At0(f[m + 1])
                   /\ f[m + 1].buf.size # 0 \/ c[f[m + 1].index1] + f[m + 1].index2 >= m + 2}
<1>8. 0 \in T
  <2>1. f[1] = NextBuf(it)
    BY <1>2, <1>6 DEF Round
  <2>2. At0(f[1]) /\ c[f[1].index1] + f[1].index2 = c[it.index1] + it.index2 + 1
    BY <1>1, <2>1, NextBufFacts
  <2>3. c[it.index1] + it.index2 \in 1 .. n
    BY <1>7
  <2>4. c[f[1].index1] + f[1].index2 >= 0 + 2
    BY <1>2, <2>2, <2>3
  <2> HIDE DEF At0
  <2> QED
    BY <2>2, <2>4
<1>9. ASSUME NEW m \in Nat, m \in T PROVE m + 1 \in T
  <2> SUFFICES ASSUME m + 1 <= n
               PROVE  /\ At0(f[(m + 1) + 1])
                      /\ \/ f[(m + 1) + 1].buf.size # 0
                         \/ c[f[(m + 1) + 1].index1] + f[(m + 1) + 1].index2 >= (m + 1) + 2
    OBVIOUS
  <2> DEFINE x == f[m + 1]
             y == f[(m + 1) + 1]
  <2>1. At0(x) /\ (x.buf.size # 0 \/ c[x.index1] + x.index2 >= m + 2)
    BY <1>2, <1>9
  <2>2. y = Round(x, m + 2) /\ m + 2 > 1
    <3>1. m + 2 \in 1 .. n + 1 /\ m + 2 # 1 /\ (m + 2) - 1 = m + 1 /\ (m + 1) + 1 = m + 2
      BY <1>2
    <3> QED
      BY <1>6, <3>1
  <2> HIDE DEF x, y
  <2>3. x # OutOfRange
    BY <2>1, InPlaceInRange DEF Reads
  <2>4. CASE x.buf.size # 0
    <3>1. y = x
      BY <2>2, <2>4 DEF Round
    <3> QED
      BY <2>1, <2>4, <3>1 DEF y
  <2>5. CASE x.buf.size = 0
    <3>1. y = NextBuf(x)
      BY <2>2, <2>3, <2>5 DEF Round
    <3>2. InPlace(x) /\ Holds(x) /\ x.index1 <= Len(packets) /\ x.off = 0 /\ x.pos2 + x.off = p
      BY <2>1 DEF Reads
    <3>3. x.buf = packets[x.index1][x.index2] /\ x.pos2 = x.buf.from /\ x.buf \in Buffer
      BY <2>1, <3>2 DEF InPlace, Holds, Reads
    <3>4. x.buf.from + x.buf.size = p
      BY <2>5, <3>2, <3>3 DEF Buffer
    <3> HIDE DEF p
    <3>5. p < iter.end
      BY DEF p
    <3>6. At0(y) /\ c[y.index1] + y.index2 = c[x.index1] + x.index2 + 1
      BY <1>1, <3>1, <3>2, <3>4, <3>5, NextBufFacts
    <3>7. c[x.index1] + x.index2 \in 1 .. n
      BY <1>7, <3>2
    <3>8. c[y.index1] + y.index2 >= (m + 1) + 2
      BY <1>2, <2>1, <2>5, <3>6, <3>7
    <3> QED
      BY <3>6, <3>8 DEF y
  <2>6. x.buf.size = 0 \/ x.buf.size # 0
    OBVIOUS
  <2> QED
    BY <2>4, <2>5, <2>6
<1> HIDE DEF At0
<1>10. \A m \in Nat : m <= n =>
         At0(f[m + 1]) /\ (f[m + 1].buf.size # 0 \/ c[f[m + 1].index1] + f[m + 1].index2 >= m + 2)
  BY <1>8, <1>9, CountUp
<1>11. At0(f[n + 1]) /\ (f[n + 1].buf.size # 0 \/ c[f[n + 1].index1] + f[n + 1].index2 >= n + 2)
  BY <1>2, <1>10
<1>12. f[n + 1].buf.size # 0
  <2>1. c[f[n + 1].index1] + f[n + 1].index2 \in 1 .. n
    BY <1>7, <1>11 DEF At0, Reads
  <2> QED
    BY <1>2, <1>11, <2>1
<1> QED
  BY <1>5, <1>11, <1>12 DEF At0

----------------------------------------------------------------------------
(* The n positions from p on. *)
Run(p, n) == [k \in 1 .. n |-> p + k - 1]

LEMMA RunFacts ==
  ASSUME NEW p \in Int, NEW n \in Nat
  PROVE  Run(p, n) \in Seq(Int) /\ Len(Run(p, n)) = n
  BY DEF Run

LEMMA RunConcat ==
  ASSUME NEW p \in Int, NEW a \in Nat, NEW b \in Nat
  PROVE  Run(p, a) \o Run(p + a, b) = Run(p, a + b)
<1> DEFINE x == Run(p, a)
           y == Run(p + a, b)
           z == Run(p, a + b)
<1>1. /\ x \in Seq(Int) /\ Len(x) = a /\ \A k \in 1 .. a : x[k] = p + k - 1
      /\ y \in Seq(Int) /\ Len(y) = b /\ \A k \in 1 .. b : y[k] = (p + a) + k - 1
      /\ z \in Seq(Int) /\ Len(z) = a + b /\ \A k \in 1 .. a + b : z[k] = p + k - 1
  BY DEF Run
<1> HIDE DEF x, y, z
<1>2. /\ x \o y \in Seq(Int) /\ Len(x \o y) = a + b
      /\ \A k \in 1 .. a + b : (x \o y)[k] = IF k <= a THEN x[k] ELSE y[k - a]
  BY <1>1, ConcatProperties
<1>3. \A k \in 1 .. a + b : (x \o y)[k] = z[k]
  <2> TAKE k \in 1 .. a + b
  <2>1. CASE k <= a
    BY <1>1, <1>2, <2>1
  <2>2. CASE ~(k <= a)
    <3>1. k - a \in 1 .. b
      BY <2>2
    <3>2. y[k - a] = (p + a) + (k - a) - 1
      BY <1>1, <3>1
    <3> QED
      BY <1>1, <1>2, <2>2, <3>2
  <2> QED
    BY <2>1, <2>2
<1>4. x \o y = z
  BY <1>1, <1>2, <1>3, SeqEqual
<1> QED
  BY <1>4 DEF x, y, z

LEMMA ChunkFacts ==
  ASSUME NEW buf \in Buffer, NEW off \in 0 .. buf.size, NEW n \in Nat
  PROVE  LET m == IF n <= buf.size - off THEN n ELSE buf.size - off
         IN  m \in Nat /\ Chunk(buf, off, n) = Run(buf.from + off, m)
<1> DEFINE m == IF n <= buf.size - off THEN n ELSE buf.size - off
<1>1. buf.size \in Nat /\ buf.from \in Int
  BY DEF Buffer
<1>2. m \in Nat /\ {n, buf.size - off} \in SUBSET Int /\ m \in {n, buf.size - off}
  BY <1>1
<1>3. \A i \in {n, buf.size - off} : m <= i
  BY <1>1
<1>4. Min({n, buf.size - off}) = m
  BY <1>2, <1>3, LeastIs
<1> QED
  BY <1>2, <1>4 DEF Chunk, Run

(* The loop of get over a block. *)
TakeFrom(s) ==
  LET c == Chunk(s.it.buf, s.it.off, s.left)
      left == s.left - Len(c)
  IN  IF s.it = OutOfRange \/ s.left = 0 THEN s
      ELSE [it |-> IF left = 0 THEN s.it ELSE Inc(s.it), left |-> left, got |-> s.got \o c]
Takes(f, m, start) == f = [k \in 0 .. m |-> IF k = 0 THEN start ELSE TakeFrom(f[k - 1])]

LEMMA TakesAt ==
  ASSUME NEW f, NEW m \in Nat, NEW start, Takes(f, m, start)
  PROVE  f[0] = start /\ \A k \in 0 .. m : k # 0 => f[k] = TakeFrom(f[k - 1])
<1>1. \A k \in 0 .. m : f[k] = IF k = 0 THEN start ELSE TakeFrom(f[k - 1])
  BY DEF Takes
<1> QED
  BY <1>1

LEMMA TakesExist ==
  ASSUME NEW n \in Nat, NEW start
  PROVE  \E f : Takes(f, n, start)
<1> DEFINE T == {m \in Nat : \E f : Takes(f, m, start)}
<1>1. 0 \in T
  <2>1. PICK f : f = [k \in 0 .. 0 |-> start]
    OBVIOUS
  <2>2. f = [k \in 0 .. 0 |-> IF k = 0 THEN start ELSE TakeFrom(f[k - 1])]
    BY <2>1
  <2> QED
    BY <2>2 DEF Takes
<1>2. ASSUME NEW m \in Nat, m \in T PROVE m + 1 \in T
  <2>1. PICK f : Takes(f, m, start)
    BY <1>2
  <2>2. PICK g : g = [k \in 0 .. m + 1 |-> IF k = 0 THEN start ELSE TakeFrom(f[k - 1])]
    OBVIOUS
  <2>3. \A k \in 0 .. m : g[k] = f[k]
    BY <2>1, <2>2, TakesAt
  <2>4. g = [k \in 0 .. m + 1 |-> IF k = 0 THEN start ELSE TakeFrom(g[k - 1])]
    <3>1. \A k \in 0 .. m + 1 : k # 0 => k - 1 \in 0 .. m
      OBVIOUS
    <3> QED
      BY <2>2, <2>3, <3>1
  <2> QED
    BY <2>4 DEF Takes
<1> QED
  BY <1>1, <1>2, CountUp

(* What one round of it leaves: of the n bytes from p on, those before left *)
(* are taken, and the iterator is at the next one.                          *)
Took(s, p, n) ==
  /\ s.left \in 0 .. n
  /\ s.got = Run(p, n - s.left)
  /\ InPlace(s.it)
  /\ s.left # 0 => Reads(s.it, p + (n - s.left))
Progress(s, k, n) == s.left # 0 => s.left + k <= n + 1 /\ (k # 0 => s.it.off = 0 /\ s.it.buf.size # 0)

LEMMA ReadsBeforeEnd ==
  ASSUME Laid, NEW it, NEW q, Reads(it, q), q < iter.end
  PROVE  /\ it.index1 <= Len(packets)
         /\ it.buf.from + it.off = q
<1>1. Len(packets) \in Nat /\ it.index1 \in 1 .. Len(packets) + 1 /\ iter.end \in Nat
  BY StreamParts DEF Reads, InPlace, Laid
<1>2. it.index1 # Len(packets) + 1
  <2> SUFFICES ASSUME it.index1 = Len(packets) + 1 PROVE FALSE
    OBVIOUS
  <2>1. it.pos2 = iter.end /\ it.buf = NoBuf
    BY <1>1 DEF Reads, InPlace, Holds
  <2>2. it.off = 0
    BY <2>1 DEF Reads, NoBuf
  <2> QED
    BY <1>1, <2>1, <2>2 DEF Reads
<1> QED
  BY <1>1, <1>2 DEF Reads, InPlace, Holds

LEMMA TakeFromFacts ==
  ASSUME Laid, NEW p \in Int, NEW n \in Nat, p + n <= iter.end,
         NEW s, NEW k \in Nat, Took(s, p, n), Progress(s, k, n)
  PROVE  Took(TakeFrom(s), p, n) /\ Progress(TakeFrom(s), k + 1, n)
<1>0. iter.end \in Nat /\ s.left \in 0 .. n /\ s.it # OutOfRange
  BY InPlaceInRange DEF Laid, Took
<1>1. CASE s.left = 0
  <2>1. TakeFrom(s) = s
    BY <1>1 DEF TakeFrom
  <2> QED
    BY <1>1, <2>1 DEF Progress
<1>2. CASE s.left # 0
  <2> DEFINE it == s.it
             buf == s.it.buf
             room == s.it.buf.size - s.it.off
             m == IF s.left <= room THEN s.left ELSE room
             left == s.left - m
             q == p + (n - s.left)
             next == TakeFrom(s)
  <2>1. Reads(it, q) /\ q < iter.end
    BY <1>0, <1>2 DEF Took
  <2>2. /\ it.index1 <= Len(packets) /\ buf.from + it.off = q
        /\ buf \in Buffer /\ it.off \in 0 .. buf.size /\ buf.size \in Nat /\ buf.from \in Int
    BY <2>1, ReadsBeforeEnd DEF Reads, Buffer
  <2>20. s.left \in Nat /\ s.left <= n /\ it.off \in Nat /\ room \in Nat
    BY <1>0, <2>2
  <2>21. Chunk(buf, it.off, s.left) = Run(buf.from + it.off, m)
    BY <2>2, <2>20, ChunkFacts
  <2> HIDE DEF room
  <2>3. m \in Nat /\ Chunk(buf, it.off, s.left) = Run(q, m)
    <3>1. m \in Nat
      BY <2>20
    <3> HIDE DEF m, buf, it, q
    <3> QED
      BY <2>2, <2>21, <3>1
  <2>4. q \in Int /\ left \in 0 .. n /\ m <= s.left /\ left <= s.left
    <3>1. m <= s.left
      BY <2>20
    <3> HIDE DEF m
    <3> QED
      BY <2>3, <2>20, <3>1
  <2>5. Len(Run(q, m)) = m
    BY <2>3, <2>4, RunFacts
  <2>6. s.got \o Run(q, m) = Run(p, n - left)
    <3>1. n - s.left \in Nat /\ (n - s.left) + m = n - left
      BY <1>0, <2>3, <2>4
    <3>2. Run(p, n - s.left) \o Run(p + (n - s.left), m) = Run(p, (n - s.left) + m)
      BY <2>3, <3>1, RunConcat
    <3> QED
      BY <3>1, <3>2 DEF Took
  <2>7. next = [it |-> IF left = 0 THEN it ELSE Inc(it), left |-> left, got |-> Run(p, n - left)]
    BY <1>0, <1>2, <2>3, <2>5, <2>6 DEF TakeFrom
  <2>8. next.it = (IF left = 0 THEN it ELSE Inc(it)) /\ next.left = left /\ next.got = Run(p, n - left)
    BY <2>7
  <2>9. CASE left = 0
    BY <2>1, <2>4, <2>8, <2>9 DEF Took, Progress, Reads
  <2>10. CASE left # 0
    <3>1. m = room /\ room < s.left
      BY <2>20, <2>10
    <3>2. buf.from + buf.size = p + (n - left) /\ p + (n - left) < iter.end
      <4>1. left = s.left - (buf.size - it.off)
        BY <3>1 DEF room
      <4>2. left \in Int /\ left >= 1
        BY <2>4, <2>10
      <4> HIDE DEF left, m
      <4>3. p + (n - left) < iter.end
        BY <1>0, <4>2
      <4>4. buf.from = q - it.off
        BY <2>2, <2>20
      <4>5. buf.from + buf.size = p + (n - left)
        <5>1. \A x, y, z, u, v \in Int : ((x + (y - z)) - u) + v = x + (y - (z - (v - u)))
          OBVIOUS
        <5>2. s.left \in Int /\ it.off \in Int /\ buf.size \in Int
          BY <2>2, <2>20
        <5> HIDE DEF buf, it
        <5> QED
          BY <4>1, <4>4, <5>1, <5>2
      <4> QED
        BY <4>3, <4>5
    <3>3. InPlace(it) /\ Holds(it)
      BY <2>1 DEF Reads
    <3>4. Reads(Inc(it), p + (n - left)) /\ Inc(it).off = 0 /\ Inc(it).buf.size # 0
      BY <2>2, <3>2, <3>3, IncFacts
    <3>5. next.it = Inc(it)
      BY <2>8, <2>10
    <3>6. Took(next, p, n)
      BY <2>4, <2>8, <3>4, <3>5 DEF Took, Reads
    <3>7. left + (k + 1) <= n + 1
      <4>1. CASE k = 0
        BY <1>0, <2>3, <2>4, <2>10, <4>1
      <4>2. CASE k # 0
        <5>1. s.left + k <= n + 1 /\ it.off = 0 /\ buf.size # 0
          BY <1>2, <4>2 DEF Progress
        <5>2. m >= 1
          BY <2>2, <3>1, <5>1 DEF room
        <5> QED
          BY <1>0, <2>3, <5>1, <5>2
      <4> QED
        BY <4>1, <4>2
    <3>8. Progress(next, k + 1, n)
      BY <2>8, <3>4, <3>5, <3>7 DEF Progress
    <3> QED
      BY <3>6, <3>8
  <2> QED
    BY <2>9, <2>10
<1> QED
  BY <1>1, <1>2

(* The bytes of a block, all of them and no others. *)
LEMMA CollectFacts ==
  ASSUME Laid, NEW p \in Int, NEW n \in Nat \ {0}, p + n <= iter.end, NEW it, Reads(it, p)
  PROVE  InPlace(Collect(it, n).it) /\ Collect(it, n).got = Run(p, n)
<1> DEFINE start == [it |-> it, left |-> n, got |-> <<>>]
<1>1. PICK f : f = CHOOSE g : Takes(g, n + 1, start)
  OBVIOUS
<1>2. Takes(f, n + 1, start)
  BY <1>1, TakesExist
<1>3. Collect(it, n) = f[n + 1]
  BY <1>1 DEF Collect, Takes, TakeFrom
<1>4. f[0] = start /\ \A k \in 0 .. n + 1 : k # 0 => f[k] = TakeFrom(f[k - 1])
  BY <1>2, TakesAt
<1> DEFINE T == {m \in Nat : m <= n + 1 => Took(f[m], p, n) /\ Progress(f[m], m, n)}
<1>5. 0 \in T
  <2>1. f[0].it = it /\ f[0].left = n /\ f[0].got = <<>>
    BY <1>4
  <2>2. Run(p, n - n) = <<>>
    <3>1. n - n = 0 /\ 0 \in Nat
      OBVIOUS
    <3>2. Run(p, 0) \in Seq(Int) /\ Len(Run(p, 0)) = 0
      BY RunFacts
    <3>3. Run(p, 0) = <<>>
      BY <3>2, EmptySeq
    <3> QED
      BY <3>1, <3>3
  <2>3. p + (n - n) = p
    OBVIOUS
  <2> QED
    BY <2>1, <2>2, <2>3 DEF Took, Progress, Reads
<1>6. ASSUME NEW m \in Nat, m \in T PROVE m + 1 \in T
  <2> SUFFICES ASSUME m + 1 <= n + 1
               PROVE  Took(f[m + 1], p, n) /\ Progress(f[m + 1], m + 1, n)
    OBVIOUS
  <2>1. Took(f[m], p, n) /\ Progress(f[m], m, n)
    BY <1>6
  <2>2. f[m + 1] = TakeFrom(f[m])
    <3>1. m + 1 \in 0 .. n + 1 /\ m + 1 # 0 /\ (m + 1) - 1 = m
      OBVIOUS
    <3>2. f[m + 1] = TakeFrom(f[(m + 1) - 1])
      BY <1>4, <3>1
    <3> QED
      BY <3>1, <3>2
  <2> QED
    BY <2>1, <2>2, TakeFromFacts
<1>7. \A m \in Nat : m <= n + 1 => Took(f[m], p, n) /\ Progress(f[m], m, n)
  BY <1>5, <1>6, CountUp
<1>8. Took(f[n + 1], p, n) /\ Progress(f[n + 1], n + 1, n)
  BY <1>7
<1>9. f[n + 1].left = 0
  BY <1>8 DEF Took, Progress
<1> QED
  BY <1>3, <1>8, <1>9 DEF Took

----------------------------------------------------------------------------
(* The bytes of one block, and of two. *)
LEMMA BytesOfOne ==
  ASSUME NEW b
  PROVE  Stream!BytesOf(<<b>>) = Run(b.at, b.size)
<1> DEFINE seqs == [i \in DOMAIN <<b>> |-> [k \in 1 .. <<b>>[i].size |-> <<b>>[i].at + k - 1]]
<1>1. seqs = [i \in 1 .. 1 |-> Run(b.at, b.size)]
  BY DEF Run
<1>2. Len(seqs) = 1 /\ seqs[1] = Run(b.at, b.size)
  BY <1>1
<1>3. Stream!BytesOf(<<b>>) = Stream!FlattenSeq(seqs)
  BY DEF Stream!BytesOf
<1> HIDE DEF seqs
<1> DEFINE Flat(f) == f = [i \in 1 .. Len(seqs) |-> IF i = 1 THEN seqs[i] ELSE f[i - 1] \o seqs[i]]
<1>4. PICK f : f = CHOOSE g : Flat(g)
  OBVIOUS
<1>5. Stream!FlattenSeq(seqs) = f[Len(seqs)]
  BY <1>2, <1>4 DEF Stream!FlattenSeq
<1>6. \E g : Flat(g)
  <2>1. PICK g : g = [i \in 1 .. 1 |-> seqs[1]]
    OBVIOUS
  <2>2. Flat(g)
    BY <1>2, <2>1
  <2> QED
    BY <2>2
<1>7. Flat(f)
  BY <1>4, <1>6
<1>8. f[1] = seqs[1]
  BY <1>2, <1>7
<1> QED
  BY <1>2, <1>3, <1>5, <1>8

LEMMA BytesOfTwo ==
  ASSUME NEW b1, NEW b2
  PROVE  Stream!BytesOf(<<b1, b2>>) = Run(b1.at, b1.size) \o Run(b2.at, b2.size)
<1> DEFINE bs == <<b1, b2>>
           seqs == [i \in DOMAIN bs |-> [k \in 1 .. bs[i].size |-> bs[i].at + k - 1]]
<1>1. seqs = [i \in 1 .. 2 |-> Run(bs[i].at, bs[i].size)]
  BY DEF Run
<1>2. Len(seqs) = 2 /\ seqs[1] = Run(b1.at, b1.size) /\ seqs[2] = Run(b2.at, b2.size)
  BY <1>1
<1>3. Stream!BytesOf(bs) = Stream!FlattenSeq(seqs)
  BY DEF Stream!BytesOf
<1> HIDE DEF seqs
<1> DEFINE Flat(f) == f = [i \in 1 .. Len(seqs) |-> IF i = 1 THEN seqs[i] ELSE f[i - 1] \o seqs[i]]
<1>4. PICK f : f = CHOOSE g : Flat(g)
  OBVIOUS
<1>5. Stream!FlattenSeq(seqs) = f[Len(seqs)]
  BY <1>2, <1>4 DEF Stream!FlattenSeq
<1>6. \E g : Flat(g)
  <2>1. PICK g : g = [i \in 1 .. 2 |-> IF i = 1 THEN seqs[1] ELSE seqs[1] \o seqs[2]]
    OBVIOUS
  <2>2. \A i \in 1 .. 2 : i # 1 => i = 2 /\ i - 1 = 1
    OBVIOUS
  <2>3. Flat(g)
    BY <1>2, <2>1, <2>2
  <2> QED
    BY <2>3
<1>7. Flat(f)
  BY <1>4, <1>6
<1>8. f[2] = seqs[1] \o seqs[2]
  <2>1. \A i \in 1 .. 2 : f[i] = IF i = 1 THEN seqs[i] ELSE f[i - 1] \o seqs[i]
    BY <1>2, <1>7
  <2>2. f[1] = seqs[1]
    BY <2>1
  <2>3. 2 \in 1 .. 2 /\ 2 # 1 /\ 2 - 1 = 1
    OBVIOUS
  <2>4. f[2] = f[2 - 1] \o seqs[2]
    BY <2>1, <2>3, Zenon
  <2> QED
    BY <2>2, <2>3, <2>4, Zenon
<1> QED
  BY <1>2, <1>3, <1>5, <1>8

(* The loop of get over the blocks. *)
AfterBlock(s, b) ==
  LET at == SetTo(s.it, b.at)
      c == Collect(at, b.size)
  IN  IF s.it = OutOfRange \/ at = OutOfRange
      THEN [it |-> OutOfRange, got |-> <<>>]
      ELSE [it |-> c.it, got |-> s.got \o c.got]
Afters(f, blocks) ==
  f = [k \in 0 .. Len(blocks) |->
         IF k = 0 THEN [it |-> iter, got |-> <<>>] ELSE AfterBlock(f[k - 1], blocks[k])]

(* A block of the stream. *)
Kept1(b) == b.at \in iter.pos .. iter.end /\ b.size \in Nat \ {0} /\ b.at + b.size <= iter.end

LEMMA AfterBlockFacts ==
  ASSUME Laid, NEW s, InPlace(s.it), NEW b, Kept1(b)
  PROVE  InPlace(AfterBlock(s, b).it) /\ AfterBlock(s, b).got = s.got \o Run(b.at, b.size)
<1> DEFINE at == SetTo(s.it, b.at)
           c == Collect(at, b.size)
<1>1. Reads(at, b.at) /\ b.at \in Int
  BY SetToFacts DEF Kept1, Laid
<1>2. s.it # OutOfRange /\ at # OutOfRange
  BY <1>1, InPlaceInRange DEF Reads
<1>3. InPlace(c.it) /\ c.got = Run(b.at, b.size)
  <2> HIDE DEF at
  <2> QED
    BY <1>1, CollectFacts DEF Kept1
<1>4. AfterBlock(s, b) = [it |-> c.it, got |-> s.got \o c.got]
  BY <1>2 DEF AfterBlock
<1> HIDE DEF at, c
<1>5. AfterBlock(s, b).it = c.it /\ AfterBlock(s, b).got = s.got \o c.got
  <2> DEFINE got == s.got \o c.got
  <2>1. AfterBlock(s, b) = [it |-> c.it, got |-> got]
    BY <1>4
  <2> HIDE DEF got
  <2>2. AfterBlock(s, b).it = c.it /\ AfterBlock(s, b).got = got
    BY <2>1
  <2> QED
    BY <2>2 DEF got
<1> QED
  BY <1>3, <1>5, Zenon

LEMMA GatherOne ==
  ASSUME Laid, InPlace(iter), NEW b, Kept1(b)
  PROVE  InPlace(Gather(<<b>>).it) /\ Gather(<<b>>).got = Stream!BytesOf(<<b>>)
<1> DEFINE blocks == <<b>>
           start == [it |-> iter, got |-> <<>>]
<1>1. PICK f : f = CHOOSE g : Afters(g, blocks)
  OBVIOUS
<1>2. Gather(blocks) = f[1]
  <2>1. Gather(blocks) = f[Len(blocks)]
    BY <1>1 DEF Gather, Afters, AfterBlock
  <2> QED
    BY <2>1
<1>3. \E g : Afters(g, blocks)
  <2>1. PICK g : g = [k \in 0 .. 1 |-> IF k = 0 THEN start ELSE AfterBlock(start, b)]
    OBVIOUS
  <2>2. g = [k \in 0 .. 1 |-> IF k = 0 THEN start ELSE AfterBlock(g[k - 1], blocks[k])]
    BY <2>1
  <2>3. Afters(g, blocks)
    BY <2>2 DEF Afters
  <2> QED
    BY <2>3
<1>4. Afters(f, blocks)
  BY <1>1, <1>3
<1>5. f[1] = AfterBlock(start, b)
  <2>1. \A k \in 0 .. 1 : f[k] = IF k = 0 THEN start ELSE AfterBlock(f[k - 1], blocks[k])
    BY <1>4 DEF Afters
  <2>2. f[0] = start /\ f[1] = AfterBlock(f[1 - 1], blocks[1])
    BY <2>1
  <2> QED
    BY <2>2
<1>6. InPlace(f[1].it) /\ f[1].got = <<>> \o Run(b.at, b.size)
  BY <1>5, AfterBlockFacts
<1>7. <<>> \o Run(b.at, b.size) = Run(b.at, b.size)
  <2>1. b.at \in Int /\ b.size \in Nat
    BY DEF Kept1, Laid
  <2> QED
    BY <2>1, RunFacts, ConcatEmptySeq
<1> QED
  BY <1>2, <1>6, <1>7, BytesOfOne

LEMMA GatherTwo ==
  ASSUME Laid, InPlace(iter), NEW b1, Kept1(b1), NEW b2, Kept1(b2)
  PROVE  InPlace(Gather(<<b1, b2>>).it) /\ Gather(<<b1, b2>>).got = Stream!BytesOf(<<b1, b2>>)
<1> DEFINE blocks == <<b1, b2>>
           start == [it |-> iter, got |-> <<>>]
<1>1. PICK f : f = CHOOSE g : Afters(g, blocks)
  OBVIOUS
<1>2. Gather(blocks) = f[2]
  <2>1. Gather(blocks) = f[Len(blocks)]
    BY <1>1 DEF Gather, Afters, AfterBlock
  <2> QED
    BY <2>1
<1>3. \E g : Afters(g, blocks)
  <2>1. PICK g : g = [k \in 0 .. 2 |->
                        IF k = 0 THEN start
                        ELSE IF k = 1 THEN AfterBlock(start, b1)
                        ELSE AfterBlock(AfterBlock(start, b1), b2)]
    OBVIOUS
  <2>2. g[0] = start /\ g[1] = AfterBlock(start, b1)
    BY <2>1
  <2>3. \A k \in 0 .. 2 : k = 0 \/ (k = 1 /\ k - 1 = 0) \/ (k = 2 /\ k - 1 = 1)
    OBVIOUS
  <2>4. g = [k \in 0 .. 2 |-> IF k = 0 THEN start ELSE AfterBlock(g[k - 1], blocks[k])]
    BY <2>1, <2>2, <2>3
  <2>5. Afters(g, blocks)
    BY <2>4 DEF Afters
  <2> QED
    BY <2>5
<1>4. Afters(f, blocks)
  BY <1>1, <1>3
<1>5. f[2] = AfterBlock(AfterBlock(start, b1), b2)
  <2>1. \A k \in 0 .. 2 : f[k] = IF k = 0 THEN start ELSE AfterBlock(f[k - 1], blocks[k])
    BY <1>4 DEF Afters
  <2>2. f[0] = start /\ f[1] = AfterBlock(f[1 - 1], blocks[1]) /\ f[2] = AfterBlock(f[2 - 1], blocks[2])
    BY <2>1
  <2> QED
    BY <2>2
<1> DEFINE s == AfterBlock(start, b1)
<1>6. InPlace(s.it) /\ s.got = <<>> \o Run(b1.at, b1.size)
  <2>1. start.it = iter /\ start.got = <<>>
    OBVIOUS
  <2> HIDE DEF start
  <2>2. InPlace(start.it)
    BY <2>1
  <2> QED
    BY <2>1, <2>2, AfterBlockFacts
<1> HIDE DEF s
<1>7. InPlace(AfterBlock(s, b2).it) /\ AfterBlock(s, b2).got = s.got \o Run(b2.at, b2.size)
  BY <1>6, AfterBlockFacts
<1>8. <<>> \o Run(b1.at, b1.size) = Run(b1.at, b1.size)
  <2>1. b1.at \in Int /\ b1.size \in Nat
    BY DEF Kept1, Laid
  <2> QED
    BY <2>1, RunFacts, ConcatEmptySeq
<1> QED
  BY <1>2, <1>5, <1>6, <1>7, <1>8, BytesOfTwo DEF s

----------------------------------------------------------------------------
(* A step that only moves the reader keeps all of it. *)
LEMMA Moved ==
  ASSUME TInv, packets' = packets, offsets' = offsets,
         InPlace(iter'), Holds(iter'), iter'.buf \in Buffer,
         bufOff' \in 0 .. iter'.buf.size, iter'.pos2 + bufOff' \in iter.pos .. iter.end,
         placed' \in BOOLEAN, fault' \in {"none", "assert"}
  PROVE  TInv'
<1>1. iter'.pos = iter.pos /\ iter'.end = iter.end
  BY DEF InPlace
<1>2. \A k : StartOf(k)' = StartOf(k)
  BY <1>1 DEF StartOf
<1>3. Laid'
  BY <1>1, <1>2 DEF TInv, Laid
<1>4. InPlace(iter)'
  BY <1>1, <1>2 DEF InPlace
<1>5. Holds(iter)'
  BY DEF Holds
<1>6. Kept'
  BY <1>1 DEF TInv, Kept
<1>7. Position' \in iter'.pos .. iter'.end
  BY <1>1 DEF Position
<1> QED
  BY <1>3, <1>4, <1>5, <1>6, <1>7 DEF TInv

LEMMA StandStill ==
  ASSUME TInv, packets' = packets, offsets' = offsets, iter' = iter, bufOff' = bufOff,
         placed' = placed, fault' \in {"none", "assert"}
  PROVE  TInv'
<1>1. \A k : StartOf(k)' = StartOf(k)
  BY DEF StartOf
<1>2. Laid' /\ InPlace(iter)' /\ Holds(iter)' = Holds(iter) /\ Kept' /\ Position' = Position
  BY <1>1 DEF TInv, Laid, InPlace, Holds, Kept, Position
<1> QED
  BY <1>2 DEF TInv

(* Where the reader is, when its place holds. *)
LEMMA ReaderFacts ==
  ASSUME TInv, placed
  PROVE  /\ Reads([iter EXCEPT !.off = bufOff], Position)
         /\ iter.pos2 \in Int /\ Position \in Int /\ iter.buf.size \in Nat
         /\ iter.index1 <= Len(packets) =>
              iter.pos2 = iter.buf.from /\ iter.buf.from + iter.buf.size <= StartOf(iter.index1 + 1)
         /\ bufOff < iter.buf.size => iter.index1 <= Len(packets)
         /\ Position < iter.end => iter.index1 <= Len(packets)
<1> DEFINE at == [iter EXCEPT !.off = bufOff]
<1>1. Laid /\ InPlace(iter) /\ Holds(iter) /\ bufOff \in 0 .. iter.buf.size /\ iter.buf \in Buffer
  BY DEF TInv
<1>2. Len(packets) \in Nat /\ iter.index1 \in 1 .. Len(packets) + 1 /\ iter.end \in Nat /\ iter.pos \in Nat
  BY <1>1, StreamParts DEF InPlace, Laid
<1>3. iter.buf.size \in Nat /\ iter.buf.from \in Int
  BY <1>1 DEF Buffer
<1>4. CASE iter.index1 <= Len(packets)
  <2>1. /\ iter.index1 \in 1 .. Len(packets) /\ iter.index2 \in 1 .. Len(packets[iter.index1])
        /\ iter.pos2 = iter.buf.from /\ iter.buf = packets[iter.index1][iter.index2]
    BY <1>1, <1>2, <1>4 DEF InPlace, Holds
  <2> DEFINE packet == packets[iter.index1]
             j == iter.index2
  <2>2. Linked(packet) /\ Past(packet) = StartOf(iter.index1 + 1) /\ Len(packet) \in Nat
    BY <1>1, <2>1, PacketParts DEF Laid
  <2>3. At(packet, j + 1) = iter.buf.from + iter.buf.size
    BY <2>1, <2>2 DEF Linked
  <2>4. At(packet, Len(packet) + 1) = Past(packet)
    BY <2>2 DEF At
  <2>5. At(packet, j + 1) <= At(packet, Len(packet) + 1)
    <3>1. j + 1 \in 1 .. Len(packet) + 1 /\ Len(packet) + 1 \in j + 1 .. Len(packet) + 1
      BY <2>1, <2>2
    <3> QED
      BY <2>2, <3>1, PacketParts
  <2>6. iter.buf.from + iter.buf.size <= StartOf(iter.index1 + 1)
    BY <2>2, <2>3, <2>4, <2>5
  <2>7. Reads(at, Position)
    BY <1>1, <1>4 DEF Reads, InPlace, Holds, Fields, Position
  <2> QED
    BY <1>1, <1>3, <1>4, <2>1, <2>6, <2>7 DEF Position
<1>5. CASE iter.index1 = Len(packets) + 1
  <2>1. iter.pos2 = iter.end /\ iter.buf = NoBuf /\ bufOff = 0
    BY <1>1, <1>2, <1>5 DEF InPlace, Holds, NoBuf
  <2>2. Reads(at, Position)
    BY <1>1, <1>2, <1>5 DEF Reads, InPlace, Holds, Fields, Position
  <2>3. iter.buf.size = 0 /\ Position = iter.end
    BY <1>2, <2>1 DEF Position, NoBuf
  <2>4. ~(iter.index1 <= Len(packets)) /\ ~(bufOff < iter.buf.size) /\ ~(Position < iter.end)
    BY <1>2, <1>5, <2>1, <2>3
  <2>5. iter.pos2 \in Int /\ Position \in Int
    BY <1>2, <2>1, <2>3
  <2> QED
    BY <1>3, <2>2, <2>4, <2>5
<1> QED
  BY <1>2, <1>4, <1>5

(* Seek *)
LEMMA SeekStep ==
  ASSUME TInv, NEW p \in 0 .. MaxBytes, Seek(p)
  PROVE  TInv' /\ iter'.pos = iter.pos /\ iter'.end = iter.end
<1>1. CASE Invalid(iter, p)
  <2>1. UNCHANGED <<packets, iter, bufOff, offsets, placed, fault>>
    BY <1>1 DEF Seek
  <2>2. fault' \in {"none", "assert"}
    BY <2>1 DEF TInv
  <2> QED
    BY <2>1, <2>2, StandStill
<1>2. CASE ~Invalid(iter, p)
  <2> DEFINE it == SetTo(iter, p)
  <2>1. p \in iter.pos .. iter.end
    BY <1>2, BufferAssumption DEF Invalid, TInv, Laid
  <2>2. Reads(it, p)
    BY <2>1, SetToFacts DEF TInv
  <2>3. it # OutOfRange
    BY <2>2, InPlaceInRange DEF Reads
  <2>4. iter' = it /\ bufOff' = it.off /\ placed' = TRUE /\ UNCHANGED <<packets, offsets, fault>>
    BY <1>2, <2>3 DEF Seek
  <2> HIDE DEF it
  <2>8. iter'.pos = iter.pos /\ iter'.end = iter.end
    BY <2>2, <2>4 DEF Reads, InPlace
  <2>5. InPlace(iter') /\ Holds(iter') /\ iter'.buf \in Buffer /\ bufOff' \in 0 .. iter'.buf.size
    BY <2>2, <2>4 DEF Reads
  <2>6. iter'.pos2 + bufOff' \in iter.pos .. iter.end
    BY <2>1, <2>2, <2>4 DEF Reads
  <2>7. fault' \in {"none", "assert"}
    BY <2>4 DEF TInv
  <2> QED
    BY <2>4, <2>5, <2>6, <2>7, <2>8, Moved
<1> QED
  BY <1>1, <1>2

(* The three cases of ReadByte. *)
LEMMA ReadByteFacts ==
  ASSUME TInv, ReadByte
  PROVE  /\ iter'.pos2 + bufOff' = IF Position < iter.end THEN Position + 1 ELSE Position
         /\ result' = IF Position < iter.end THEN <<Position>> ELSE Eof
         /\ TInv' /\ iter'.pos = iter.pos /\ iter'.end = iter.end
<1>1. placed /\ UNCHANGED <<packets, offsets, placed>>
  BY DEF ReadByte
<1>2. /\ Reads([iter EXCEPT !.off = bufOff], Position)
      /\ iter.pos2 \in Int /\ Position \in Int /\ iter.buf.size \in Nat
      /\ iter.index1 <= Len(packets) =>
           iter.pos2 = iter.buf.from /\ iter.buf.from + iter.buf.size <= StartOf(iter.index1 + 1)
      /\ bufOff < iter.buf.size => iter.index1 <= Len(packets)
      /\ Position < iter.end => iter.index1 <= Len(packets)
  BY <1>1, ReaderFacts
<1>3. /\ Laid /\ InPlace(iter) /\ Holds(iter) /\ iter.buf \in Buffer /\ bufOff \in 0 .. iter.buf.size
      /\ iter.end \in Nat /\ iter.pos \in Nat /\ Position \in iter.pos .. iter.end
      /\ Position = iter.pos2 + bufOff /\ bufOff \in Nat
  BY <1>1, <1>2 DEF TInv, Laid, Position
<1>4. CASE bufOff < iter.buf.size
  <2>1. result' = <<iter.buf.from + bufOff>> /\ bufOff' = bufOff + 1 /\ UNCHANGED <<iter, fault>>
    BY <1>2, <1>3, <1>4 DEF ReadByte
  <2>2. iter.pos2 = iter.buf.from /\ iter.buf.from + iter.buf.size <= StartOf(iter.index1 + 1)
    BY <1>2, <1>4
  <2>3. StartOf(iter.index1 + 1) \in iter.pos .. iter.end
    <3>1. Len(packets) \in Nat /\ iter.index1 \in 1 .. Len(packets) + 1
      BY <1>3, StreamParts DEF InPlace
    <3>2. iter.index1 + 1 \in 1 .. Len(packets) + 1
      BY <1>2, <1>4, <3>1
    <3> QED
      BY <1>3, <3>2, StreamParts
  <2>4. Position < iter.end /\ iter.buf.from + bufOff = Position
    BY <1>2, <1>3, <1>4, <2>2, <2>3
  <2>5. iter'.pos2 + bufOff' = Position + 1
    BY <1>2, <1>3, <2>1
  <2>6. /\ InPlace(iter') /\ Holds(iter') /\ iter'.buf \in Buffer /\ bufOff' \in 0 .. iter'.buf.size
        /\ iter'.pos2 + bufOff' \in iter.pos .. iter.end
    BY <1>2, <1>3, <1>4, <2>1, <2>4, <2>5
  <2>7. TInv'
    BY <1>1, <2>1, <2>6, Moved DEF TInv
  <2> QED
    BY <2>1, <2>4, <2>5, <2>7
<1>5. CASE bufOff >= iter.buf.size /\ Position < iter.end
  <2> DEFINE it == Inc(iter)
  <2>1. bufOff = iter.buf.size
    BY <1>2, <1>3, <1>5
  <2>2. iter.buf.from + iter.buf.size = Position /\ iter.index1 <= Len(packets)
    BY <1>2, <1>3, <1>5, <2>1
  <2>3. Reads(it, Position) /\ it.off = 0 /\ it.index1 <= Len(packets) /\ it.buf.size # 0
    BY <1>3, <1>5, <2>2, IncFacts
  <2>4. it # OutOfRange
    BY <2>3, InPlaceInRange DEF Reads
  <2>5. iter' = it /\ bufOff' = 1 /\ result' = <<it.buf.from>> /\ UNCHANGED fault
    <3>1. ~(bufOff < iter.buf.size) /\ ~(iter.pos2 + bufOff >= iter.end)
      BY <1>2, <1>3, <1>5
    <3> QED
      BY <2>4, <3>1 DEF ReadByte
  <2> HIDE DEF it
  <2>6. it.buf.from = Position /\ it.pos2 = Position /\ it.buf.size \in Nat
    <3>1. it.buf \in Buffer /\ it.pos2 + it.off = Position
      BY <2>3 DEF Reads
    <3>2. it.buf.from + it.off = Position
      BY <1>3, <1>5, <2>3, ReadsBeforeEnd
    <3>3. it.pos2 = it.buf.from
      BY <2>3 DEF Reads, InPlace, Holds
    <3>4. it.buf.from \in Int /\ it.buf.size \in Nat
      BY <3>1 DEF Buffer
    <3> QED
      BY <2>3, <3>2, <3>3, <3>4
  <2>7. iter'.pos2 + bufOff' = Position + 1
    BY <2>5, <2>6
  <2>8. /\ InPlace(iter') /\ Holds(iter') /\ iter'.buf \in Buffer /\ bufOff' \in 0 .. iter'.buf.size
        /\ iter'.pos2 + bufOff' \in iter.pos .. iter.end
    BY <1>2, <1>3, <1>5, <2>3, <2>5, <2>6, <2>7 DEF Reads
  <2>9. TInv'
    BY <1>1, <2>5, <2>8, Moved DEF TInv
  <2>10. iter'.pos = iter.pos /\ iter'.end = iter.end
    BY <2>3, <2>5 DEF Reads, InPlace
  <2> QED
    BY <1>5, <2>5, <2>6, <2>7, <2>9, <2>10
<1>6. CASE bufOff >= iter.buf.size /\ ~(Position < iter.end)
  <2>1. result' = Eof /\ UNCHANGED <<iter, bufOff, fault>>
    <3>1. ~(bufOff < iter.buf.size) /\ ~(iter.pos2 + bufOff < iter.end)
      BY <1>2, <1>3, <1>6
    <3> QED
      BY <3>1 DEF ReadByte
  <2>2. fault' \in {"none", "assert"}
    BY <2>1 DEF TInv
  <2>3. TInv'
    BY <1>1, <2>1, <2>2, StandStill
  <2> QED
    BY <1>3, <1>6, <2>1, <2>3
<1>7. bufOff < iter.buf.size \/ bufOff >= iter.buf.size
  BY <1>2, <1>3
<1> QED
  BY <1>4, <1>5, <1>6, <1>7

----------------------------------------------------------------------------
(* What a packet that is put looks like. *)
NewPacket(shape, from) ==
  [i \in DOMAIN shape |-> [from |-> Starts(shape, from)[i], size |-> shape[i]]]

LEMMA PrefixSums ==
  ASSUME NEW ns \in Seq(Nat)
  PROVE  \E c : /\ c[1] = 0 /\ c[Len(ns) + 1] = Total(ns)
                /\ \A i \in 1 .. Len(ns) : c[i + 1] = c[i] + ns[i]
                /\ \A i \in 1 .. Len(ns) + 1 : c[i] \in Nat /\ Total(SubSeq(ns, 1, i - 1)) = c[i]
<1>1. Len(ns) \in Nat
  BY LenProperties
<1>2. PICK f : Sums(f, Len(ns), ns) /\ Total(ns) = f[Len(ns)]
  BY TotalIs
<1> DEFINE c == [k \in 1 .. Len(ns) + 1 |-> f[k - 1]]
<1>3. f[0] = 0 /\ \A i \in 0 .. Len(ns) : i # 0 => f[i] = f[i - 1] + ns[i]
  BY <1>1, <1>2, SumsAt
<1>4. c[1] = 0 /\ c[Len(ns) + 1] = Total(ns)
  BY <1>1, <1>2, <1>3
<1>5. \A k \in 1 .. Len(ns) : c[k + 1] = c[k] + ns[k]
  <2> TAKE k \in 1 .. Len(ns)
  <2>1. c[k + 1] = f[k] /\ c[k] = f[k - 1]
    BY <1>1
  <2>2. f[k] = f[k - 1] + ns[k]
    BY <1>1, <1>3
  <2> QED
    BY <2>1, <2>2
<1> HIDE DEF c
<1>6. \A i \in 1 .. Len(ns) + 1 : c[i] \in Int
  BY <1>4, <1>5, Telescope
<1>7. \A i \in 1 .. Len(ns) + 1 : Total(SubSeq(ns, 1, i - 1)) = c[i]
  <2> TAKE i \in 1 .. Len(ns) + 1
  <2>1. 1 \in 1 .. Len(ns) + 1 /\ i \in 1 .. Len(ns) + 1 /\ c[1] \in Int
    BY <1>1, <1>4
  <2>2. Total(SubSeq(ns, 1, i - 1)) = c[i] - c[1]
    BY <1>5, <2>1, TelescopePart
  <2> QED
    BY <1>4, <1>6, <2>2
<1>8. \A i \in 1 .. Len(ns) + 1 : c[i] \in Nat
  <2>1. ASSUME NEW i \in 1 .. Len(ns) PROVE c[i] <= c[i + 1]
    <3>1. i \in 1 .. Len(ns) + 1 /\ ns[i] \in Nat /\ c[i] \in Int
      BY <1>1, <1>6, ElementOfSeq
    <3> QED
      BY <1>5, <3>1
  <2>2. Len(ns) + 1 \in Nat /\ (Len(ns) + 1) - 1 = Len(ns)
    BY <1>1
  <2> TAKE i \in 1 .. Len(ns) + 1
  <2>3. 1 \in 1 .. Len(ns) + 1 /\ i \in 1 .. Len(ns) + 1
    BY <1>1
  <2>4. c[1] <= c[i]
    BY <1>6, <2>1, <2>2, <2>3, Rising
  <2> QED
    BY <1>4, <1>6, <2>4
<1> QED
  BY <1>4, <1>5, <1>7, <1>8

LEMMA NewPacketFacts ==
  ASSUME NEW shape \in Seq(Nat), shape # <<>>, NEW from \in Int
  PROVE  /\ Linked(NewPacket(shape, from))
         /\ NewPacket(shape, from)[1].from = from
         /\ Past(NewPacket(shape, from)) = from + Total(shape)
         /\ Total(shape) \in Nat
<1> DEFINE packet == NewPacket(shape, from)
<1>1. Len(shape) \in Nat \ {0} /\ DOMAIN shape = 1 .. Len(shape) /\ \A i \in 1 .. Len(shape) : shape[i] \in Nat
  BY LenProperties, EmptySeq, ElementOfSeq
<1>2. PICK c : /\ c[1] = 0 /\ c[Len(shape) + 1] = Total(shape)
               /\ \A i \in 1 .. Len(shape) : c[i + 1] = c[i] + shape[i]
               /\ \A i \in 1 .. Len(shape) + 1 : c[i] \in Nat /\ Total(SubSeq(shape, 1, i - 1)) = c[i]
  BY PrefixSums
<1>3. \A i \in 1 .. Len(shape) : Starts(shape, from)[i] = from + c[i]
  <2> TAKE i \in 1 .. Len(shape)
  <2>1. i \in 1 .. Len(shape) + 1
    BY <1>1
  <2>2. Total(SubSeq(shape, 1, i - 1)) = c[i]
    BY <1>2, <2>1
  <2> QED
    BY <1>1, <2>2 DEF Starts
<1>4. packet = [i \in 1 .. Len(shape) |-> [from |-> from + c[i], size |-> shape[i]]]
  BY <1>1, <1>3 DEF NewPacket
<1> HIDE DEF packet
<1>5. \A i \in 1 .. Len(shape) : /\ packet[i] = [from |-> from + c[i], size |-> shape[i]]
                                 /\ packet[i].from = from + c[i] /\ packet[i].size = shape[i]
                                 /\ packet[i] \in Buffer
  <2> TAKE i \in 1 .. Len(shape)
  <2>1. from + c[i] \in Int /\ shape[i] \in Nat
    BY <1>1, <1>2
  <2> QED
    BY <1>4, <2>1 DEF Buffer
<1>6. packet \in Seq(Buffer) /\ Len(packet) = Len(shape)
  BY <1>1, <1>4, <1>5
<1>7. packet # <<>>
  BY <1>1, <1>6, EmptySeq
<1>8. \A i \in 1 .. Len(packet) + 1 : At(packet, i) = from + c[i]
  <2> TAKE i \in 1 .. Len(packet) + 1
  <2>1. CASE i <= Len(packet)
    <3>1. i \in 1 .. Len(shape)
      BY <1>1, <1>6, <2>1
    <3>2. packet[i].from = from + c[i]
      BY <1>5, <3>1
    <3> QED
      BY <2>1, <3>2 DEF At
  <2>2. CASE ~(i <= Len(packet))
    <3>1. i = Len(shape) + 1 /\ Len(shape) \in 1 .. Len(shape) /\ Len(shape) \in 1 .. Len(shape) + 1
      BY <1>1, <1>6, <2>2
    <3>2. c[Len(shape) + 1] = c[Len(shape)] + shape[Len(shape)] /\ c[Len(shape)] \in Nat
      BY <1>2, <3>1
    <3>3. Past(packet) = (from + c[Len(shape)]) + shape[Len(shape)]
      BY <1>5, <1>6, <3>1 DEF Past
    <3> QED
      BY <1>1, <2>2, <3>1, <3>2, <3>3 DEF At
  <2> QED
    BY <2>1, <2>2
<1>9. \A j \in 1 .. Len(packet) : At(packet, j + 1) = packet[j].from + packet[j].size
  <2> TAKE j \in 1 .. Len(packet)
  <2>1. j + 1 \in 1 .. Len(packet) + 1 /\ j \in 1 .. Len(shape) /\ j \in 1 .. Len(shape) + 1
    BY <1>1, <1>6
  <2>2. At(packet, j + 1) = from + c[j + 1] /\ c[j + 1] = c[j] + shape[j] /\ c[j] \in Nat
    BY <1>2, <1>8, <2>1
  <2>3. packet[j].from = from + c[j] /\ packet[j].size = shape[j]
    BY <1>5, <2>1
  <2> QED
    BY <1>1, <2>1, <2>2, <2>3
<1>10. Past(packet) = At(packet, Len(packet) + 1)
  BY <1>1, <1>6 DEF At
<1>11. Past(packet) = from + Total(shape)
  <2>1. Len(packet) + 1 \in 1 .. Len(packet) + 1
    BY <1>1, <1>6
  <2> QED
    BY <1>2, <1>6, <1>8, <1>10, <2>1
<1>12. packet[1].from = from
  <2>1. 1 \in 1 .. Len(shape)
    BY <1>1
  <2>2. packet[1].from = from + c[1]
    BY <1>5, <2>1
  <2> QED
    BY <1>2, <2>2
<1>13. Total(shape) \in Nat
  <2>1. Len(shape) + 1 \in 1 .. Len(shape) + 1
    BY <1>1
  <2> QED
    BY <1>2, <2>1
<1> QED
  BY <1>6, <1>7, <1>9, <1>11, <1>12, <1>13 DEF Linked, packet

(* Put *)
LEMMA PutStep ==
  ASSUME TInv, NEW shape \in Shapes, Put(shape)
  PROVE  /\ TInv'
         /\ iter'.pos = iter.pos /\ iter'.pos2 = iter.pos2 /\ bufOff' = bufOff
         /\ iter'.end \in iter.end .. MaxBytes
<1> DEFINE packet == NewPacket(shape, iter.end)
           len == Len(packets)
<1>1. shape \in Seq(Nat) /\ shape # <<>>
  <2>1. shape \in Seq(0 .. MaxBytes) /\ shape # <<>>
    BY BufferAssumption
  <2>2. 0 .. MaxBytes \subseteq Nat
    OBVIOUS
  <2> QED
    BY <2>1, <2>2, SeqMonotonic
<1>2. Laid /\ InPlace(iter) /\ iter.end \in Nat /\ iter.pos \in Nat
  BY DEF TInv, Laid
<1>3. /\ Linked(packet) /\ packet[1].from = iter.end
      /\ Past(packet) = iter.end + Total(shape) /\ Total(shape) \in Nat
  <2>1. iter.end \in Int
    BY <1>2
  <2> QED
    BY <1>1, <2>1, NewPacketFacts
<1>4. packet \in Seq(Buffer) /\ Len(packet) \in Nat \ {0}
  BY <1>3, PacketParts DEF Linked
<1>5. /\ packets' = Append(packets, packet)
      /\ iter' = [iter EXCEPT !.end = @ + Total(shape)]
      /\ placed' = FALSE /\ UNCHANGED <<bufOff, offsets, fault>>
      /\ iter.end + Total(shape) <= MaxBytes
  BY DEF Put, NewPacket
<1> HIDE DEF packet
<1>6. DOMAIN iter = Fields
  BY <1>2 DEF InPlace
<1>7. /\ DOMAIN iter' = Fields /\ iter'.pos = iter.pos /\ iter'.end = iter.end + Total(shape)
      /\ iter'.index1 = iter.index1 /\ iter'.pos1 = iter.pos1 /\ iter'.index2 = iter.index2
      /\ iter'.pos2 = iter.pos2 /\ iter'.buf = iter.buf /\ iter'.off = iter.off
  BY <1>5, <1>6 DEF Fields
<1>8. packets \in Seq(Seq(Buffer)) /\ len \in Nat
  BY <1>2, StreamParts DEF Laid
<1>9. /\ packets' \in Seq(Seq(Buffer)) /\ Len(packets') = len + 1
      /\ \A k \in 1 .. len : packets'[k] = packets[k]
      /\ packets'[len + 1] = packet
  BY <1>4, <1>5, <1>8, AppendProperties
<1>10. \A k \in 1 .. len + 1 : StartOf(k)' = StartOf(k)
  <2> TAKE k \in 1 .. len + 1
  <2>1. CASE k \in 1 .. len
    BY <1>8, <1>9, <2>1 DEF StartOf
  <2>2. CASE k = len + 1
    BY <1>3, <1>8, <1>9, <2>2 DEF StartOf
  <2> QED
    BY <1>8, <2>1, <2>2
<1>11. \A k : k = len + 2 => StartOf(k)' = iter.end + Total(shape)
  BY <1>7, <1>8, <1>9 DEF StartOf
<1>12. Laid'
  <2>1. \A k \in 1 .. len + 1 : Linked(packets'[k]) /\ Past(packets'[k]) = StartOf(k + 1)'
    <3> TAKE k \in 1 .. len + 1
    <3>1. CASE k \in 1 .. len
      <4>1. Linked(packets[k]) /\ Past(packets[k]) = StartOf(k + 1)
        BY <1>2, <3>1 DEF Laid
      <4>2. k + 1 \in 1 .. len + 1
        BY <1>8, <3>1
      <4> QED
        BY <1>9, <1>10, <3>1, <4>1, <4>2
    <3>2. CASE k = len + 1
      <4>1. k + 1 = len + 2
        BY <1>8, <3>2
      <4>2. StartOf(k + 1)' = iter.end + Total(shape)
        BY <1>11, <4>1
      <4> QED
        BY <1>3, <1>9, <3>2, <4>2
    <3> QED
      BY <1>8, <3>1, <3>2
  <2>2. StartOf(1)' = iter'.pos
    <3>1. 1 \in 1 .. len + 1
      BY <1>8
    <3> QED
      BY <1>2, <1>7, <1>10, <3>1 DEF Laid
  <2>3. iter'.pos \in Nat /\ iter'.end \in Nat
    BY <1>2, <1>3, <1>7
  <2> QED
    BY <1>9, <2>1, <2>2, <2>3 DEF Laid
<1>13. InPlace(iter)'
  <2>1. iter.index1 \in 1 .. len + 1 /\ iter.pos1 = StartOf(iter.index1)
    BY <1>2 DEF InPlace
  <2>2. iter'.index1 \in 1 .. Len(packets') + 1 /\ iter'.pos1 = StartOf(iter.index1)'
    <3>1. PICK k \in 1 .. len + 1 : k = iter.index1
      BY <2>1
    <3>2. StartOf(k)' = StartOf(k) /\ iter'.index1 = k
      BY <1>7, <1>10, <3>1
    <3>3. StartOf(iter.index1)' = StartOf(k)'
      BY <3>2 DEF StartOf
    <3> QED
      BY <1>7, <1>8, <1>9, <2>1, <3>1, <3>2, <3>3
  <2>3. /\ iter'.index2 \in 1 .. Len(packets'[iter'.index1])
        /\ iter'.pos2 = packets'[iter'.index1][iter'.index2].from
    <3>1. CASE iter.index1 \in 1 .. len
      <4>1. iter.index2 \in 1 .. Len(packets[iter.index1]) /\ iter.pos2 = packets[iter.index1][iter.index2].from
        BY <1>2, <1>8, <3>1 DEF InPlace
      <4> QED
        BY <1>7, <1>9, <3>1, <4>1
    <3>2. CASE iter.index1 = len + 1
      <4>1. iter.index2 = 1 /\ iter.pos2 = iter.end
        BY <1>2, <3>2 DEF InPlace
      <4> QED
        BY <1>3, <1>4, <1>7, <1>9, <3>2, <4>1
    <3> QED
      BY <1>8, <2>1, <3>1, <3>2
  <2>4. iter'.index1 # Len(packets') + 1
    BY <1>7, <1>8, <1>9, <2>1
  <2> QED
    BY <1>7, <2>2, <2>3, <2>4 DEF InPlace
<1>14. Position' \in iter'.pos .. iter'.end
  BY <1>2, <1>3, <1>5, <1>7 DEF TInv, Position
<1>15. Kept'
  BY <1>2, <1>3, <1>5, <1>7 DEF TInv, Kept
<1>16. TInv'
  BY <1>5, <1>7, <1>12, <1>13, <1>14, <1>15 DEF TInv
<1> QED
  BY <1>2, <1>3, <1>5, <1>7, <1>16, BufferAssumption

----------------------------------------------------------------------------
(* Freeing what lies before the samples. *)
LEMMA EndsAtIs ==
  ASSUME Laid, NEW k \in 0 .. Len(packets)
  PROVE  EndsAt(k) = StartOf(k + 1)
<1>1. /\ Len(packets) \in Nat /\ DOMAIN packets = 1 .. Len(packets)
      /\ PacketSizes \in Seq(Nat) /\ Len(PacketSizes) = Len(packets)
  BY StreamParts
<1> DEFINE ns == [i \in 1 .. k |-> Size(packets[i])]
           part == SubSeq(PacketSizes, 1, (k + 1) - 1)
<1>2. \A i \in 1 .. Len(packets) : PacketSizes[i] = Size(packets[i]) /\ PacketSizes[i] \in Nat
  <2>1. \A i \in 1 .. Len(PacketSizes) : PacketSizes[i] \in Nat
    BY <1>1, ElementOfSeq
  <2> QED
    BY <1>1, <2>1 DEF PacketSizes
<1>3. k \in Nat /\ (k + 1) - 1 = k /\ \A i \in 1 .. k : i \in 1 .. Len(packets) /\ 1 + i - 1 = i
  BY <1>1
<1>4. ns \in Seq(Nat) /\ Len(ns) = k /\ \A i \in 1 .. k : ns[i] = PacketSizes[i]
  BY <1>2, <1>3
<1>5. part \in Seq(Nat) /\ Len(part) = k /\ \A i \in 1 .. k : part[i] = PacketSizes[i]
  <2>1. \A i \in 1 .. k : PacketSizes[i] \in Nat
    BY <1>2, <1>3
  <2>2. /\ SubSeq(PacketSizes, 1, k) \in Seq(Nat)
        /\ Len(SubSeq(PacketSizes, 1, k)) = IF 1 <= k THEN k - 1 + 1 ELSE 0
        /\ \A i \in 1 .. k - 1 + 1 : SubSeq(PacketSizes, 1, k)[i] = PacketSizes[1 + i - 1]
    BY <1>3, <2>1, SubSeqProperties
  <2> QED
    BY <1>3, <2>2
<1> HIDE DEF ns, part
<1>6. ns = part
  BY <1>4, <1>5, SeqEqual
<1>7. Total(part) = StartOf(k + 1) - StartOf(1)
  <2>1. 1 \in 1 .. Len(packets) + 1 /\ k + 1 \in 1 .. Len(packets) + 1
    BY <1>1, <1>3
  <2> QED
    BY <2>1, StreamParts DEF part
<1>8. StartOf(1) = iter.pos /\ iter.pos \in Int /\ StartOf(k + 1) \in Int
  <2>1. k + 1 \in 1 .. Len(packets) + 1
    BY <1>1, <1>3
  <2> QED
    BY <2>1, StreamParts DEF Laid
<1>9. EndsAt(k) = iter.pos + Total(ns)
  BY DEF EndsAt, ns
<1> QED
  BY <1>6, <1>7, <1>8, <1>9

(* The offsets there are. *)
Offsets(offs) == {offs[u] : u \in {v \in Tracks : offs[v] # -1}}

LEMMA FreedFacts ==
  ASSUME Laid, NEW offs, NEW t \in Tracks, offs[t] < iter.end,
         offs[t] \in iter.pos .. iter.end,
         \A u \in Tracks : offs[u] = -1 \/ offs[u] \in iter.pos .. iter.end
  PROVE  /\ Freed(offs) \in 0 .. Len(packets) - 1
         /\ \A u \in Tracks : offs[u] # -1 => StartOf(Freed(offs) + 1) <= offs[u]
<1> DEFINE S == Offsets(offs)
<1>1. /\ Len(packets) \in Nat /\ DOMAIN packets = 1 .. Len(packets)
      /\ iter.pos \in Nat /\ iter.end \in Nat /\ StartOf(Len(packets) + 1) = iter.end
      /\ StartOf(1) = iter.pos
  BY StreamParts DEF Laid
<1>2. S \in SUBSET Nat /\ offs[t] \in S /\ \A x \in S : x \in iter.pos .. iter.end
  BY <1>1 DEF Offsets
<1> HIDE DEF S
<1>3. PICK low \in S : \A x \in S : low <= x
  BY <1>2, LeastNumber
<1>4. Min(S) = low
  <2>1. S \in SUBSET Int
    BY <1>2
  <2> QED
    BY <1>3, <2>1, LeastIs
<1>5. low \in iter.pos .. iter.end /\ low < iter.end /\ low \in Nat
  BY <1>1, <1>2, <1>3
<1>6. \A k \in 1 .. Len(packets) + 1 : StartOf(k) \in Nat
  <2> TAKE k \in 1 .. Len(packets) + 1
  <2>1. StartOf(k) \in iter.pos .. iter.end
    BY StreamParts
  <2> QED
    BY <1>1, <2>1
<1> DEFINE L == {m \in Nat : m < Len(packets) /\ low < StartOf(m + 2)}
<1>7. Len(packets) - 1 \in L
  <2>1. Len(packets) # 0
    BY <1>1, <1>5
  <2>2. (Len(packets) - 1) + 2 = Len(packets) + 1 /\ Len(packets) - 1 \in Nat
    BY <1>1, <2>1
  <2> QED
    BY <1>1, <1>5, <2>2
<1>8. PICK n \in L : \A m \in L : n <= m
  <2>1. L \in SUBSET Nat
    OBVIOUS
  <2> QED
    BY <1>7, <2>1, LeastNumber
<1>9. n \in Nat /\ n < Len(packets) /\ low < StartOf(n + 2) /\ n \in 0 .. Len(packets) - 1
  BY <1>1, <1>8
<1>10. \A k \in 1 .. Len(packets) : EndsAt(k) <= low <=> k \in 1 .. n
  <2> TAKE k \in 1 .. Len(packets)
  <2>1. EndsAt(k) = StartOf(k + 1) /\ k + 1 \in 1 .. Len(packets) + 1
    <3>1. k \in 0 .. Len(packets) /\ k + 1 \in 1 .. Len(packets) + 1
      BY <1>1
    <3> QED
      BY <3>1, EndsAtIs
  <2>2. StartOf(k + 1) \in Nat
    BY <1>6, <2>1
  <2>3. CASE k \in 1 .. n
    <3>1. k - 1 \in Nat /\ k - 1 < n /\ (k - 1) + 2 = k + 1 /\ k - 1 < Len(packets)
      BY <1>9, <2>3
    <3>2. k - 1 \notin L
      BY <1>8, <1>9, <3>1
    <3>3. ~(low < StartOf(k + 1))
      BY <3>1, <3>2
    <3> QED
      BY <1>5, <2>1, <2>2, <2>3, <3>3
  <2>4. CASE k \notin 1 .. n
    <3>1. n + 2 \in 1 .. Len(packets) + 1 /\ k + 1 \in n + 2 .. Len(packets) + 1
      BY <1>1, <1>9, <2>4
    <3>2. StartOf(n + 2) <= StartOf(k + 1) /\ StartOf(n + 2) \in Nat
      BY <1>6, <3>1, StreamParts
    <3> QED
      BY <1>5, <1>9, <2>1, <2>2, <2>4, <3>2
  <2> QED
    BY <2>3, <2>4
<1> HIDE DEF L
<1>11. Freed(offs) = Cardinality({k \in DOMAIN packets : EndsAt(k) <= low})
  BY <1>4 DEF Freed, S, Offsets
<1>12. {k \in DOMAIN packets : EndsAt(k) <= low} = 1 .. n
  <2>1. \A k \in 1 .. n : k \in 1 .. Len(packets)
    BY <1>1, <1>9
  <2> QED
    BY <1>1, <1>10, <2>1
<1>13. Freed(offs) = n
  <2>1. Cardinality(1 .. n) = n
    BY <1>9, FS_Interval
  <2> QED
    BY <1>11, <1>12, <2>1
<1>14. StartOf(n + 1) <= low
  <2>1. CASE n = 0
    BY <1>1, <1>5, <2>1
  <2>2. CASE n # 0
    <3>1. n \in 1 .. n /\ n \in 1 .. Len(packets) /\ n \in 0 .. Len(packets)
      BY <1>1, <1>9, <2>2
    <3> QED
      BY <1>10, <3>1, EndsAtIs
  <2> QED
    BY <2>1, <2>2
<1>15. \A u \in Tracks : offs[u] # -1 => StartOf(n + 1) <= offs[u]
  <2> SUFFICES ASSUME NEW u \in Tracks, offs[u] # -1 PROVE StartOf(n + 1) <= offs[u]
    OBVIOUS
  <2>1. offs[u] \in S
    BY DEF S, Offsets
  <2>2. n + 1 \in 1 .. Len(packets) + 1
    BY <1>1, <1>9
  <2>3. StartOf(n + 1) \in Nat /\ offs[u] \in Nat /\ low <= offs[u]
    BY <1>2, <1>3, <1>6, <2>1, <2>2
  <2> QED
    BY <1>5, <1>14, <2>3
<1> QED
  BY <1>9, <1>13, <1>15

(* drop, for packets that end before the reader. *)
LEMMA DropFacts ==
  ASSUME TInv, placed, NEW n \in 0 .. Len(packets) - 1, StartOf(n + 1) < Position,
         packets' = SubSeq(packets, n + 1, Len(packets)), iter' = Drop(n),
         bufOff' = bufOff, placed' = placed, fault' = fault,
         NEW offs \in [Tracks -> Int], offsets' = offs,
         \A u \in Tracks : offs[u] = -1 \/ offs[u] \in StartOf(n + 1) .. iter.end
  PROVE  /\ TInv'
         /\ iter'.pos = StartOf(n + 1) /\ StartOf(n + 1) \in iter.pos .. iter.end
         /\ iter'.end = iter.end /\ iter'.pos2 = iter.pos2
<1> DEFINE len == Len(packets)
<1>1. /\ Laid /\ InPlace(iter) /\ Holds(iter) /\ iter.buf \in Buffer /\ bufOff \in 0 .. iter.buf.size
      /\ Position \in iter.pos .. iter.end /\ iter.pos \in Nat /\ iter.end \in Nat /\ DOMAIN iter = Fields
  BY DEF TInv, Laid, InPlace
<1>2. len \in Nat /\ packets \in Seq(Seq(Buffer)) /\ iter.index1 \in 1 .. len + 1
  BY <1>1, StreamParts DEF InPlace, Laid
<1>3. n \in Nat /\ n < len /\ n + 1 \in 1 .. len + 1
  BY <1>2
<1>4. StartOf(n + 1) \in iter.pos .. iter.end
  BY <1>1, <1>3, StreamParts
<1>5. /\ packets' \in Seq(Seq(Buffer)) /\ Len(packets') = len - n
      /\ \A k \in 1 .. len - n : packets'[k] = packets[k + n]
  <2>1. \A i \in n + 1 .. len : packets[i] \in Seq(Buffer)
    <3> TAKE i \in n + 1 .. len
    <3>1. i \in 1 .. len
      BY <1>2, <1>3
    <3> QED
      BY <1>2, <3>1, ElementOfSeq
  <2>2. n + 1 \in Int /\ len \in Int /\ n + 1 <= len
    BY <1>2, <1>3
  <2>3. /\ SubSeq(packets, n + 1, len) \in Seq(Seq(Buffer))
        /\ Len(SubSeq(packets, n + 1, len)) = len - (n + 1) + 1
        /\ \A i \in 1 .. len - (n + 1) + 1 : SubSeq(packets, n + 1, len)[i] = packets[(n + 1) + i - 1]
    BY <2>1, <2>2, SubSeqProperties
  <2>4. len - (n + 1) + 1 = len - n /\ \A i \in 1 .. len - n : (n + 1) + i - 1 = i + n
    BY <1>2, <1>3
  <2> QED
    BY <2>3, <2>4
<1>6. EndsAt(n) = StartOf(n + 1)
  <2>1. n \in 0 .. len
    BY <1>2, <1>3
  <2> QED
    BY <1>1, <2>1, EndsAtIs
<1>7. /\ DOMAIN iter' = Fields /\ iter'.pos = StartOf(n + 1) /\ iter'.end = iter.end
      /\ iter'.index1 = iter.index1 - n /\ iter'.pos1 = iter.pos1 /\ iter'.index2 = iter.index2
      /\ iter'.pos2 = iter.pos2 /\ iter'.buf = iter.buf /\ iter'.off = iter.off
  BY <1>1, <1>6 DEF Drop, Fields
<1>8. n < iter.index1
  <2>1. CASE iter.index1 = len + 1
    BY <1>2, <1>3, <2>1
  <2>2. CASE iter.index1 \in 1 .. len
    <3>1. iter.pos2 = iter.buf.from /\ iter.buf.from + iter.buf.size <= StartOf(iter.index1 + 1)
      BY <1>2, <2>2, ReaderFacts
    <3>2. iter.index1 + 1 \in 1 .. len + 1
      BY <1>2, <2>2
    <3>3. StartOf(iter.index1 + 1) \in iter.pos .. iter.end
      BY <1>1, <3>2, StreamParts
    <3>4. Position <= StartOf(iter.index1 + 1)
      <4>1. iter.buf.from \in Int /\ iter.buf.size \in Nat /\ Position = iter.buf.from + bufOff
        BY <1>1, <3>1 DEF Buffer, Position
      <4> QED
        BY <1>1, <3>1, <3>3, <4>1
    <3>5. StartOf(n + 1) < StartOf(iter.index1 + 1)
      BY <1>1, <1>4, <3>3, <3>4
    <3>6. ~(n + 1 \in iter.index1 + 1 .. len + 1)
      <4>1. n + 1 \in iter.index1 + 1 .. len + 1 => StartOf(iter.index1 + 1) <= StartOf(n + 1)
        BY <1>1, <3>2, StreamParts
      <4> QED
        BY <1>1, <1>4, <3>3, <3>5, <4>1
    <3> QED
      BY <1>2, <1>3, <2>2, <3>6
  <2> QED
    BY <1>2, <2>1, <2>2
<1>9. \A k \in 1 .. len - n + 1 : StartOf(k)' = StartOf(k + n)
  <2> TAKE k \in 1 .. len - n + 1
  <2>1. CASE k \in 1 .. len - n
    <3>1. k <= Len(packets') /\ k + n <= len
      BY <1>2, <1>3, <1>5, <2>1
    <3> QED
      BY <1>5, <2>1, <3>1 DEF StartOf
  <2>2. CASE k = len - n + 1
    <3>1. ~(k <= Len(packets')) /\ ~(k + n <= len)
      BY <1>2, <1>3, <1>5, <2>2
    <3> QED
      BY <1>7, <3>1 DEF StartOf
  <2>3. k \in 1 .. len - n \/ k = len - n + 1
    <3>1. len - n \in Nat
      BY <1>2, <1>3
    <3>2. \A m \in Nat : \A i \in 1 .. m + 1 : i \in 1 .. m \/ i = m + 1
      OBVIOUS
    <3> QED
      BY <3>1, <3>2
  <2> QED
    BY <2>1, <2>2, <2>3
<1>10. Laid'
  <2>1. \A k \in 1 .. len - n : Linked(packets'[k]) /\ Past(packets'[k]) = StartOf(k + 1)'
    <3> TAKE k \in 1 .. len - n
    <3>1. k + n \in 1 .. len /\ k + 1 \in 1 .. len - n + 1 /\ (k + 1) + n = (k + n) + 1
      BY <1>2, <1>3
    <3>2. Linked(packets[k + n]) /\ Past(packets[k + n]) = StartOf((k + n) + 1)
      BY <1>1, <3>1 DEF Laid
    <3>3. StartOf(k + 1)' = StartOf((k + n) + 1)
      BY <1>9, <3>1
    <3> QED
      BY <1>5, <3>2, <3>3
  <2>2. StartOf(1)' = iter'.pos
    <3>1. 1 \in 1 .. len - n + 1 /\ 1 + n = n + 1
      BY <1>2, <1>3
    <3> QED
      BY <1>7, <1>9, <3>1
  <2>3. iter'.pos \in Nat /\ iter'.end \in Nat
    BY <1>1, <1>4, <1>7
  <2> QED
    BY <1>5, <2>1, <2>2, <2>3 DEF Laid
<1>11. iter'.index1 \in 1 .. Len(packets') + 1 /\ iter.index1 = iter'.index1 + n
  BY <1>2, <1>3, <1>5, <1>7, <1>8
<1>12. iter'.pos1 = StartOf(iter.index1)'
  <2>1. PICK k \in 1 .. len - n + 1 : k = iter'.index1
    BY <1>5, <1>11
  <2>2. StartOf(k)' = StartOf(k + n) /\ k + n = iter.index1
    BY <1>9, <1>11, <2>1
  <2>3. iter'.pos1 = StartOf(iter.index1)
    BY <1>1, <1>7 DEF InPlace
  <2>4. StartOf(iter.index1)' = StartOf(k)'
    BY <2>1 DEF StartOf
  <2> QED
    BY <2>2, <2>3, <2>4
<1>13. /\ iter'.index1 <= Len(packets') => iter.index1 <= len
       /\ iter'.index1 <= Len(packets') => packets'[iter'.index1] = packets[iter.index1]
       /\ ~(iter'.index1 <= Len(packets')) => ~(iter.index1 <= len)
       /\ iter'.index1 = Len(packets') + 1 => iter.index1 = len + 1
  <2>1. iter'.index1 <= Len(packets') => iter'.index1 \in 1 .. len - n
    BY <1>2, <1>3, <1>5, <1>11
  <2>2. iter'.index1 <= Len(packets') => packets'[iter'.index1] = packets[iter.index1]
    BY <1>5, <1>11, <2>1
  <2>3. Len(packets') = len - n /\ iter.index1 \in Int /\ iter'.index1 = iter.index1 - n
    BY <1>2, <1>5, <1>7
  <2>4. /\ iter'.index1 <= Len(packets') <=> iter.index1 <= len
        /\ iter'.index1 = Len(packets') + 1 <=> iter.index1 = len + 1
    <3>1. \A i, l, m \in Int : (i - m <= l - m <=> i <= l) /\ (i - m = (l - m) + 1 <=> i = l + 1)
      OBVIOUS
    <3>2. len \in Int /\ n \in Int
      BY <1>2, <1>3
    <3> HIDE DEF len
    <3>3. /\ iter.index1 - n <= len - n <=> iter.index1 <= len
          /\ iter.index1 - n = (len - n) + 1 <=> iter.index1 = len + 1
      BY <2>3, <3>1, <3>2
    <3> QED
      BY <2>3, <3>3, Zenon
  <2> QED
    BY <2>2, <2>4
<1>14. InPlace(iter)'
  <2>1. iter'.index1 <= Len(packets') =>
          /\ iter'.index2 \in 1 .. Len(packets'[iter'.index1])
          /\ iter'.pos2 = packets'[iter'.index1][iter'.index2].from
    BY <1>1, <1>7, <1>13 DEF InPlace
  <2>2. iter'.index1 = Len(packets') + 1 => iter'.index2 = 1 /\ iter'.pos2 = iter'.end
    BY <1>1, <1>7, <1>13 DEF InPlace
  <2> QED
    BY <1>7, <1>11, <1>12, <2>1, <2>2 DEF InPlace
<1>15. Holds(iter)'
  BY <1>1, <1>7, <1>13 DEF Holds
<1>16. Position' \in iter'.pos .. iter'.end
  <2>1. Position' = Position
    BY <1>7 DEF Position
  <2> QED
    BY <1>1, <1>4, <1>7, <2>1
<1>17. Kept'
  BY <1>7 DEF Kept
<1>18. TInv'
  BY <1>1, <1>7, <1>10, <1>14, <1>15, <1>16, <1>17 DEF TInv
<1> QED
  BY <1>4, <1>7, <1>18

----------------------------------------------------------------------------
(* A block of a sample: the demuxer has read to its end, and it does not    *)
(* begin before the last sample of its track.                               *)
Seen(b, t) ==
  /\ b \in [at : Nat, size : Nat] /\ b.size # 0
  /\ offsets[t] <= b.at
  /\ b.at + b.size <= Position

LEMMA BlocksAre ==
  ASSUME NEW first \in Nat, NEW last \in Nat, NEW b \in Blocks(first, last)
  PROVE  b \in [at : Nat, size : Nat] /\ b.size # 0 /\ first <= b.at /\ b.at + b.size <= last
<1>1. PICK x \in (first .. last) \X (first .. last) : x[1] < x[2] /\ b = [at |-> x[1], size |-> x[2] - x[1]]
  BY DEF Blocks
<1>2. x[1] \in first .. last /\ x[2] \in first .. last /\ x[1] < x[2]
  BY <1>1
<1>3. b.at = x[1] /\ b.size = x[2] - x[1]
  BY <1>1
<1>4. b.at \in Nat /\ b.size \in Nat /\ b.size # 0
  BY <1>2, <1>3
<1> QED
  BY <1>1, <1>2, <1>3, <1>4

LEMMA MayReturnFacts ==
  ASSUME TInv, NEW t \in Tracks, NEW blocks \in MayReturn(t)
  PROVE  \/ \E b : Seen(b, t) /\ blocks = <<b>>
         \/ \E b1, b2 : Seen(b1, t) /\ Seen(b2, t) /\ blocks = <<b1, b2>>
<1> DEFINE first == Max({0, offsets[t]})
           bs == Blocks(first, Position)
<1>1. first \in Nat /\ offsets[t] <= first
  <2>1. offsets[t] \in Int
    BY DEF TInv
  <2> DEFINE m == IF offsets[t] <= 0 THEN 0 ELSE offsets[t]
  <2>2. m \in {0, offsets[t]} /\ \A x \in {0, offsets[t]} : x <= m
    BY <2>1
  <2>3. first = m
    <3>1. \A x \in {0, offsets[t]} : (\A y \in {0, offsets[t]} : x >= y) => x = m
      BY <2>1, <2>2
    <3>2. \A y \in {0, offsets[t]} : m >= y
      BY <2>1, <2>2
    <3> HIDE DEF m
    <3> QED
      BY <2>2, <3>1, <3>2 DEF Max
  <2> QED
    BY <2>1, <2>3
<1>2. Position \in Nat /\ offsets[t] \in Int
  BY DEF TInv, Laid
<1> HIDE DEF first
<1>3. \A b \in bs : Seen(b, t)
  <2> TAKE b \in bs
  <2>1. b \in [at : Nat, size : Nat] /\ b.size # 0 /\ first <= b.at /\ b.at + b.size <= Position
    BY <1>1, <1>2, BlocksAre
  <2>2. offsets[t] <= b.at
    BY <1>1, <1>2, <2>1
  <2> QED
    BY <2>1, <2>2 DEF Seen
<1>4. \/ blocks \in {<<b>> : b \in bs}
      \/ blocks \in {<<x[1], x[2]>> : x \in {y \in bs \X bs : y[1].at + y[1].size <= y[2].at}}
  BY DEF MayReturn, first
<1> HIDE DEF bs
<1>5. CASE blocks \in {<<b>> : b \in bs}
  BY <1>3, <1>5
<1>6. CASE blocks \in {<<x[1], x[2]>> : x \in {y \in bs \X bs : y[1].at + y[1].size <= y[2].at}}
  <2>1. PICK x \in bs \X bs : blocks = <<x[1], x[2]>>
    BY <1>6
  <2>2. x[1] \in bs /\ x[2] \in bs
    OBVIOUS
  <2> QED
    BY <1>3, <2>1, <2>2
<1> QED
  BY <1>4, <1>5, <1>6

(* A sample is taken whole or refused. *)
LEMMA SampleFacts ==
  ASSUME TInv, NEW t \in Tracks, placed, fault = "none", NEW blocks \in MayReturn(t),
         TakeSample(t, blocks)
  PROVE  /\ TInv' /\ Position' = Position /\ iter'.end = iter.end
         /\ asked' = [track |-> t, blocks |-> blocks] /\ asked' # NoData
         /\ \/ /\ fault' = "assert" /\ offsets[t] = -1
               /\ \E i \in DOMAIN blocks : blocks[i].at < iter.pos
               /\ result' = NoData /\ UNCHANGED <<iter, offsets>>
            \/ /\ fault' = "none"
               /\ \A i \in DOMAIN blocks : blocks[i].at >= iter.pos /\ blocks[i].at + blocks[i].size <= iter.end
               /\ result' = Stream!BytesOf(blocks)
               /\ offsets' = [offsets EXCEPT ![t] = blocks[1].at]
               /\ iter'.pos \in iter.pos .. iter.end
               /\ \A u \in Tracks : offsets'[u] # -1 => iter'.pos <= offsets'[u]
<1>1. /\ Laid /\ InPlace(iter) /\ Position \in iter.pos .. iter.end /\ offsets \in [Tracks -> Int] /\ Kept
      /\ iter.pos \in Nat /\ iter.end \in Nat
  BY DEF TInv, Laid
<1>2. \/ \E b : Seen(b, t) /\ blocks = <<b>>
      \/ \E b1, b2 : Seen(b1, t) /\ Seen(b2, t) /\ blocks = <<b1, b2>>
  BY MayReturnFacts
<1>3. /\ blocks \in Seq([at : Nat, size : Nat])
      /\ 1 \in DOMAIN blocks
      /\ \A i \in DOMAIN blocks : Seen(blocks[i], t)
  <2>1. ASSUME NEW b, Seen(b, t), blocks = <<b>>
        PROVE  /\ blocks \in Seq([at : Nat, size : Nat])
               /\ 1 \in DOMAIN blocks
               /\ \A i \in DOMAIN blocks : Seen(blocks[i], t)
    <3>1. b \in [at : Nat, size : Nat]
      BY <2>1 DEF Seen
    <3>2. DOMAIN blocks = 1 .. 1 /\ blocks[1] = b
      BY <2>1
    <3> QED
      BY <2>1, <3>1, <3>2
  <2>2. ASSUME NEW b1, NEW b2, Seen(b1, t), Seen(b2, t), blocks = <<b1, b2>>
        PROVE  /\ blocks \in Seq([at : Nat, size : Nat])
               /\ 1 \in DOMAIN blocks
               /\ \A i \in DOMAIN blocks : Seen(blocks[i], t)
    <3>1. b1 \in [at : Nat, size : Nat] /\ b2 \in [at : Nat, size : Nat]
      BY <2>2 DEF Seen
    <3>2. DOMAIN blocks = 1 .. 2 /\ blocks[1] = b1 /\ blocks[2] = b2
      BY <2>2
    <3> QED
      BY <2>2, <3>1, <3>2
  <2> QED
    BY <1>2, <2>1, <2>2
<1>4. asked' = [track |-> t, blocks |-> blocks] /\ UNCHANGED <<bufOff, placed>>
  BY DEF TakeSample
<1>5. asked' # NoData
  BY <1>3, <1>4, BufferAssumption
<1>6. \A i \in DOMAIN blocks :
        /\ blocks[i].at \in Nat /\ blocks[i].size \in Nat \ {0} /\ offsets[t] <= blocks[i].at
        /\ blocks[i].at < Position /\ blocks[i].at + blocks[i].size <= iter.end
  <2> TAKE i \in DOMAIN blocks
  <2>1. blocks[i] \in [at : Nat, size : Nat] /\ blocks[i].size # 0 /\ offsets[t] <= blocks[i].at
        /\ blocks[i].at + blocks[i].size <= Position
    BY <1>3 DEF Seen
  <2>2. blocks[i].at \in Nat /\ blocks[i].size \in Nat
    BY <2>1
  <2> QED
    BY <1>1, <2>1, <2>2
<1>7. CASE \E i \in DOMAIN blocks : Invalid(iter, blocks[i].at)
  <2>1. PICK i \in DOMAIN blocks : Invalid(iter, blocks[i].at)
    BY <1>7
  <2>2. blocks[i].at < iter.pos
    BY <1>1, <1>6, <2>1 DEF Invalid
  <2>3. offsets[t] = -1
    <3>1. ~(offsets[t] \in iter.pos .. iter.end)
      BY <1>1, <1>6, <2>2
    <3> QED
      BY <1>1, <3>1 DEF Kept
  <2>4. fault' = "assert" /\ result' = NoData /\ UNCHANGED <<packets, iter, offsets>>
    BY <1>7 DEF TakeSample
  <2>5. TInv'
    BY <1>4, <2>4, StandStill
  <2>6. Position' = Position
    BY <1>4, <2>4 DEF Position
  <2> QED
    BY <1>4, <1>5, <2>2, <2>3, <2>4, <2>5, <2>6
<1>8. CASE \A i \in DOMAIN blocks : ~Invalid(iter, blocks[i].at)
  <2>1. \A i \in DOMAIN blocks : Kept1(blocks[i])
    <3> TAKE i \in DOMAIN blocks
    <3>1. blocks[i].at \in iter.pos .. iter.end
      BY <1>1, <1>6, <1>8 DEF Invalid
    <3> QED
      BY <1>6, <3>1 DEF Kept1
  <2>2. InPlace(Gather(blocks).it) /\ Gather(blocks).got = Stream!BytesOf(blocks)
    <3>1. ASSUME NEW b, blocks = <<b>>
          PROVE  InPlace(Gather(blocks).it) /\ Gather(blocks).got = Stream!BytesOf(blocks)
      <4>1. 1 \in DOMAIN blocks /\ blocks[1] = b
        BY <3>1
      <4>2. Kept1(b)
        BY <2>1, <4>1
      <4> QED
        BY <1>1, <3>1, <4>2, GatherOne
    <3>2. ASSUME NEW b1, NEW b2, blocks = <<b1, b2>>
          PROVE  InPlace(Gather(blocks).it) /\ Gather(blocks).got = Stream!BytesOf(blocks)
      <4>1. 1 \in DOMAIN blocks /\ blocks[1] = b1 /\ 2 \in DOMAIN blocks /\ blocks[2] = b2
        BY <3>2
      <4>2. Kept1(b1) /\ Kept1(b2)
        BY <2>1, <4>1
      <4> QED
        BY <1>1, <3>2, <4>2, GatherTwo
    <3> QED
      BY <1>2, <3>1, <3>2
  <2>3. Gather(blocks).it # OutOfRange
    BY <2>2, InPlaceInRange
  <2> DEFINE offs == [offsets EXCEPT ![t] = blocks[1].at]
  <2>4. /\ result' = Gather(blocks).got /\ offsets' = offs
        /\ packets' = SubSeq(packets, Freed(offs) + 1, Len(packets))
        /\ iter' = Drop(Freed(offs)) /\ UNCHANGED fault
    BY <1>8, <2>3 DEF TakeSample
  <2>5. /\ offs \in [Tracks -> Int] /\ offs[t] = blocks[1].at
        /\ \A u \in Tracks : u # t => offs[u] = offsets[u]
    BY <1>1, <1>3, <1>6
  <2> HIDE DEF offs
  <2>6. offs[t] \in iter.pos .. iter.end /\ offs[t] < Position /\ offs[t] # -1 /\ offs[t] < iter.end
    BY <1>1, <1>3, <1>6, <2>1, <2>5 DEF Kept1
  <2>7. \A u \in Tracks : offs[u] = -1 \/ offs[u] \in iter.pos .. iter.end
    BY <1>1, <2>5, <2>6 DEF Kept
  <2>8. PICK o \in [Tracks -> Int] : o = offs
    BY <2>5
  <2>9. PICK n : n = Freed(o)
    OBVIOUS
  <2>10. n \in 0 .. Len(packets) - 1 /\ \A u \in Tracks : o[u] # -1 => StartOf(n + 1) <= o[u]
    BY <1>1, <2>6, <2>7, <2>8, <2>9, FreedFacts
  <2>11. StartOf(n + 1) \in iter.pos .. iter.end
    <3>1. n + 1 \in 1 .. Len(packets) + 1
      BY <1>1, <2>10, StreamParts
    <3> QED
      BY <1>1, <3>1, StreamParts
  <2>12. \A u \in Tracks : o[u] = -1 \/ o[u] \in StartOf(n + 1) .. iter.end
    <3> TAKE u \in Tracks
    <3>1. o[u] = -1 \/ o[u] \in iter.pos .. iter.end
      BY <2>7, <2>8
    <3>2. o[u] # -1 => StartOf(n + 1) <= o[u]
      BY <2>10
    <3> QED
      BY <1>1, <2>11, <3>1, <3>2
  <2>13. StartOf(n + 1) < Position
    <3>1. StartOf(n + 1) <= o[t] /\ o[t] < Position /\ o[t] \in Int
      BY <2>6, <2>8, <2>10
    <3> QED
      BY <1>1, <2>11, <3>1
  <2>14. packets' = SubSeq(packets, n + 1, Len(packets)) /\ iter' = Drop(n) /\ offsets' = o
    BY <2>4, <2>8, <2>9
  <2>15. /\ TInv' /\ iter'.pos = StartOf(n + 1) /\ iter'.end = iter.end /\ iter'.pos2 = iter.pos2
    BY <1>4, <2>4, <2>10, <2>12, <2>13, <2>14, DropFacts
  <2>16. Position' = Position
    BY <1>4, <2>15 DEF Position
  <2>17. \A u \in Tracks : offsets'[u] # -1 => iter'.pos <= offsets'[u]
    BY <2>10, <2>14, <2>15
  <2>18. \A i \in DOMAIN blocks : blocks[i].at >= iter.pos /\ blocks[i].at + blocks[i].size <= iter.end
    BY <1>1, <1>6, <2>1 DEF Kept1
  <2>19. fault' = "none" /\ result' = Stream!BytesOf(blocks) /\ iter'.pos \in iter.pos .. iter.end
    BY <2>2, <2>4, <2>11, <2>15
  <2>20. offsets' = [offsets EXCEPT ![t] = blocks[1].at]
    BY <2>4 DEF offs
  <2> QED
    BY <1>4, <1>5, <2>15, <2>16, <2>17, <2>18, <2>19, <2>20
<1> QED
  BY <1>7, <1>8

----------------------------------------------------------------------------
(* The invariant. *)
LEMMA TInvInit == Init => TInv
<1> SUFFICES ASSUME Init PROVE TInv
  OBVIOUS
<1>1. /\ packets = <<>> /\ bufOff = 0 /\ offsets = [t \in Tracks |-> -1] /\ placed = FALSE
      /\ fault = "none"
  BY DEF Init
<1>2. /\ iter.pos = 0 /\ iter.end = 0 /\ iter.index1 = 1 /\ iter.pos1 = 0 /\ iter.index2 = 1
      /\ iter.pos2 = 0 /\ iter.buf = [from |-> -1, size |-> 0] /\ DOMAIN iter = Fields
  BY DEF Init, NoBuf, Fields
<1>3. Len(packets) = 0 /\ packets \in Seq(Seq(Buffer))
  BY <1>1
<1>4. StartOf(1) = 0
  BY <1>2, <1>3 DEF StartOf
<1>5. Laid
  BY <1>2, <1>3, <1>4 DEF Laid
<1>6. InPlace(iter)
  BY <1>2, <1>3, <1>4 DEF InPlace
<1>7. iter.buf \in Buffer /\ iter.buf.size = 0
  BY <1>2 DEF Buffer
<1>8. Position = 0
  BY <1>1, <1>2 DEF Position
<1>9. offsets \in [Tracks -> Int] /\ Kept
  BY <1>1 DEF Kept
<1>10. placed \in BOOLEAN /\ (placed => Holds(iter)) /\ fault \in {"none", "assert"}
  BY <1>1
<1>11. Position \in iter.pos .. iter.end /\ bufOff \in 0 .. iter.buf.size
  BY <1>1, <1>2, <1>7, <1>8
<1> QED
  BY <1>5, <1>6, <1>7, <1>9, <1>10, <1>11 DEF TInv

LEMMA TInvStep == TInv /\ [Next]_vars => TInv'
<1> SUFFICES ASSUME TInv, [Next]_vars PROVE TInv'
  OBVIOUS
<1>1. CASE \E shape \in Shapes : Put(shape)
  BY <1>1, PutStep
<1>2. CASE \E p \in 0 .. MaxBytes : Seek(p)
  BY <1>2, SeekStep
<1>3. CASE ReadByte
  BY <1>3, ReadByteFacts
<1>4. CASE \E t \in Tracks : DemuxerReturns(t)
  <2>1. PICK t \in Tracks : DemuxerReturns(t)
    BY <1>4
  <2>2. PICK blocks \in MayReturn(t) : TakeSample(t, blocks)
    BY <2>1 DEF DemuxerReturns
  <2>3. placed /\ fault = "none"
    BY <2>1 DEF DemuxerReturns
  <2> QED
    BY <2>2, <2>3, SampleFacts
<1>5. CASE UNCHANGED vars
  <2>1. /\ packets' = packets /\ offsets' = offsets /\ iter' = iter /\ bufOff' = bufOff
        /\ placed' = placed /\ fault' = fault
    BY <1>5 DEF vars
  <2>2. fault' \in {"none", "assert"}
    BY <2>1 DEF TInv
  <2> QED
    BY <2>1, <2>2, StandStill
<1> QED
  BY <1>1, <1>2, <1>3, <1>4, <1>5 DEF Next

(* The packets lie one after the other from pos to end, the iterator is at *)
(* the beginning of a buffer of theirs, and it is the buffer being read    *)
(* once the demuxer has sought.                                            *)
THEOREM AlwaysTInv == Spec => []TInv
<1> QED
  BY TInvInit, TInvStep, PTL DEF Spec

(* The reader's place is what it says: index1, pos1, index2, pos2 and buf  *)
(* of the iterator agree (src/ts/RtpTsBuffer.h:164-222).                   *)
THEOREM AlwaysIteratorInPlace == Spec => []IteratorInPlace
<1>1. TInv => IteratorInPlace
  <2> SUFFICES ASSUME TInv, placed, iter.index1 <= Len(packets)
               PROVE  /\ iter.pos1 = iter.pos + Total(SubSeq(PacketSizes, 1, iter.index1 - 1))
                      /\ iter.buf = packets[iter.index1][iter.index2]
                      /\ iter.pos2 = iter.buf.from
    BY DEF IteratorInPlace, PacketSizes
  <2>1. Laid /\ InPlace(iter) /\ Holds(iter)
    BY DEF TInv
  <2>2. Len(packets) \in Nat /\ iter.index1 \in 1 .. Len(packets) + 1 /\ 1 \in 1 .. Len(packets) + 1
    BY <2>1, StreamParts DEF InPlace
  <2>3. Total(SubSeq(PacketSizes, 1, iter.index1 - 1)) = StartOf(iter.index1) - StartOf(1)
    BY <2>1, <2>2, StreamParts
  <2>4. StartOf(1) = iter.pos /\ iter.pos \in Nat /\ StartOf(iter.index1) \in Int
    BY <2>1, <2>2, StreamParts DEF Laid
  <2>5. iter.pos1 = StartOf(iter.index1)
    BY <2>1 DEF InPlace
  <2>6. iter.pos1 = iter.pos + Total(SubSeq(PacketSizes, 1, iter.index1 - 1))
    BY <2>3, <2>4, <2>5
  <2>7. iter.buf = packets[iter.index1][iter.index2] /\ iter.pos2 = iter.buf.from
    BY <2>1 DEF InPlace, Holds
  <2> QED
    BY <2>6, <2>7
<1> QED
  BY <1>1, AlwaysTInv, PTL

(* No seek, read or sample indexes packets_ out of range                   *)
(* (src/ts/RtpTsBuffer.h:183, 213).                                        *)
THEOREM AlwaysNeverOutOfRange == Spec => []NeverOutOfRange
<1>1. TInv => NeverOutOfRange
  BY DEF TInv, NeverOutOfRange
<1> QED
  BY <1>1, AlwaysTInv, PTL

(* The assert of get fails only for the first sample of a track: what a    *)
(* track that has had one may still need is never freed                    *)
(* (src/ts/RtpTsBuffer.h:43, 56-63).                                       *)
THEOREM AlwaysSeenTracksKept == Spec => SeenTracksKept
<1>1. TInv /\ [Next]_vars => [fault' = "assert" /\ fault # "assert" => offsets[asked'.track] = -1]_vars
  <2> SUFFICES ASSUME TInv, [Next]_vars, fault' = "assert", fault # "assert"
               PROVE  offsets[asked'.track] = -1
    OBVIOUS
  <2>1. CASE \E shape \in Shapes : Put(shape)
    BY <2>1 DEF Put
  <2>2. CASE \E p \in 0 .. MaxBytes : Seek(p)
    BY <2>2 DEF Seek
  <2>3. CASE ReadByte
    BY <2>3 DEF ReadByte
  <2>4. CASE \E t \in Tracks : DemuxerReturns(t)
    <3>1. PICK t \in Tracks : DemuxerReturns(t)
      BY <2>4
    <3>2. PICK blocks \in MayReturn(t) : TakeSample(t, blocks)
      BY <3>1 DEF DemuxerReturns
    <3>3. placed /\ fault = "none"
      BY <3>1 DEF DemuxerReturns
    <3>4. asked' = [track |-> t, blocks |-> blocks] /\ (fault' = "assert" => offsets[t] = -1)
      BY <3>2, <3>3, SampleFacts
    <3> QED
      BY <3>4
  <2>5. CASE UNCHANGED vars
    BY <2>5 DEF vars
  <2> QED
    BY <2>1, <2>2, <2>3, <2>4, <2>5 DEF Next
<1> QED
  BY <1>1, AlwaysTInv, PTL DEF Spec, SeenTracksKept

----------------------------------------------------------------------------
(* To its reader the buffer is a stream of bytes: what is read and what is *)
(* taken out are the bytes asked for, wherever the packets and the buffers *)
(* begin and end, and whatever was freed before                            *)
(* (src/ts/RtpTsBuffer.h:34-71, 124-222).                                  *)
THEOREM BufferImplementsByteStream == Spec => ImplementsByteStream
<1>1. Init => Stream!Init
  BY DEF Init, Stream!Init, Position
<1>2. TInv /\ TInv' /\ [Next]_vars => [Stream!Next]_(Stream!vars)
  <2> SUFFICES ASSUME TInv, TInv', [Next]_vars PROVE [Stream!Next]_(Stream!vars)
    OBVIOUS
  <2>1. CASE \E shape \in Shapes : Put(shape)
    <3>1. PICK shape \in Shapes : Put(shape)
      BY <2>1
    <3>2. /\ iter'.pos = iter.pos /\ iter'.pos2 = iter.pos2 /\ bufOff' = bufOff
          /\ iter'.end \in iter.end .. MaxBytes
      BY <3>1, PutStep
    <3>3. result' = NoData /\ asked' = NoData /\ UNCHANGED offsets
      BY <3>1 DEF Put
    <3>4. Stream!Grow
      BY <3>2, <3>3 DEF Stream!Grow, Position
    <3> QED
      BY <3>4 DEF Stream!Next
  <2>2. CASE \E p \in 0 .. MaxBytes : Seek(p)
    <3>1. PICK p \in 0 .. MaxBytes : Seek(p)
      BY <2>2
    <3>2. iter'.pos = iter.pos /\ iter'.end = iter.end
      BY <3>1, SeekStep
    <3>3. Position' \in iter.pos .. iter.end
      BY <3>2 DEF TInv
    <3>4. result' = NoData /\ asked' = NoData /\ UNCHANGED offsets
      BY <3>1 DEF Seek
    <3>5. Stream!Seek
      BY <3>2, <3>3, <3>4 DEF Stream!Seek
    <3> QED
      BY <3>5 DEF Stream!Next
  <2>3. CASE ReadByte
    <3>1. /\ Position' = IF Position < iter.end THEN Position + 1 ELSE Position
          /\ result' = IF Position < iter.end THEN <<Position>> ELSE Eof
          /\ iter'.pos = iter.pos /\ iter'.end = iter.end
      BY <2>3, ReadByteFacts DEF Position
    <3>2. asked' = NoData /\ UNCHANGED offsets
      BY <2>3 DEF ReadByte
    <3>3. Stream!Read
      BY <3>1, <3>2 DEF Stream!Read
    <3> QED
      BY <3>3 DEF Stream!Next
  <2>4. CASE \E t \in Tracks : DemuxerReturns(t)
    <3>1. PICK t \in Tracks : DemuxerReturns(t)
      BY <2>4
    <3>2. PICK blocks \in MayReturn(t) : TakeSample(t, blocks)
      BY <3>1 DEF DemuxerReturns
    <3>3. placed /\ fault = "none"
      BY <3>1 DEF DemuxerReturns
    <3>4. /\ Position' = Position /\ iter'.end = iter.end
          /\ asked' = [track |-> t, blocks |-> blocks] /\ asked' # NoData
          /\ \/ /\ fault' = "assert" /\ offsets[t] = -1
                /\ \E i \in DOMAIN blocks : blocks[i].at < iter.pos
                /\ result' = NoData /\ UNCHANGED <<iter, offsets>>
             \/ /\ fault' = "none"
                /\ \A i \in DOMAIN blocks :
                     blocks[i].at >= iter.pos /\ blocks[i].at + blocks[i].size <= iter.end
                /\ result' = Stream!BytesOf(blocks)
                /\ offsets' = [offsets EXCEPT ![t] = blocks[1].at]
                /\ iter'.pos \in iter.pos .. iter.end
                /\ \A u \in Tracks : offsets'[u] # -1 => iter'.pos <= offsets'[u]
      BY <3>2, <3>3, SampleFacts
    <3>5. asked'.track = t /\ asked'.blocks = blocks
      BY <3>4
    <3>6. CASE fault' = "assert"
      <4>1. Stream!Refuse(blocks)
        BY <3>4, <3>6 DEF Stream!Refuse
      <4> QED
        BY <3>4, <3>5, <4>1 DEF Stream!Sample, Stream!Next
    <3>7. CASE fault' = "none"
      <4>1. Stream!Take(t, blocks)
        BY <3>4, <3>7 DEF Stream!Take
      <4> QED
        BY <3>4, <3>5, <4>1 DEF Stream!Sample, Stream!Next
    <3> QED
      BY <3>4, <3>6, <3>7
  <2>5. CASE UNCHANGED vars
    BY <2>5 DEF vars, Stream!vars, Position
  <2> QED
    BY <2>1, <2>2, <2>3, <2>4, <2>5 DEF Next
<1> QED
  BY <1>1, <1>2, AlwaysTInv, PTL DEF Spec, ImplementsByteStream, Stream!Spec
=============================================================================
