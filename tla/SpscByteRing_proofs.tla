------------------------ MODULE SpscByteRing_proofs ------------------------
(***************************************************************************)
(* The two threads of the ring never copy to and from the same slot, and   *)
(* the ring implements a bounded queue of bytes, for every capacity, every *)
(* width of the positions that the capacity divides, and every span.       *)
(***************************************************************************)
EXTENDS SpscByteRing, SequenceTheorems, WellFoundedInduction, TLAPS

(* A call that has read the other side's position may rely on it until it  *)
(* publishes: the other side only makes more room, or more bytes.          *)
RoomInv ==
    /\ Distance(read, write) <= Capacity
    /\ push.step # "idle" => Distance(read, write) + push.count <= Capacity
    /\ pop.step # "idle" => pop.count <= Distance(read, write)

(* What has been copied and is not published yet is still there. *)
CopiedInv ==
    /\ push.step = "publish" =>
          \A i \in 1..push.count : bytes[(write + i - 1) % Capacity] = push.input[i]
    /\ pop.step = "publish" =>
          pop.out = [i \in 1..pop.count |-> bytes[(read + i - 1) % Capacity]]

(* The inductive invariant. *)
RingInv == TypeOK /\ RoomInv /\ CopiedInv

-----------------------------------------------------------------------------
(* Positions that wrap. *)

(* A set of naturals that is not empty has a least element. *)
LEMMA LeastNatural ==
    ASSUME NEW T \in SUBSET Nat, T # {}
    PROVE  \E n \in T : \A m \in T : n <= m
<1>1. PICK x \in T : \A y \in T : ~ (<<y, x>> \in OpToRel(<, Nat))
  BY NatLessThanWellFounded, WFMin
<1>2. \A y \in T : ~(y < x)
  BY <1>1 DEF OpToRel
<1> QED
  BY <1>2

LEMMA Distributes ==
    ASSUME NEW m \in Int, NEW p \in Int, NEW q \in Int
    PROVE  /\ (p + q) * m = p * m + q * m /\ (p - q) * m = p * m - q * m
           /\ p * m \in Int /\ q * m \in Int /\ 1 * m = m /\ 0 * m = 0
OBVIOUS

(* A quotient and a remainder. *)
Divides(a, m) == \E q \in Int : \E r \in 0..(m - 1) : a = q * m + r

LEMMA RemainderUnique ==
    ASSUME NEW m \in Nat \ {0}, NEW a \in Int, NEW q \in Int, NEW r \in 0..(m - 1),
           a = q * m + r
    PROVE  a % m = r
OBVIOUS

LEMMA DivideNatural == ASSUME NEW m \in Nat \ {0}, NEW a \in Nat PROVE Divides(a, m)
<1> DEFINE T == {n \in Nat : ~Divides(n, m)}
<1> SUFFICES ASSUME T # {}
             PROVE  FALSE
  OBVIOUS
<1>1. PICK n \in T : \A k \in T : n <= k
  <2>1. T \in SUBSET Nat
    OBVIOUS
  <2> HIDE DEF T
  <2> QED
    BY <2>1, LeastNatural
<1>2. CASE n < m
  <2>1. n = 0 * m + n /\ n \in 0..(m - 1)
    BY <1>1, <1>2, Distributes
  <2> QED
    BY <1>1, <2>1 DEF Divides
<1>3. CASE n >= m
  <2>1. n - m \in Nat /\ n - m < n
    BY <1>1, <1>3
  <2>2. Divides(n - m, m)
    BY <1>1, <2>1
  <2>3. PICK q \in Int : \E r \in 0..(m - 1) : n - m = q * m + r
    BY <2>2 DEF Divides
  <2>4. PICK r \in 0..(m - 1) : n - m = q * m + r
    BY <2>3
  <2>5. (q + 1) * m = q * m + m /\ q * m \in Int
    BY Distributes
  <2>6. n = (q + 1) * m + r
    BY <1>1, <2>4, <2>5
  <2>7. q + 1 \in Int
    OBVIOUS
  <2> QED
    BY <1>1, <2>6, <2>7, Zenon DEF Divides
<1> QED
  BY <1>1, <1>2, <1>3

LEMMA Divide == ASSUME NEW m \in Nat \ {0}, NEW a \in Int PROVE Divides(a, m)
<1>1. CASE a \in Nat
  BY <1>1, DivideNatural
<1>2. CASE a \notin Nat
  <2>1. -a - 1 \in Nat
    BY <1>2
  <2>2. PICK q \in Int : \E r \in 0..(m - 1) : -a - 1 = q * m + r
    BY <2>1, DivideNatural DEF Divides
  <2>3. PICK r \in 0..(m - 1) : -a - 1 = q * m + r
    BY <2>2
  <2>4. /\ ((0 - 1) - q) * m = (0 - 1) * m - q * m /\ (0 - 1) * m = 0 * m - 1 * m
        /\ q * m \in Int /\ 1 * m = m /\ 0 * m = 0
    BY Distributes
  <2>5. a = ((0 - 1) - q) * m + ((m - 1) - r)
    BY <2>3, <2>4
  <2>6. (m - 1) - r \in 0..(m - 1) /\ (0 - 1) - q \in Int
    OBVIOUS
  <2> QED
    BY <2>5, <2>6 DEF Divides
<1> QED
  BY <1>1, <1>2

(* The multiples of m. *)
Multiples(m) == {q * m : q \in Int}

LEMMA MultiplesClosed ==
    ASSUME NEW m \in Nat \ {0}
    PROVE  /\ 0 \in Multiples(m) /\ m \in Multiples(m) /\ Multiples(m) \subseteq Int
           /\ \A v, w \in Multiples(m) : v + w \in Multiples(m) /\ v - w \in Multiples(m)
<1>1. m \in Int
  OBVIOUS
<1>2. 0 \in Multiples(m) /\ m \in Multiples(m)
  <2>1. 0 * m = 0 /\ 1 * m = m /\ 0 \in Int /\ 1 \in Int
    BY <1>1, Distributes
  <2> QED
    BY <2>1, Zenon DEF Multiples
<1>3. Multiples(m) \subseteq Int
  <2>1. \A q \in Int : q * m \in Int
    BY <1>1
  <2> QED
    BY <2>1, Zenon DEF Multiples
<1>4. ASSUME NEW v \in Multiples(m), NEW w \in Multiples(m)
      PROVE  v + w \in Multiples(m) /\ v - w \in Multiples(m)
  <2>1. PICK p \in Int : v = p * m
    BY DEF Multiples
  <2>2. PICK q \in Int : w = q * m
    BY DEF Multiples
  <2>3. v + w = (p + q) * m /\ v - w = (p - q) * m
    BY <1>1, <2>1, <2>2, Distributes
  <2>4. p + q \in Int /\ p - q \in Int
    OBVIOUS
  <2> QED
    BY <2>3, <2>4, Zenon DEF Multiples
<1> QED
  BY <1>2, <1>3, <1>4

(* A remainder is in range, differs by a multiple, and is the only one     *)
(* that does.                                                              *)
LEMMA Remainder ==
    ASSUME NEW m \in Nat \ {0}, NEW a \in Int
    PROVE  /\ a % m \in 0..(m - 1)
           /\ a - (a % m) \in Multiples(m)
           /\ \A r \in 0..(m - 1) : a - r \in Multiples(m) => a % m = r
<1>1. PICK q \in Int : \E r \in 0..(m - 1) : a = q * m + r
  BY Divide DEF Divides
<1>2. PICK r \in 0..(m - 1) : a = q * m + r
  BY <1>1
<1>3. a % m = r
  BY <1>2, RemainderUnique
<1>4. q * m \in Int /\ q * m \in Multiples(m)
  <2>1. q * m \in Int
    OBVIOUS
  <2> QED
    BY <2>1, Zenon DEF Multiples
<1>5. a - r = q * m
  BY <1>2, <1>4
<1>6. ASSUME NEW t \in 0..(m - 1), a - t \in Multiples(m)
      PROVE  a % m = t
  <2>1. PICK p \in Int : a - t = p * m
    BY <1>6 DEF Multiples
  <2>2. p * m \in Int
    BY Distributes
  <2>3. a = p * m + t
    BY <2>1, <2>2
  <2> QED
    BY <2>3, RemainderUnique
<1> QED
  BY <1>3, <1>4, <1>5, <1>6, Zenon

(* Numbers that differ by a multiple leave the same remainder. *)
LEMMA SameRemainder ==
    ASSUME NEW m \in Nat \ {0}, NEW a \in Int, NEW b \in Int, a - b \in Multiples(m)
    PROVE  a % m = b % m
<1>1. b % m \in 0..(m - 1) /\ b - (b % m) \in Multiples(m)
  BY Remainder
<1> DEFINE r == b % m
<1>2. r \in 0..(m - 1) /\ r \in Int /\ b - r \in Multiples(m)
  BY <1>1
<1> HIDE DEF r
<1>3. (a - b) + (b - r) \in Multiples(m)
  BY <1>2, MultiplesClosed
<1>4. (a - b) + (b - r) = a - r
  BY <1>2
<1> QED
  BY <1>2, <1>3, <1>4, Remainder DEF r

(* The modulus of the positions is a multiple of the capacity, so its      *)
(* multiples are.                                                          *)
LEMMA ModulusMultiples == Multiples(IndexModulus) \subseteq Multiples(Capacity)
<1>1. IndexModulus \in Int /\ Capacity \in Nat \ {0} /\ IndexModulus % Capacity = 0
  BY RingAssumption
<1>2. IndexModulus - 0 \in Multiples(Capacity)
  BY <1>1, Remainder
<1>3. PICK p \in Int : IndexModulus = p * Capacity
  BY <1>1, <1>2 DEF Multiples
<1>4. ASSUME NEW q \in Int
      PROVE  q * IndexModulus \in Multiples(Capacity)
  <2>1. q * IndexModulus = (q * p) * Capacity /\ q * p \in Int
    BY <1>1, <1>3
  <2> QED
    BY <2>1, Zenon DEF Multiples
<1> QED
  BY <1>4, Zenon DEF Multiples

LEMMA NoSmallMultiple ==
    ASSUME NEW m \in Nat \ {0}, NEW x \in 1..(m - 1)
    PROVE  x \notin Multiples(m) /\ 0 - x \notin Multiples(m)
<1>1. ASSUME x \in Multiples(m)
      PROVE  FALSE
  <2>1. x - 0 = x /\ x - x = 0 /\ 0 \in 0..(m - 1) /\ x \in 0..(m - 1) /\ x \in Int /\ x # 0
    OBVIOUS
  <2>2. x % m = 0
    BY <1>1, <2>1, Remainder
  <2>3. x % m = x
    BY <2>1, MultiplesClosed, Remainder
  <2> QED
    BY <2>1, <2>2, <2>3
<1>2. ASSUME 0 - x \in Multiples(m)
      PROVE  FALSE
  <2>1. 0 - (0 - x) \in Multiples(m)
    BY <1>2, MultiplesClosed
  <2>2. 0 - (0 - x) = x
    OBVIOUS
  <2> QED
    BY <1>1, <2>1, <2>2
<1> QED
  BY <1>1, <1>2

(* How far the positions are apart. *)
LEMMA DistanceIs ==
    ASSUME NEW from \in Int, NEW to \in Int
    PROVE  /\ Distance(from, to) \in 0..(IndexModulus - 1)
           /\ (to - from) - Distance(from, to) \in Multiples(IndexModulus)
           /\ (to - from) - Distance(from, to) \in Multiples(Capacity)
           /\ \A r \in 0..(IndexModulus - 1) :
                 (to - from) - r \in Multiples(IndexModulus) => Distance(from, to) = r
<1>1. to - from \in Int /\ IndexModulus \in Nat \ {0}
  BY RingAssumption
<1> QED
  BY <1>1, Remainder, ModulusMultiples, Zenon DEF Distance

(* The slot of the i-th byte from position p on. *)
SlotOf(p, i) == (p + i - 1) % Capacity

LEMMA SlotIs ==
    ASSUME NEW p \in Int, NEW i \in Int
    PROVE  /\ SlotOf(p, i) \in Slot
           /\ (p + i - 1) - SlotOf(p, i) \in Multiples(Capacity)
<1>1. p + i - 1 \in Int /\ Capacity \in Nat \ {0}
  BY RingAssumption
<1> QED
  BY <1>1, Remainder, Zenon DEF SlotOf, Slot

LEMMA SameSlot ==
    ASSUME NEW p \in Int, NEW i \in Int, NEW q \in Int, NEW j \in Int,
           (p + i) - (q + j) \in Multiples(Capacity)
    PROVE  SlotOf(p, i) = SlotOf(q, j)
<1>1. /\ p + i - 1 \in Int /\ q + j - 1 \in Int /\ Capacity \in Nat \ {0}
      /\ (p + i - 1) - (q + j - 1) = (p + i) - (q + j)
  BY RingAssumption
<1> QED
  BY <1>1, SameRemainder DEF SlotOf

LEMMA OffsetIs ==
    ASSUME NEW s \in Int, NEW p \in Int
    PROVE  /\ Offset(s, p) \in 0..(Capacity - 1)
           /\ (s - p) - Offset(s, p) \in Multiples(Capacity)
           /\ \A r \in 0..(Capacity - 1) :
                 (s - p) - r \in Multiples(Capacity) => Offset(s, p) = r
<1>1. s - p \in Int /\ Capacity \in Nat \ {0}
  BY RingAssumption
<1> QED
  BY <1>1, Remainder, Zenon DEF Offset

-----------------------------------------------------------------------------
(* Which slots are whose. *)

(* What the room a push was granted says: counted from the write position  *)
(* and from the read position, no slot is within both spans.               *)
LEMMA SpansApart ==
    ASSUME TypeOK, RoomInv, push.step # "idle", NEW s \in Int,
           Offset(s, write) < push.count, Offset(s, read) < Distance(read, write)
    PROVE  FALSE
<1> DEFINE d == Distance(read, write)
           n == push.count
           o1 == Offset(s, write)
           o2 == Offset(s, read)
           x == (d + o1) - o2
<1>1. write \in Int /\ read \in Int /\ n \in Nat
  BY RingAssumption DEF TypeOK, Index
<1>2. d \in Nat /\ d + n <= Capacity /\ (write - read) - d \in Multiples(Capacity)
  BY <1>1, RingAssumption, DistanceIs DEF RoomInv
<1>3. /\ o1 \in Nat /\ (s - write) - o1 \in Multiples(Capacity)
      /\ o2 \in Nat /\ (s - read) - o2 \in Multiples(Capacity)
  BY <1>1, RingAssumption, OffsetIs
<1>4. Capacity \in Nat \ {0} /\ o1 < n /\ o2 < d
  BY RingAssumption
<1> HIDE DEF d, n, o1, o2
<1>5. x \in 1..(Capacity - 1)
  BY <1>1, <1>2, <1>3, <1>4
<1>6. ((s - read) - o2) - ((s - write) - o1) \in Multiples(Capacity)
  BY <1>3, <1>4, MultiplesClosed
<1>7. (((s - read) - o2) - ((s - write) - o1)) - ((write - read) - d) \in Multiples(Capacity)
  BY <1>2, <1>4, <1>6, MultiplesClosed
<1>8. (((s - read) - o2) - ((s - write) - o1)) - ((write - read) - d) = x
  BY <1>1, <1>2, <1>3
<1> HIDE DEF x
<1> QED
  BY <1>4, <1>5, <1>7, <1>8, NoSmallMultiple

(* The i-th byte from a position lies i - 1 behind it. *)
LEMMA OffsetOfSlot ==
    ASSUME NEW p \in Int, NEW i \in 1..Capacity
    PROVE  Offset(SlotOf(p, i), p) = i - 1
<1>1. i \in Int /\ i - 1 \in 0..(Capacity - 1) /\ Capacity \in Nat \ {0}
  BY RingAssumption
<1> DEFINE s == SlotOf(p, i)
<1>2. s \in Int /\ (p + i - 1) - s \in Multiples(Capacity)
  <2>1. s \in Slot /\ (p + i - 1) - s \in Multiples(Capacity)
    BY <1>1, SlotIs, Zenon
  <2>2. Slot \subseteq Int
    BY RingAssumption DEF Slot
  <2> QED
    BY <2>1, <2>2, Zenon
<1> HIDE DEF s
<1>3. 0 - ((p + i - 1) - s) \in Multiples(Capacity)
  BY <1>1, <1>2, MultiplesClosed
<1>4. 0 - ((p + i - 1) - s) = (s - p) - (i - 1)
  BY <1>1, <1>2
<1> QED
  BY <1>1, <1>2, <1>3, <1>4, OffsetIs, ZenonT(60) DEF s

(* A push writes no slot of a byte that is queued. *)
LEMMA QueuedSlotsKept ==
    ASSUME TypeOK, RoomInv, push.step # "idle", NEW i \in 1..Distance(read, write)
    PROVE  ~(Offset(SlotOf(read, i), write) < push.count)
<1>1. /\ read \in Int /\ write \in Int /\ i \in Int
      /\ Distance(read, write) \in Nat /\ Distance(read, write) <= Capacity
  BY RingAssumption, DistanceIs DEF TypeOK, Index, RoomInv
<1>2. i \in 1..Capacity
  BY <1>1, RingAssumption
<1>3. Offset(SlotOf(read, i), read) = i - 1
  BY <1>1, <1>2, OffsetOfSlot
<1>4. i - 1 < Distance(read, write)
  BY <1>1
<1>5. SlotOf(read, i) \in Int
  BY <1>1, SlotIs, RingAssumption DEF Slot
<1> QED
  BY <1>3, <1>4, <1>5, SpansApart

-----------------------------------------------------------------------------
(* The steps. *)

(* The state in integers. *)
LEMMA RingInts ==
    ASSUME TypeOK
    PROVE  /\ write \in Int /\ read \in Int
           /\ push.count \in Nat /\ pop.count \in Nat
           /\ Distance(read, write) \in Nat
           /\ IndexModulus \in Nat \ {0} /\ Capacity \in Nat \ {0} /\ Capacity < IndexModulus
<1>1. write \in Int /\ read \in Int /\ push.count \in Nat /\ pop.count \in Nat
  BY RingAssumption DEF TypeOK, Index
<1>2. Distance(read, write) \in 0..(IndexModulus - 1)
  BY <1>1, DistanceIs
<1>3. IndexModulus \in Nat \ {0} /\ Capacity \in Nat \ {0} /\ Capacity < IndexModulus
  BY RingAssumption
<1>4. Distance(read, write) \in Nat
  <2> DEFINE d == Distance(read, write)
  <2>1. d \in 0..(IndexModulus - 1)
    BY <1>2
  <2> HIDE DEF d
  <2>2. d \in Nat
    BY <1>3, <2>1
  <2> QED
    BY <2>2 DEF d
<1> QED
  BY <1>1, <1>3, <1>4

(* What a push publishes is added to the distance. *)
LEMMA PublishGrows ==
    ASSUME RingInv, PushPublish
    PROVE  /\ Distance(read', write') = Distance(read, write) + push.count
           /\ write' \in Index
           /\ (write + push.count) - write' \in Multiples(Capacity)
<1> DEFINE d == Distance(read, write)
           n == push.count
           w == (write + n) % IndexModulus
<1>1. /\ write \in Int /\ read \in Int /\ n \in Nat /\ d \in Nat
      /\ IndexModulus \in Nat \ {0} /\ Capacity < IndexModulus /\ Capacity \in Nat
  BY RingInts DEF RingInv
<1>2. read' = read /\ write' = w /\ d + n <= Capacity
  BY DEF PushPublish, RingInv, RoomInv
<1>3. (write - read) - d \in Multiples(IndexModulus)
  BY <1>1, DistanceIs
<1>4. w \in 0..(IndexModulus - 1) /\ (write + n) - w \in Multiples(IndexModulus)
  <2>1. write + n \in Int
    BY <1>1
  <2> QED
    BY <1>1, <2>1, Remainder
<1> HIDE DEF d, n, w
<1>5. ((write - read) - d) - ((write + n) - w) \in Multiples(IndexModulus)
  BY <1>1, <1>3, <1>4, MultiplesClosed
<1>6. /\ ((write - read) - d) - ((write + n) - w) = (w - read) - (d + n)
      /\ d + n \in 0..(IndexModulus - 1) /\ w \in Int
  BY <1>1, <1>2, <1>4
<1>7. Distance(read, w) = d + n
  BY <1>1, <1>5, <1>6, DistanceIs
<1>8. (write + n) - w \in Multiples(Capacity)
  BY <1>4, ModulusMultiples
<1> QED
  BY <1>2, <1>4, <1>7, <1>8 DEF Index, d, n

(* What a pop publishes is taken from it. *)
LEMMA PublishShrinks ==
    ASSUME RingInv, PopPublish
    PROVE  /\ Distance(read', write') = Distance(read, write) - pop.count
           /\ read' \in Index
           /\ (read + pop.count) - read' \in Multiples(Capacity)
<1> DEFINE d == Distance(read, write)
           n == pop.count
           r == (read + n) % IndexModulus
<1>1. /\ write \in Int /\ read \in Int /\ n \in Nat /\ d \in Nat
      /\ IndexModulus \in Nat \ {0} /\ Capacity < IndexModulus /\ Capacity \in Nat
  BY RingInts DEF RingInv
<1>2. read' = r /\ write' = write /\ n <= d /\ d <= Capacity
  BY DEF PopPublish, RingInv, RoomInv
<1>3. (write - read) - d \in Multiples(IndexModulus)
  BY <1>1, DistanceIs
<1>4. r \in 0..(IndexModulus - 1) /\ (read + n) - r \in Multiples(IndexModulus)
  <2>1. read + n \in Int
    BY <1>1
  <2> QED
    BY <1>1, <2>1, Remainder
<1> HIDE DEF d, n, r
<1>5. ((write - read) - d) + ((read + n) - r) \in Multiples(IndexModulus)
  BY <1>1, <1>3, <1>4, MultiplesClosed
<1>6. /\ ((write - read) - d) + ((read + n) - r) = (write - r) - (d - n)
      /\ d - n \in 0..(IndexModulus - 1) /\ r \in Int
  BY <1>1, <1>2, <1>4
<1>7. Distance(r, write) = d - n
  BY <1>1, <1>5, <1>6, DistanceIs
<1>8. (read + n) - r \in Multiples(Capacity)
  BY <1>4, ModulusMultiples
<1> QED
  BY <1>2, <1>4, <1>7, <1>8 DEF Index, d, n

(* A reset ring is empty. *)
LEMMA ResetEmpties == Distance(0, 0) = 0
<1>1. /\ IndexModulus \in Nat \ {0} /\ 0 \in 0..(IndexModulus - 1) /\ 0 \in Int
      /\ (0 - 0) - 0 = 0
  BY RingAssumption
<1> QED
  BY <1>1, MultiplesClosed, DistanceIs

LEMMA PushLoadKeeps ==
    ASSUME RingInv, NEW input \in Chunk, PushLoad(input)
    PROVE  RingInv'
<1>1. PICK n \in 1..MaxChunk : input \in [1..n -> Byte]
  BY DEF Chunk
<1>2. n \in Nat /\ n <= MaxChunk /\ MaxChunk \in Nat
  BY <1>1, RingAssumption
<1>3. input \in Seq(Byte) /\ Len(input) = n
  BY <1>1, <1>2
<1> DEFINE d == Distance(read, write)
           c == Min(Capacity - Min(d, Capacity), n)
<1>4. /\ push' = [step |-> "copy", input |-> input, count |-> c]
      /\ UNCHANGED <<bytes, write, read, pop>>
  BY <1>3 DEF PushLoad, Available
<1>5. d \in Nat /\ Capacity \in Nat /\ d <= Capacity
  BY RingInts DEF RingInv, RoomInv
<1>6. c \in 0..n /\ d + c <= Capacity
  <2> HIDE DEF d
  <2> QED
    BY <1>2, <1>5 DEF Min
<1> HIDE DEF c
<1>7. push' \in [step : {"idle", "copy", "publish"}, input : Seq(Byte), count : 0..MaxChunk]
  BY <1>2, <1>3, <1>4, <1>6
<1>8. push'.step = "copy" /\ push'.count = c /\ push'.input = input
  BY <1>4
<1>9. TypeOK'
  BY <1>3, <1>4, <1>6, <1>7, <1>8 DEF RingInv, TypeOK
<1>10. RoomInv'
  BY <1>4, <1>6, <1>8 DEF RingInv, RoomInv
<1>11. CopiedInv'
  BY <1>4, <1>8 DEF RingInv, CopiedInv
<1> QED
  BY <1>9, <1>10, <1>11 DEF RingInv

LEMMA PushCopyKeeps ==
    ASSUME RingInv, PushCopy
    PROVE  /\ RingInv'
           /\ \A i \in 1..Distance(read, write) : bytes'[SlotOf(read, i)] = bytes[SlotOf(read, i)]
<1> DEFINE d == Distance(read, write)
           n == push.count
<1>0. TypeOK /\ RoomInv
  BY DEF RingInv
<1>1. /\ push.step = "copy" /\ push' = [push EXCEPT !.step = "publish"]
      /\ bytes' = [s \in Slot |-> IF Offset(s, write) < push.count
                                    THEN push.input[Offset(s, write) + 1]
                                    ELSE bytes[s]]
      /\ UNCHANGED <<write, read, pop>>
  BY DEF PushCopy
<1>2. push'.step = "publish" /\ push'.count = n /\ push'.input = push.input
  BY <1>0, <1>1 DEF TypeOK
<1>3. /\ write \in Int /\ read \in Int /\ n \in Nat /\ d \in Nat /\ Capacity \in Nat \ {0}
  BY <1>0, RingInts
<1>4. n <= Len(push.input) /\ push.input \in Seq(Byte) /\ Len(push.input) \in Nat
  BY <1>0, LenProperties DEF TypeOK
<1>5. d <= Capacity /\ d + n <= Capacity
  BY <1>0, <1>1 DEF RoomInv
<1>6. ASSUME NEW i \in 1..d
      PROVE  bytes'[SlotOf(read, i)] = bytes[SlotOf(read, i)]
  <2>1. ~(Offset(SlotOf(read, i), write) < push.count)
    BY <1>0, <1>1, QueuedSlotsKept
  <2>2. i \in Int
    BY <1>3
  <2>3. SlotOf(read, i) \in Slot
    BY <1>3, <2>2, SlotIs
  <2> QED
    BY <1>1, <2>1, <2>3, Zenon
<1>7. TypeOK'
  <2>1. ASSUME NEW s \in Slot
        PROVE  bytes'[s] \in Byte
    <3> DEFINE o == Offset(s, write)
    <3>0. s \in Int
      BY <1>3 DEF Slot
    <3>1. o \in Nat
      <4>1. o \in 0..(Capacity - 1)
        BY <1>3, <3>0, OffsetIs
      <4> HIDE DEF o
      <4> QED
        BY <1>3, <4>1
    <3>2. CASE o < n
      <4>1. o + 1 \in 1..Len(push.input)
        <5> DEFINE l == Len(push.input)
        <5>1. l \in Nat /\ n <= l
          BY <1>4
        <5> HIDE DEF o, n, l
        <5>2. o + 1 \in 1..l
          BY <1>3, <3>1, <3>2, <5>1
        <5> QED
          BY <5>2 DEF l
      <4>2. push.input[o + 1] \in Byte
        BY <1>4, <4>1, ElementOfSeq
      <4> QED
        BY <1>1, <3>2, <4>2
    <3>3. CASE ~(o < n)
      BY <1>0, <1>1, <3>3 DEF TypeOK
    <3> QED
      BY <3>2, <3>3
  <2>2. bytes' \in [Slot -> Byte]
    <3>1. bytes' = [s \in Slot |-> bytes'[s]]
      BY <1>1
    <3> QED
      BY <2>1, <3>1, Zenon
  <2>3. push' \in [step : {"idle", "copy", "publish"}, input : Seq(Byte), count : 0..MaxChunk]
    BY <1>0, <1>1 DEF TypeOK
  <2> QED
    BY <1>0, <1>1, <1>2, <2>2, <2>3 DEF TypeOK
<1>8. RoomInv'
  BY <1>0, <1>1, <1>2 DEF RoomInv
<1>9. CopiedInv'
  <2>1. ASSUME NEW i \in 1..n
        PROVE  bytes'[(write + i - 1) % Capacity] = push.input[i]
    <3>1. i \in 1..Capacity /\ i \in Int
      BY <1>3, <1>5
    <3>2. SlotOf(write, i) \in Slot /\ Offset(SlotOf(write, i), write) = i - 1
      BY <1>3, <3>1, SlotIs, OffsetOfSlot
    <3>3. i - 1 < n /\ (i - 1) + 1 = i
      BY <1>3
    <3>4. bytes'[SlotOf(write, i)] = push.input[i]
      BY <1>1, <3>2, <3>3
    <3> QED
      BY <3>4 DEF SlotOf
  <2>2. ASSUME pop.step = "publish", NEW i \in 1..pop.count
        PROVE  bytes'[(read + i - 1) % Capacity] = bytes[(read + i - 1) % Capacity]
    <3>1. pop.count \in Nat /\ pop.count <= d
      BY <1>0, <2>2, RingInts DEF RoomInv
    <3>2. i \in 1..d
      BY <1>3, <3>1
    <3> QED
      BY <1>6, <3>2 DEF SlotOf
  <2>3. pop.step = "publish" =>
          pop.out = [i \in 1..pop.count |-> bytes'[(read + i - 1) % Capacity]]
    BY <2>2 DEF RingInv, CopiedInv
  <2> QED
    BY <1>1, <1>2, <2>1, <2>3 DEF CopiedInv
<1> QED
  BY <1>6, <1>7, <1>8, <1>9 DEF RingInv

LEMMA PushPublishKeeps ==
    ASSUME RingInv, PushPublish
    PROVE  RingInv'
<1>1. push.step = "publish" /\ push' = NoPush /\ UNCHANGED <<bytes, read, pop>>
  BY DEF PushPublish
<1>2. /\ Distance(read', write') = Distance(read, write) + push.count /\ write' \in Index
  BY PublishGrows
<1>3. push'.step = "idle" /\ push'.count = 0 /\ push'.input = <<>>
  BY <1>1 DEF NoPush
<1>4. Distance(read, write) \in Nat /\ push.count \in Nat /\ pop.count \in Nat
  BY RingInts DEF RingInv
<1>5. TypeOK'
  <2>1. push' \in [step : {"idle", "copy", "publish"}, input : Seq(Byte), count : 0..MaxChunk]
    <3>1. 0 \in 0..MaxChunk /\ <<>> \in Seq(Byte)
      BY RingAssumption
    <3> QED
      BY <1>1, <3>1 DEF NoPush
  <2>2. push'.count <= Len(push'.input)
    BY <1>3
  <2> QED
    BY <1>1, <1>2, <2>1, <2>2 DEF RingInv, TypeOK
<1>6. RoomInv'
  <2> DEFINE d == Distance(read, write)
             e == Distance(read', write')
  <2>1. e = d + push.count /\ d + push.count <= Capacity /\ (pop.step # "idle" => pop.count <= d)
    BY <1>1, <1>2 DEF RingInv, RoomInv
  <2>2. d \in Nat
    BY <1>4
  <2> HIDE DEF d, e
  <2>3. e <= Capacity /\ (pop'.step # "idle" => pop'.count <= e)
    BY <1>1, <1>4, <2>1, <2>2
  <2> QED
    BY <1>3, <2>3 DEF RoomInv, e
<1>7. CopiedInv'
  BY <1>1, <1>3 DEF RingInv, CopiedInv
<1> QED
  BY <1>5, <1>6, <1>7 DEF RingInv

LEMMA PopLoadKeeps ==
    ASSUME RingInv, NEW want \in 1..MaxChunk, PopLoad(want)
    PROVE  RingInv'
<1> DEFINE d == Distance(read, write)
           c == Min(d, want)
<1>1. /\ pop' = [step |-> "copy", count |-> c, out |-> <<>>]
      /\ UNCHANGED <<bytes, write, read, push>>
  BY DEF PopLoad
<1>2. d \in Nat /\ want \in Nat /\ want <= MaxChunk /\ MaxChunk \in Nat
  BY RingInts, RingAssumption DEF RingInv
<1>3. c \in 0..MaxChunk /\ c <= d
  <2> HIDE DEF d
  <2> QED
    BY <1>2 DEF Min
<1> HIDE DEF c
<1>4. pop'.step = "copy" /\ pop'.count = c
  BY <1>1
<1>5. pop' \in [step : {"idle", "copy", "publish"}, count : 0..MaxChunk, out : Seq(Byte)]
  BY <1>1, <1>3
<1>6. TypeOK'
  BY <1>1, <1>5 DEF RingInv, TypeOK
<1>7. RoomInv'
  BY <1>1, <1>3, <1>4 DEF RingInv, RoomInv
<1>8. CopiedInv'
  BY <1>1, <1>4 DEF RingInv, CopiedInv
<1> QED
  BY <1>6, <1>7, <1>8 DEF RingInv

LEMMA PopCopyKeeps ==
    ASSUME RingInv, PopCopy
    PROVE  RingInv'
<1> DEFINE taken == [i \in 1..pop.count |-> bytes[(read + i - 1) % Capacity]]
<1>0. TypeOK /\ RoomInv
  BY DEF RingInv
<1>1. /\ pop.step = "copy" /\ pop' = [pop EXCEPT !.step = "publish", !.out = taken]
      /\ UNCHANGED <<bytes, write, read, push>>
  BY DEF PopCopy
<1>2. taken \in Seq(Byte)
  <2>1. ASSUME NEW i \in 1..pop.count
        PROVE  bytes[(read + i - 1) % Capacity] \in Byte
    <3>1. read \in Int /\ i \in Int
      BY <1>0, RingInts
    <3>2. (read + i - 1) % Capacity \in Slot
      BY <3>1, SlotIs, Zenon DEF SlotOf
    <3> QED
      BY <1>0, <3>2 DEF TypeOK
  <2>2. taken \in [1..pop.count -> Byte] /\ pop.count \in Nat
    BY <1>0, <2>1, RingInts
  <2> HIDE DEF taken
  <2> QED
    BY <2>2, IsASeq
<1>3. pop'.step = "publish" /\ pop'.count = pop.count /\ pop'.out = taken
  BY <1>0, <1>1 DEF TypeOK
<1>4. TypeOK'
  <2> HIDE DEF taken
  <2>1. pop' \in [step : {"idle", "copy", "publish"}, count : 0..MaxChunk, out : Seq(Byte)]
    BY <1>0, <1>1, <1>2 DEF TypeOK
  <2> QED
    BY <1>0, <1>1, <2>1 DEF TypeOK
<1>5. RoomInv'
  BY <1>0, <1>1, <1>3 DEF RoomInv
<1>6. CopiedInv'
  BY <1>1, <1>3 DEF RingInv, CopiedInv
<1> QED
  BY <1>4, <1>5, <1>6 DEF RingInv

LEMMA PopPublishKeeps ==
    ASSUME RingInv, PopPublish
    PROVE  RingInv'
<1>1. pop.step = "publish" /\ pop' = NoPop /\ UNCHANGED <<bytes, write, push>>
  BY DEF PopPublish
<1>2. Distance(read', write') = Distance(read, write) - pop.count /\ read' \in Index
  BY PublishShrinks
<1>3. pop'.step = "idle"
  BY <1>1 DEF NoPop
<1>4. /\ Distance(read, write) \in Nat /\ push.count \in Nat /\ pop.count \in Nat
      /\ Capacity \in Nat
  BY RingInts DEF RingInv
<1>5. TypeOK'
  <2>1. 0 \in 0..MaxChunk /\ <<>> \in Seq(Byte)
    BY RingAssumption
  <2>2. pop' \in [step : {"idle", "copy", "publish"}, count : 0..MaxChunk, out : Seq(Byte)]
    BY <1>1, <2>1 DEF NoPop
  <2> QED
    BY <1>1, <1>2, <2>2 DEF RingInv, TypeOK
<1>6. RoomInv'
  <2> DEFINE d == Distance(read, write)
             e == Distance(read', write')
  <2>1. /\ e = d - pop.count /\ d <= Capacity
        /\ push.step # "idle" => d + push.count <= Capacity
    BY <1>1, <1>2 DEF RingInv, RoomInv
  <2>2. d \in Nat
    BY <1>4
  <2> HIDE DEF d, e
  <2>3. e <= Capacity /\ (push'.step # "idle" => e + push'.count <= Capacity)
    BY <1>1, <1>4, <2>1, <2>2
  <2> QED
    BY <1>3, <2>3 DEF RoomInv, e
<1>7. CopiedInv'
  BY <1>1, <1>3 DEF RingInv, CopiedInv
<1> QED
  BY <1>5, <1>6, <1>7 DEF RingInv

LEMMA ResetKeeps ==
    ASSUME RingInv, Reset
    PROVE  RingInv'
<1>1. /\ push.step = "idle" /\ pop.step = "idle" /\ read' = 0 /\ write' = 0
      /\ UNCHANGED <<bytes, push, pop>>
  BY DEF Reset
<1>2. Distance(read', write') = 0 /\ 0 \in Index /\ 0 <= Capacity
  BY <1>1, ResetEmpties, RingAssumption DEF Index
<1>3. TypeOK'
  BY <1>1, <1>2 DEF RingInv, TypeOK
<1>4. RoomInv'
  BY <1>1, <1>2 DEF RoomInv
<1>5. CopiedInv'
  BY <1>1 DEF CopiedInv
<1> QED
  BY <1>3, <1>4, <1>5 DEF RingInv

LEMMA RingInit == Init => RingInv
<1> SUFFICES ASSUME Init
             PROVE  RingInv
  OBVIOUS
<1>1. Distance(read, write) = 0 /\ 0 \in Index /\ 0 <= Capacity
  BY ResetEmpties, RingAssumption DEF Init, Index
<1>2. push.step = "idle" /\ push.count = 0 /\ push.input = <<>> /\ pop.step = "idle"
  BY DEF Init, NoPush, NoPop
<1>3. TypeOK
  <2>1. 0 \in 0..MaxChunk /\ <<>> \in Seq(Byte) /\ Len(<<>>) = 0
    BY RingAssumption
  <2>2. bytes \in [Slot -> Byte]
    BY RingAssumption DEF Init
  <2>3. /\ push \in [step : {"idle", "copy", "publish"}, input : Seq(Byte), count : 0..MaxChunk]
        /\ pop \in [step : {"idle", "copy", "publish"}, count : 0..MaxChunk, out : Seq(Byte)]
    BY <2>1 DEF Init, NoPush, NoPop
  <2> QED
    BY <1>1, <1>2, <2>1, <2>2, <2>3 DEF Init, TypeOK
<1> QED
  BY <1>1, <1>2, <1>3 DEF RingInv, RoomInv, CopiedInv

LEMMA RingNext == RingInv /\ [Next]_vars => RingInv'
<1> SUFFICES ASSUME RingInv, [Next]_vars
             PROVE  RingInv'
  OBVIOUS
<1>1. CASE UNCHANGED vars
  BY <1>1 DEF vars, RingInv, TypeOK, RoomInv, CopiedInv
<1>2. CASE \E input \in Chunk : PushLoad(input)
  BY <1>2, PushLoadKeeps
<1>3. CASE \E want \in 1..MaxChunk : PopLoad(want)
  BY <1>3, PopLoadKeeps
<1>4. CASE PushCopy \/ PushPublish \/ PopCopy \/ PopPublish \/ Reset
  BY <1>4, PushCopyKeeps, PushPublishKeeps, PopCopyKeeps, PopPublishKeeps, ResetKeeps
<1> QED
  BY <1>1, <1>2, <1>3, <1>4 DEF Next

-----------------------------------------------------------------------------
(* The theorems. *)

(* The inductive invariant holds in every reachable state: what a call has *)
(* read of the other side stays good until it publishes (Push, Pop).       *)
THEOREM RingInvariant == Spec => []RingInv
BY RingInit, RingNext, PTL DEF Spec

(* Producer and consumer never copy to and from the same slot, so the      *)
(* plain copies do not race, for every capacity and width (Push, Pop).     *)
THEOREM CopiesNeverOverlap == Spec => []CopiesDoNotOverlap
<1>1. ASSUME RingInv
      PROVE  CopiesDoNotOverlap
  <2> SUFFICES ASSUME push.step # "idle", NEW s \in Slot, Offset(s, write) < push.count,
                      Offset(s, read) < Distance(read, write)
               PROVE  FALSE
    BY DEF CopiesDoNotOverlap
  <2>1. s \in Int
    BY RingAssumption DEF Slot
  <2> QED
    BY <1>1, <2>1, SpansApart DEF RingInv
<1> QED
  BY <1>1, RingInvariant, PTL

-----------------------------------------------------------------------------
(* The ring as a queue. *)

(* The bytes between two positions of an array. *)
Stored(array, from, n) == [i \in 1..n |-> array[SlotOf(from, i)]]

LEMMA StoredIs ==
    ASSUME NEW array \in [Slot -> Byte], NEW from \in Int, NEW n \in Nat
    PROVE  /\ Stored(array, from, n) \in Seq(Byte) /\ Stored(array, from, n) \in [1..n -> Byte]
           /\ Len(Stored(array, from, n)) = n
           /\ \A i \in 1..n : Stored(array, from, n)[i] = array[SlotOf(from, i)]
<1>1. ASSUME NEW i \in 1..n
      PROVE  array[SlotOf(from, i)] \in Byte
  <2>1. i \in Int
    OBVIOUS
  <2>2. SlotOf(from, i) \in Slot
    BY <2>1, SlotIs
  <2> QED
    BY <2>2
<1> DEFINE t == [i \in 1..n |-> array[SlotOf(from, i)]]
<1>2. t \in [1..n -> Byte] /\ \A i \in 1..n : t[i] = array[SlotOf(from, i)]
  BY <1>1
<1>3. Stored(array, from, n) = t
  BY DEF Stored
<1> HIDE DEF t
<1>4. t \in Seq(Byte) /\ Len(t) = n
  BY <1>2, IsASeq, LenProperties
<1> QED
  BY <1>2, <1>3, <1>4

LEMMA ContentsIs ==
    /\ Contents = Stored(bytes, read, Distance(read, write))
    /\ Contents' = Stored(bytes', read', Distance(read', write'))
BY DEF Contents, Stored, SlotOf

(* A queue followed by what was copied behind it. *)
LEMMA StoredConcat ==
    ASSUME NEW array \in [Slot -> Byte], NEW from \in Int, NEW to \in Int,
           NEW d \in Nat, NEW n \in Nat,
           (to - from) - d \in Multiples(Capacity)
    PROVE  Stored(array, from, d + n) = Stored(array, from, d) \o Stored(array, to, n)
<1> DEFINE all == Stored(array, from, d + n)
           old == Stored(array, from, d)
           new == Stored(array, to, n)
<1>0. d + n \in Nat
  OBVIOUS
<1>1. /\ all \in Seq(Byte) /\ Len(all) = d + n
      /\ \A i \in 1..(d + n) : all[i] = array[SlotOf(from, i)]
  BY <1>0, StoredIs
<1>2. old \in Seq(Byte) /\ Len(old) = d /\ \A i \in 1..d : old[i] = array[SlotOf(from, i)]
  BY StoredIs
<1>3. new \in Seq(Byte) /\ Len(new) = n /\ \A i \in 1..n : new[i] = array[SlotOf(to, i)]
  BY StoredIs
<1> HIDE DEF all, old, new
<1>4. /\ old \o new \in Seq(Byte) /\ Len(old \o new) = d + n
      /\ \A i \in 1..(d + n) : (old \o new)[i] = IF i <= d THEN old[i] ELSE new[i - d]
  BY <1>2, <1>3, ConcatProperties
<1>5. ASSUME NEW i \in 1..(d + n)
      PROVE  all[i] = (old \o new)[i]
  <2>1. CASE i <= d
    <3>1. i \in 1..d
      BY <2>1
    <3> QED
      BY <1>1, <1>2, <1>4, <2>1, <3>1
  <2>2. CASE ~(i <= d)
    <3>1. i - d \in 1..n /\ i - d \in Int /\ i \in Int
      BY <2>2
    <3>2. (to + (i - d)) - (from + i) = (to - from) - d
      OBVIOUS
    <3>3. SlotOf(to, i - d) = SlotOf(from, i)
      BY <3>1, <3>2, SameSlot
    <3> QED
      BY <1>1, <1>3, <1>4, <2>2, <3>1, <3>3
  <2> QED
    BY <2>1, <2>2
<1>6. all = old \o new
  BY <1>1, <1>4, <1>5, SeqEqual
<1> QED
  BY <1>6 DEF all, old, new

(* A span taken from the front. *)
LEMMA StoredSplit ==
    ASSUME NEW array \in [Slot -> Byte], NEW from \in Int, NEW to \in Int,
           NEW d \in Nat, NEW n \in 0..d,
           (from + n) - to \in Multiples(Capacity)
    PROVE  /\ Stored(array, from, n) = SubSeq(Stored(array, from, d), 1, n)
           /\ Stored(array, to, d - n) = SubSeq(Stored(array, from, d), n + 1, d)
<1> DEFINE front == Stored(array, from, n)
           back == Stored(array, to, d - n)
           all == Stored(array, from, d)
<1>1. n \in Nat /\ d - n \in Nat /\ n + (d - n) = d
  OBVIOUS
<1>2. (to - from) - n \in Multiples(Capacity)
  <2>1. Capacity \in Nat \ {0}
    BY RingAssumption
  <2>2. 0 - ((from + n) - to) \in Multiples(Capacity)
    BY <2>1, MultiplesClosed
  <2>3. 0 - ((from + n) - to) = (to - from) - n
    BY <1>1
  <2> QED
    BY <2>2, <2>3
<1>3. all = front \o back
  <2> DEFINE rest == d - n
  <2>1. n \in Nat /\ rest \in Nat /\ n + rest = d
    BY <1>1
  <2> HIDE DEF rest
  <2>2. Stored(array, from, n + rest) = Stored(array, from, n) \o Stored(array, to, rest)
    BY <1>2, <2>1, StoredConcat, ZenonT(60)
  <2> QED
    BY <2>1, <2>2 DEF rest
<1>4. /\ front \in Seq(Byte) /\ back \in Seq(Byte)
      /\ Len(front) = n /\ Len(back) = d - n
  BY <1>1, StoredIs
<1> HIDE DEF front, back, all
<1>5. SubSeq(front \o back, 1, Len(front)) = front
  BY <1>4, SubSeqOfConcat1, SubSeqFull
<1>6. SubSeq(front \o back, Len(front) + 1, Len(front) + Len(back)) = back
  BY <1>4, SubSeqOfConcat2, SubSeqFull
<1> QED
  BY <1>1, <1>3, <1>4, <1>5, <1>6 DEF front, back, all

LEMMA ContentsFit ==
    ASSUME RingInv
    PROVE  Contents \in Seq(Byte) /\ Len(Contents) = Distance(read, write)
<1>1. bytes \in [Slot -> Byte] /\ read \in Int /\ Distance(read, write) \in Nat
  BY RingInts DEF RingInv, TypeOK
<1> QED
  BY <1>1, StoredIs, ContentsIs

(* A push that publishes something is a push of the queue. *)
LEMMA PushRefines ==
    ASSUME RingInv, PushPublish
    PROVE  Abstract!Push \/ UNCHANGED <<Contents, delivered>>
<1> DEFINE d == Distance(read, write)
           n == push.count
           pushed == Stored(bytes, write, n)
<1>0. /\ bytes \in [Slot -> Byte] /\ read \in Int /\ write \in Int
      /\ d \in Nat /\ n \in Nat /\ n \in 0..MaxChunk
  BY RingInts DEF RingInv, TypeOK
<1>1. d + n <= Capacity /\ UNCHANGED <<bytes, read, delivered>> /\ push.step = "publish"
  BY DEF PushPublish, RingInv, RoomInv
<1>2. Distance(read', write') = d + n
  BY PublishGrows
<1>3. Contents = Stored(bytes, read, d) /\ Contents' = Stored(bytes, read, d + n)
  BY <1>1, <1>2, ContentsIs
<1>4. (write - read) - d \in Multiples(Capacity)
  BY <1>0, DistanceIs
<1>5. Len(Contents) = d
  BY ContentsFit
<1>6. pushed \in [1..n -> Byte]
  BY <1>0, StoredIs
<1> HIDE DEF d, n, pushed
<1>7. Contents' = Contents \o pushed
  BY <1>0, <1>3, <1>4, StoredConcat DEF pushed
<1>8. CASE n = 0
  <2>1. d + n = d
    BY <1>0, <1>8
  <2> QED
    BY <1>1, <1>3, <2>1
<1>9. CASE n # 0
  <2>1. n \in 1..MaxChunk /\ Len(Contents) + n <= Capacity
    BY <1>0, <1>1, <1>5, <1>9
  <2> QED
    BY <1>1, <1>6, <1>7, <2>1, Zenon DEF Abstract!Push
<1> QED
  BY <1>8, <1>9

(* A pop that publishes is a pop of the queue. *)
LEMMA PopRefines ==
    ASSUME RingInv, PopPublish
    PROVE  Abstract!Pop
<1> DEFINE d == Distance(read, write)
           n == pop.count
<1>0. /\ bytes \in [Slot -> Byte] /\ read \in Int /\ d \in Nat /\ n \in Nat /\ n \in 0..MaxChunk
  BY RingInts DEF RingInv, TypeOK
<1>1. /\ n <= d /\ UNCHANGED <<bytes, write>> /\ delivered' = pop.out
      /\ pop.out = Stored(bytes, read, n)
  BY DEF PopPublish, RingInv, RoomInv, CopiedInv, Stored, SlotOf
<1>2. /\ Distance(read', write') = d - n /\ read' \in Index
      /\ (read + n) - read' \in Multiples(Capacity)
  BY PublishShrinks
<1>3. read' \in Int
  BY <1>2, RingAssumption DEF Index
<1>4. Contents = Stored(bytes, read, d) /\ Contents' = Stored(bytes, read', d - n)
  BY <1>1, <1>2, ContentsIs
<1>5. Len(Contents) = d
  BY ContentsFit
<1> HIDE DEF d, n
<1>6. n \in 0..d
  BY <1>0, <1>1
<1>7. /\ Stored(bytes, read, n) = SubSeq(Contents, 1, n)
      /\ Contents' = SubSeq(Contents, n + 1, d)
  BY <1>0, <1>2, <1>3, <1>4, <1>6, StoredSplit, ZenonT(60)
<1>8. n \in 0..Len(Contents) /\ n <= MaxChunk
  BY <1>0, <1>5, <1>6, RingAssumption
<1> QED
  BY <1>1, <1>5, <1>7, <1>8, Zenon DEF Abstract!Pop

(* The copies of a push are not seen until they are published. *)
LEMMA CopyIsHidden ==
    ASSUME RingInv, PushCopy
    PROVE  UNCHANGED <<Contents, delivered>>
<1> DEFINE d == Distance(read, write)
<1>1. UNCHANGED <<read, write, delivered>>
  BY DEF PushCopy
<1>2. \A i \in 1..d : bytes'[SlotOf(read, i)] = bytes[SlotOf(read, i)]
  BY PushCopyKeeps
<1>3. Contents = Stored(bytes, read, d) /\ Contents' = Stored(bytes', read, d)
  BY <1>1, ContentsIs
<1> HIDE DEF d
<1>4. Stored(bytes', read, d) = Stored(bytes, read, d)
  BY <1>2, Zenon DEF Stored
<1> QED
  BY <1>1, <1>3, <1>4

LEMMA NothingStored == \A array, from : Stored(array, from, 0) = <<>>
<1>1. 1..0 = {}
  OBVIOUS
<1> QED
  BY <1>1 DEF Stored

(* The ring implements the bounded queue of bytes: what is popped is what  *)
(* was pushed, in order, whole and once, for every capacity, width and     *)
(* span (Push, Pop, Reset).                                                *)
THEOREM RingImplementsQueue == Spec => ImplementsQueue
<1>1. Init => Abstract!Init
  <2> SUFFICES ASSUME Init
               PROVE  Contents = <<>> /\ delivered = <<>>
    BY DEF Abstract!Init
  <2>1. Distance(read, write) = 0
    BY ResetEmpties DEF Init
  <2> QED
    BY <2>1, ContentsIs, NothingStored DEF Init
<1>2. ASSUME RingInv, [Next]_vars
      PROVE  [Abstract!Push \/ Abstract!Pop \/ Abstract!Reset]_<<Contents, delivered>>
  <2>0. ASSUME UNCHANGED <<bytes, read, write, delivered>>
        PROVE  UNCHANGED <<Contents, delivered>>
    BY <2>0 DEF Contents
  <2>1. CASE UNCHANGED vars
    BY <2>0, <2>1 DEF vars
  <2>2. CASE \E input \in Chunk : PushLoad(input)
    BY <2>0, <2>2 DEF PushLoad
  <2>3. CASE \E want \in 1..MaxChunk : PopLoad(want)
    BY <2>0, <2>3 DEF PopLoad
  <2>4. CASE PopCopy
    BY <2>0, <2>4 DEF PopCopy
  <2>5. CASE PushCopy
    BY <1>2, <2>5, CopyIsHidden
  <2>6. CASE PushPublish
    BY <1>2, <2>6, PushRefines
  <2>7. CASE PopPublish
    BY <1>2, <2>7, PopRefines
  <2>8. CASE Reset
    <3>1. read' = 0 /\ write' = 0 /\ UNCHANGED delivered
      BY <2>8 DEF Reset
    <3>2. Distance(read', write') = 0
      BY <3>1, ResetEmpties
    <3>3. Contents' = <<>>
      BY <3>2, ContentsIs, NothingStored
    <3> QED
      BY <3>1, <3>3 DEF Abstract!Reset
  <2> QED
    BY <1>2, <2>1, <2>2, <2>3, <2>4, <2>5, <2>6, <2>7, <2>8 DEF Next
<1> QED
  BY <1>1, <1>2, RingInvariant, PTL DEF Spec, ImplementsQueue, Abstract!Spec

=============================================================================
