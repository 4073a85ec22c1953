----------------------- MODULE TimerInterrupt_proofs -----------------------
(***************************************************************************)
(* No tick is lost and no handler is interrupted before its EOI, for every *)
(* capacity, counter width, depth and guest program.  The inductive        *)
(* invariant adds to the properties how the injected frames lie on the     *)
(* guest's stack, what the controller knows of the newest one, and how the *)
(* frames it tracks lie among those that stand.                            *)
(***************************************************************************)
EXTENDS TimerInterrupt, SequenceTheorems, WellFoundedInduction, TLAPS

(* The frames lie one above the other, a word or two apart, and the stack  *)
(* pointer is at the newest or one beyond it.                              *)
StackInv ==
    /\ \A i \in DOMAIN frames : frames[i].esp \in i..(2 * i)
    /\ \A i \in DOMAIN frames :
          i + 1 \in DOMAIN frames => frames[i + 1].esp - frames[i].esp \in 1..2
    /\ \A i, j \in DOMAIN frames : i < j => frames[i].esp < frames[j].esp
    /\ sp \in Floor..(Floor + 1)

(* While the newest handler has not written its EOI, IRQ0 is in service    *)
(* and the frame noted is not above the stack.                             *)
ServiceInv ==
    InHandler /\ ~Last(frames).acked => active /\ frameEsp <= Floor

(* Where returns are seen, the tracked frames are in order and begin with  *)
(* the two oldest that stand.                                              *)
HandlersInv ==
    seesReturn =>
        /\ \A i, j \in DOMAIN handlers : i < j => handlers[i] < handlers[j]
        /\ \A i \in 1..2 : i \in DOMAIN frames =>
              i \in DOMAIN handlers /\ handlers[i] = frames[i].esp

(* The inductive invariant. *)
TimerInv ==
    /\ TypeOK /\ TicksAccounted /\ PendingIffOwed
    /\ StackInv /\ ServiceInv /\ UnacknowledgedOnTop
    /\ HandlersInv /\ TrackedHandlersStand
    /\ returnSeen => seesReturn

-----------------------------------------------------------------------------
(* Counters that wrap. *)

(* A set of naturals that is not empty has a least element. *)
LEMMA LeastNatural ==
    ASSUME NEW T \in SUBSET Nat, T # {}
    PROVE  \E n \in T : \A m \in T : n <= m
<1>1. PICK x \in T : \A y \in T : ~ (<<y, x>> \in OpToRel(<, Nat))
  BY NatLessThanWellFounded, WFMin
<1>2. \A y \in T : ~(y < x)
  BY <1>1 DEF OpToRel
<1> QED
  BY <1>2

LEMMA Distributes ==
    ASSUME NEW m \in Int, NEW p \in Int, NEW q \in Int
    PROVE  /\ (p + q) * m = p * m + q * m /\ (p - q) * m = p * m - q * m
           /\ p * m \in Int /\ q * m \in Int /\ 1 * m = m /\ 0 * m = 0
OBVIOUS

(* A quotient and a remainder. *)
Divides(a, m) == \E q \in Int : \E r \in 0..(m - 1) : a = q * m + r

LEMMA RemainderUnique ==
    ASSUME NEW m \in Nat \ {0}, NEW a \in Int, NEW q \in Int, NEW r \in 0..(m - 1),
           a = q * m + r
    PROVE  a % m = r
OBVIOUS

LEMMA DivideNatural == ASSUME NEW m \in Nat \ {0}, NEW a \in Nat PROVE Divides(a, m)
<1> DEFINE T == {n \in Nat : ~Divides(n, m)}
<1> SUFFICES ASSUME T # {}
             PROVE  FALSE
  OBVIOUS
<1>1. PICK n \in T : \A k \in T : n <= k
  <2>1. T \in SUBSET Nat
    OBVIOUS
  <2> HIDE DEF T
  <2> QED
    BY <2>1, LeastNatural
<1>2. CASE n < m
  <2>1. n = 0 * m + n /\ n \in 0..(m - 1)
    BY <1>1, <1>2, Distributes
  <2> QED
    BY <1>1, <2>1 DEF Divides
<1>3. CASE n >= m
  <2>1. n - m \in Nat /\ n - m < n
    BY <1>1, <1>3
  <2>2. Divides(n - m, m)
    BY <1>1, <2>1
  <2>3. PICK q \in Int : \E r \in 0..(m - 1) : n - m = q * m + r
    BY <2>2 DEF Divides
  <2>4. PICK r \in 0..(m - 1) : n - m = q * m + r
    BY <2>3
  <2>5. (q + 1) * m = q * m + m /\ q * m \in Int
    BY Distributes
  <2>6. n = (q + 1) * m + r
    BY <1>1, <2>4, <2>5
  <2>7. q + 1 \in Int
    OBVIOUS
  <2> QED
    BY <1>1, <2>6, <2>7, Zenon DEF Divides
<1> QED
  BY <1>1, <1>2, <1>3

LEMMA Divide == ASSUME NEW m \in Nat \ {0}, NEW a \in Int PROVE Divides(a, m)
<1>1. CASE a \in Nat
  BY <1>1, DivideNatural
<1>2. CASE a \notin Nat
  <2>1. -a - 1 \in Nat
    BY <1>2
  <2>2. PICK q \in Int : \E r \in 0..(m - 1) : -a - 1 = q * m + r
    BY <2>1, DivideNatural DEF Divides
  <2>3. PICK r \in 0..(m - 1) : -a - 1 = q * m + r
    BY <2>2
  <2>4. /\ ((0 - 1) - q) * m = (0 - 1) * m - q * m /\ (0 - 1) * m = 0 * m - 1 * m
        /\ q * m \in Int /\ 1 * m = m /\ 0 * m = 0
    BY Distributes
  <2>5. a = ((0 - 1) - q) * m + ((m - 1) - r)
    BY <2>3, <2>4
  <2>6. (m - 1) - r \in 0..(m - 1) /\ (0 - 1) - q \in Int
    OBVIOUS
  <2> QED
    BY <2>5, <2>6 DEF Divides
<1> QED
  BY <1>1, <1>2

(* The multiples of the modulus, which are the numbers that leave no       *)
(* remainder.                                                              *)
Multiples == {q * CounterModulus : q \in Int}

LEMMA MultiplesClosed ==
    /\ 0 \in Multiples /\ Multiples \subseteq Int
    /\ \A v, w \in Multiples : v + w \in Multiples /\ v - w \in Multiples
<1> DEFINE m == CounterModulus
<1>1. m \in Int
  BY TimerAssumption
<1>2. Multiples = {q * m : q \in Int}
  BY DEF Multiples
<1> HIDE DEF m
<1>3. 0 \in Multiples
  <2>1. 0 * m = 0 /\ 0 \in Int
    BY <1>1, Distributes
  <2> QED
    BY <1>2, <2>1, Zenon
<1>4. Multiples \subseteq Int
  <2>1. \A q \in Int : q * m \in Int
    BY <1>1
  <2> QED
    BY <1>2, <2>1, Zenon
<1>5. ASSUME NEW v \in Multiples, NEW w \in Multiples
      PROVE  v + w \in Multiples /\ v - w \in Multiples
  <2>1. PICK p \in Int : v = p * m
    BY <1>2
  <2>2. PICK q \in Int : w = q * m
    BY <1>2
  <2>3. v + w = (p + q) * m /\ v - w = (p - q) * m
    BY <1>1, <2>1, <2>2, Distributes
  <2>4. p + q \in Int /\ p - q \in Int
    OBVIOUS
  <2> QED
    BY <1>2, <2>3, <2>4, Zenon
<1> QED
  BY <1>3, <1>4, <1>5

(* A remainder differs by a multiple. *)
LEMMA Remainder ==
    ASSUME NEW a \in Int
    PROVE  /\ a % CounterModulus \in 0..(CounterModulus - 1)
           /\ \E w \in Multiples : a % CounterModulus = a + w
           /\ a \in Multiples <=> a % CounterModulus = 0
<1> DEFINE m == CounterModulus
<1>1. m \in Nat \ {0}
  BY TimerAssumption
<1>2. Multiples = {q * m : q \in Int}
  BY DEF Multiples
<1> HIDE DEF m
<1>3. PICK q \in Int : \E r \in 0..(m - 1) : a = q * m + r
  BY <1>1, Divide DEF Divides
<1>4. PICK r \in 0..(m - 1) : a = q * m + r
  BY <1>3
<1>5. a % m = r
  BY <1>1, <1>4, RemainderUnique
<1>6. /\ (0 - q) * m = 0 * m - q * m /\ 0 * m = 0 /\ q * m \in Int /\ 0 - q \in Int
      /\ (0 - q) * m \in Int
  BY <1>1, Distributes
<1>7. r = a + (0 - q) * m /\ (r = 0 => a = q * m)
  BY <1>1, <1>4, <1>6
<1>8. (0 - q) * m \in Multiples
  BY <1>2, <1>6, Zenon
<1>9. \E w \in Multiples : a % m = a + w
  BY <1>5, <1>7, <1>8, Zenon
<1>10. a % m = 0 => a \in Multiples
  BY <1>2, <1>5, <1>7, Zenon
<1>11. ASSUME a \in Multiples
       PROVE  a % m = 0
  <2>1. PICK p \in Int : a = p * m
    BY <1>2, <1>11
  <2>2. a = p * m + 0 /\ 0 \in 0..(m - 1)
    BY <1>1, <2>1
  <2> QED
    BY <1>1, <2>2, RemainderUnique
<1>12. a % m \in 0..(m - 1)
  BY <1>5
<1> QED
  BY <1>9, <1>10, <1>11, <1>12 DEF m

(* A counter keeps its width. *)
LEMMA PlusWraps ==
    ASSUME NEW c \in Int, NEW n \in Int
    PROVE  /\ Plus(c, n) \in 0..(CounterModulus - 1)
           /\ \E w \in Multiples : Plus(c, n) = c + n + w
<1>1. c + n \in Int
  OBVIOUS
<1> QED
  BY <1>1, Remainder, Zenon DEF Plus

-----------------------------------------------------------------------------
(* The ticks. *)

(* Least is one of its arguments. *)
LEMMA LeastIs == ASSUME NEW a \in Int, NEW b \in Int
                 PROVE  /\ Least(a, b) = a \/ Least(a, b) = b
                        /\ Least(a, b) \in Int
                        /\ Least(a, b) <= a /\ Least(a, b) <= b
BY DEF Least

CountsInv ==
    /\ due \in 0..(CounterModulus - 1) /\ injected \in 0..(CounterModulus - 1)
    /\ dropped \in 0..(CounterModulus - 1)
    /\ backlog \in 0..BacklogCapacity /\ dueSize \in 0..DueCapacity
    /\ pendingTick \in BOOLEAN
    /\ TicksAccounted /\ PendingIffOwed

Unaccounted == due - injected - dropped - backlog

(* The books balance when the difference has changed by multiples only. *)
LEMMA BooksBalance ==
    ASSUME CountsInv, Unaccounted' \in Int, dueSize' = backlog',
           NEW v \in Multiples, NEW w \in Multiples, Unaccounted' = Unaccounted + v - w
    PROVE  TicksAccounted'
<1>0. CounterModulus \in Nat \ {0} /\ BacklogCapacity \in Nat
  BY TimerAssumption
<1>1. Unaccounted \in Int /\ Unaccounted % CounterModulus = 0
  BY <1>0 DEF CountsInv, TicksAccounted, Unaccounted
<1>2. Unaccounted \in Multiples
  BY <1>1, Remainder
<1> DEFINE d == Unaccounted
<1> HIDE DEF d
<1>3. d + v - w \in Multiples
  <2>1. v - w \in Multiples
    BY MultiplesClosed
  <2> QED
    BY <1>2, <2>1, MultiplesClosed DEF d
<1>4. Unaccounted' % CounterModulus = 0
  BY <1>3, Remainder DEF d
<1> QED
  BY <1>4 DEF TicksAccounted, Unaccounted

(* What CountsInv says in integers. *)
LEMMA CountsAreInts ==
    ASSUME CountsInv
    PROVE  /\ due \in Int /\ injected \in Int /\ dropped \in Int /\ backlog \in Int
           /\ backlog >= 0 /\ backlog <= BacklogCapacity
           /\ dueSize = backlog /\ BacklogCapacity \in Nat \ {0}
           /\ DueCapacity \in Nat /\ BacklogCapacity <= DueCapacity
           /\ pendingTick <=> backlog # 0
<1>1. /\ CounterModulus \in Nat \ {0} /\ BacklogCapacity \in Nat \ {0}
      /\ DueCapacity \in Nat /\ BacklogCapacity <= DueCapacity
  BY TimerAssumption
<1> QED
  BY <1>1 DEF CountsInv, TicksAccounted, PendingIffOwed

LEMMA CountsDue ==
    ASSUME CountsInv, NEW n \in 1..MaxDue, TicksDue(n)
    PROVE  CountsInv'
<1> DEFINE accepted == Least(n, BacklogCapacity - backlog)
<1>1. n \in Int /\ n >= 1
  BY TimerAssumption
<1>2. /\ due' = Plus(due, n) /\ dropped' = Plus(dropped, n - accepted)
      /\ injected' = injected /\ backlog' = backlog + accepted
      /\ dueSize' = Least(dueSize + accepted, DueCapacity) /\ pendingTick' = TRUE
  BY DEF TicksDue
<1>3. /\ accepted = n \/ accepted = BacklogCapacity - backlog
      /\ accepted \in Int /\ accepted <= BacklogCapacity - backlog
  <2>1. BacklogCapacity - backlog \in Int
    BY CountsAreInts
  <2> QED
    BY <1>1, <2>1, LeastIs, Zenon
<1> HIDE DEF accepted
<1>4. accepted >= 0 /\ (backlog = 0 => accepted >= 1)
  BY <1>1, <1>3, CountsAreInts
<1>5. PICK v \in Multiples : due' \in 0..(CounterModulus - 1) /\ due' = due + n + v
  BY <1>1, <1>2, CountsAreInts, PlusWraps
<1>6. n - accepted \in Int
  BY <1>1, <1>3
<1>7. PICK w \in Multiples : /\ dropped' \in 0..(CounterModulus - 1)
                             /\ dropped' = dropped + (n - accepted) + w
  BY <1>2, <1>6, CountsAreInts, PlusWraps
<1>8. v \in Int /\ w \in Int
  BY MultiplesClosed
<1>9. Unaccounted' \in Int /\ Unaccounted' = Unaccounted + v - w
  BY <1>1, <1>2, <1>3, <1>5, <1>7, <1>8, CountsAreInts DEF Unaccounted
<1>10. /\ dueSize' = backlog' /\ dueSize' \in 0..DueCapacity
       /\ backlog' \in 0..BacklogCapacity /\ backlog' # 0
  <2>1. backlog' \in 0..BacklogCapacity /\ backlog' # 0
    BY <1>2, <1>3, <1>4, CountsAreInts
  <2>2. dueSize + accepted = backlog' /\ backlog' <= DueCapacity
    BY <1>2, <1>3, <2>1, CountsAreInts
  <2> QED
    BY <1>2, <2>1, <2>2, CountsAreInts DEF Least
<1>11. TicksAccounted'
  BY <1>9, <1>10, BooksBalance
<1>12. injected' \in 0..(CounterModulus - 1)
  BY <1>2 DEF CountsInv
<1> QED
  BY <1>2, <1>5, <1>7, <1>10, <1>11, <1>12 DEF CountsInv, PendingIffOwed

LEMMA CountsNoVector ==
    ASSUME CountsInv, NEW trap \in BOOLEAN, NoVector(trap)
    PROVE  CountsInv'
<1>1. /\ dropped' = Plus(dropped, backlog) /\ due' = due /\ injected' = injected
      /\ backlog' = 0 /\ dueSize' = 0 /\ pendingTick' = FALSE
  BY DEF NoVector
<1>2. PICK w \in Multiples : /\ dropped' \in 0..(CounterModulus - 1)
                             /\ dropped' = dropped + backlog + w
  BY <1>1, CountsAreInts, PlusWraps
<1>3. w \in Int /\ 0 \in Multiples
  BY MultiplesClosed
<1>4. Unaccounted' \in Int /\ Unaccounted' = Unaccounted + 0 - w
  BY <1>1, <1>2, <1>3, CountsAreInts DEF Unaccounted
<1>5. TicksAccounted'
  BY <1>1, <1>3, <1>4, BooksBalance
<1>6. /\ due' \in 0..(CounterModulus - 1) /\ injected' \in 0..(CounterModulus - 1)
      /\ backlog' \in 0..BacklogCapacity /\ dueSize' \in 0..DueCapacity
  BY <1>1, CountsAreInts DEF CountsInv
<1> QED
  BY <1>1, <1>2, <1>5, <1>6 DEF CountsInv, PendingIffOwed

LEMMA CountsInject ==
    ASSUME CountsInv, NEW trap \in BOOLEAN, NEW fast \in BOOLEAN, Inject(trap, fast)
    PROVE  CountsInv'
<1>1. /\ injected' = Plus(injected, 1) /\ due' = due /\ dropped' = dropped
      /\ pendingTick /\ pendingTick' = (backlog > 1)
      /\ backlog' = (IF backlog # 0 THEN backlog - 1 ELSE 0)
      /\ dueSize' = (IF dueSize # 0 THEN dueSize - 1 ELSE 0)
  BY DEF Inject, KeepArmed
<1>2. backlog # 0 /\ dueSize = backlog /\ backlog \in Int
  BY <1>1, CountsAreInts, Zenon
<1>3. backlog' = backlog - 1 /\ dueSize' = backlog - 1 /\ backlog >= 1
  BY <1>1, <1>2, CountsAreInts
<1>4. 1 \in Int
  OBVIOUS
<1>5. PICK v \in Multiples : /\ injected' \in 0..(CounterModulus - 1)
                             /\ injected' = injected + 1 + v
  BY <1>1, <1>4, CountsAreInts, PlusWraps
<1>6. v \in Int /\ 0 \in Multiples
  BY MultiplesClosed
<1>7. Unaccounted' \in Int /\ Unaccounted' = Unaccounted + 0 - v
  BY <1>1, <1>3, <1>5, <1>6, CountsAreInts DEF Unaccounted
<1>8. TicksAccounted'
  BY <1>3, <1>6, <1>7, BooksBalance
<1>9. (backlog > 1) <=> backlog' # 0
  BY <1>2, <1>3
<1>10. PendingIffOwed' /\ pendingTick' \in BOOLEAN
  <2>1. pendingTick' \in BOOLEAN
    BY <1>1
  <2>2. pendingTick' <=> backlog > 1
    BY <1>1
  <2> QED
    BY <1>9, <2>1, <2>2, Zenon DEF PendingIffOwed
<1>11. /\ due' \in 0..(CounterModulus - 1) /\ dropped' \in 0..(CounterModulus - 1)
       /\ backlog' \in 0..BacklogCapacity /\ dueSize' \in 0..DueCapacity
  BY <1>1, <1>3, CountsAreInts DEF CountsInv
<1> QED
  BY <1>5, <1>8, <1>10, <1>11, Zenon DEF CountsInv

-----------------------------------------------------------------------------
(* The guest's stack. *)

Frame == [esp : 0..NoFrame, acked : BOOLEAN]

FramesOK ==
    /\ sp \in 0..NoFrame
    /\ frames \in Seq(Frame) /\ Len(frames) <= MaxNesting
    /\ StackInv

(* The newest frame and the one under it. *)
LEMMA FramesTyped ==
    ASSUME FramesOK
    PROVE  /\ Len(frames) \in Nat /\ DOMAIN frames = 1..Len(frames)
           /\ MaxNesting \in Nat \ {0} /\ NoFrame = 2 * MaxNesting + 2
           /\ \A i \in DOMAIN frames : /\ frames[i] \in Frame /\ frames[i].esp \in Int
                                       /\ frames[i].acked \in BOOLEAN
           /\ sp \in Int /\ Floor \in Int /\ Floor >= 0 /\ Floor <= 2 * Len(frames)
           /\ Floor <= sp /\ sp <= Floor + 1
           /\ ~InHandler => frames = <<>> /\ Len(frames) = 0 /\ Floor = 0
           /\ InHandler => /\ Len(frames) \in DOMAIN frames
                           /\ Last(frames) = frames[Len(frames)]
                           /\ Floor = frames[Len(frames)].esp /\ Floor >= 1
<1>1. frames \in Seq(Frame) /\ MaxNesting \in Nat \ {0} /\ NoFrame = 2 * MaxNesting + 2
  BY TimerAssumption DEF FramesOK, NoFrame
<1>2. Len(frames) \in Nat /\ DOMAIN frames = 1..Len(frames)
  BY <1>1, LenProperties
<1>3. \A i \in DOMAIN frames : frames[i] \in Frame
  BY <1>1, <1>2, ElementOfSeq
<1>4. \A i \in DOMAIN frames : frames[i].esp \in Int /\ frames[i].acked \in BOOLEAN
  BY <1>1, <1>3 DEF Frame
<1>5. ~InHandler => frames = <<>> /\ Len(frames) = 0 /\ Floor = 0
  BY DEF InHandler, Floor
<1>6. InHandler => /\ Len(frames) \in DOMAIN frames
                   /\ Last(frames) = frames[Len(frames)]
                   /\ Floor = frames[Len(frames)].esp
  <2> SUFFICES ASSUME InHandler
               PROVE  /\ Len(frames) \in DOMAIN frames
                      /\ Last(frames) = frames[Len(frames)]
                      /\ Floor = frames[Len(frames)].esp
    OBVIOUS
  <2>1. Len(frames) # 0
    BY <1>1, EmptySeq DEF InHandler
  <2>2. Last(frames) = frames[Len(frames)]
    BY DEF Last
  <2> QED
    BY <1>2, <2>1, <2>2 DEF Floor
<1>7. InHandler => Floor \in Len(frames)..(2 * Len(frames))
  BY <1>6 DEF FramesOK, StackInv
<1>8. Floor \in Int /\ Floor >= 0 /\ Floor <= 2 * Len(frames) /\ (InHandler => Floor >= 1)
  BY <1>2, <1>5, <1>6, <1>7
<1>9. sp \in Int /\ Floor <= sp /\ sp <= Floor + 1
  BY <1>8 DEF FramesOK, StackInv
<1> QED
  BY <1>1, <1>2, <1>3, <1>4, <1>5, <1>6, <1>8, <1>9

(* The last of a sequence and the sequence without it. *)
LEMMA FrontLast ==
    ASSUME NEW S, NEW s \in Seq(S), s # <<>>
    PROVE  /\ Len(s) \in Nat \ {0} /\ DOMAIN s = 1..Len(s)
           /\ Last(s) = s[Len(s)] /\ Last(s) \in S
           /\ Front(s) \in Seq(S) /\ DOMAIN Front(s) = 1..(Len(s) - 1)
           /\ Len(Front(s)) = Len(s) - 1
           /\ \A i \in 1..(Len(s) - 1) : Front(s)[i] = s[i]
<1>1. Len(s) \in Nat \ {0} /\ DOMAIN s = 1..Len(s)
  BY EmptySeq, LenProperties
<1>2. \A i \in 1..Len(s) : s[i] \in S
  BY ElementOfSeq
<1>3. Last(s) = s[Len(s)] /\ Last(s) \in S
  BY <1>1, <1>2 DEF Last
<1>4. /\ SubSeq(s, 1, Len(s) - 1) \in Seq(S)
      /\ Len(SubSeq(s, 1, Len(s) - 1)) = Len(s) - 1
      /\ \A i \in 1..(Len(s) - 1) : SubSeq(s, 1, Len(s) - 1)[i] = s[i]
  <2>1. /\ 1 \in Int /\ Len(s) - 1 \in Int
        /\ \A i \in 1..(Len(s) - 1) : s[i] \in S
    BY <1>1, <1>2
  <2>2. /\ SubSeq(s, 1, Len(s) - 1) \in Seq(S)
        /\ Len(SubSeq(s, 1, Len(s) - 1))
             = IF 1 <= Len(s) - 1 THEN Len(s) - 1 - 1 + 1 ELSE 0
        /\ \A i \in 1..(Len(s) - 1 - 1 + 1) : SubSeq(s, 1, Len(s) - 1)[i] = s[1 + i - 1]
    BY <2>1, SubSeqProperties
  <2> QED
    BY <1>1, <2>2
<1>5. Front(s) \in Seq(S) /\ DOMAIN Front(s) = 1..(Len(s) - 1)
  BY <1>1, <1>4, LenProperties DEF Front
<1>6. Len(Front(s)) = Len(s) - 1
  BY <1>4 DEF Front
<1> QED
  BY <1>1, <1>3, <1>4, <1>5, <1>6 DEF Front

(* A sequence with one more element, or with another. *)
LEMMA AppendExcept ==
    ASSUME NEW S, NEW s \in Seq(S), NEW e \in S
    PROVE  /\ Append(s, e) \in Seq(S) /\ Len(Append(s, e)) = Len(s) + 1
           /\ \A i \in 1..Len(s) : Append(s, e)[i] = s[i]
           /\ Append(s, e)[Len(s) + 1] = e
           /\ \A k \in 1..Len(s) :
                 /\ [s EXCEPT ![k] = e] \in Seq(S) /\ Len([s EXCEPT ![k] = e]) = Len(s)
                 /\ \A i \in 1..Len(s) : [s EXCEPT ![k] = e][i] = IF i = k THEN e ELSE s[i]
BY LenProperties, AppendProperties, ExceptSeq

(* The list without its newest frame. *)
LEMMA FramesFront ==
    ASSUME FramesOK, InHandler
    PROVE  /\ Front(frames) \in Seq(Frame) /\ Len(Front(frames)) = Len(frames) - 1
           /\ DOMAIN Front(frames) = 1..(Len(frames) - 1)
           /\ \A i \in 1..(Len(frames) - 1) : Front(frames)[i] = frames[i]
<1>1. frames \in Seq(Frame) /\ frames # <<>>
  BY DEF FramesOK, InHandler
<1>2. /\ Len(frames) \in Nat \ {0} /\ Front(frames) \in Seq(Frame)
      /\ DOMAIN Front(frames) = 1..(Len(frames) - 1)
      /\ \A i \in 1..(Len(frames) - 1) : Front(frames)[i] = frames[i]
  BY <1>1, FrontLast, Zenon
<1>3. Len(Front(frames)) = Len(frames) - 1
  BY <1>2, LenProperties
<1> QED
  BY <1>2, <1>3

(* The list with a new frame. *)
LEMMA FramesAppend ==
    ASSUME FramesOK, NEW e \in Frame, frames' = Append(frames, e)
    PROVE  /\ frames' \in Seq(Frame) /\ Len(frames') = Len(frames) + 1
           /\ DOMAIN frames' = 1..(Len(frames) + 1)
           /\ \A i \in 1..Len(frames) : frames'[i] = frames[i]
           /\ frames'[Len(frames) + 1] = e
BY AppendProperties, LenProperties DEF FramesOK

(* The stack pointer moves within the newest frame. *)
LEMMA StackMoves ==
    ASSUME FramesOK, frames' = frames, sp' \in Floor..(Floor + 1)
    PROVE  FramesOK'
<1>1. Floor' = Floor
  BY DEF Floor, InHandler
<1>2. sp' \in 0..NoFrame
  BY FramesTyped DEF FramesOK
<1> QED
  BY <1>1, <1>2 DEF FramesOK, StackInv

(* An EOI is noted in the newest frame. *)
LEMMA StackEoi ==
    ASSUME FramesOK, InHandler, sp' = sp,
           frames' = [frames EXCEPT ![Len(frames)].acked = TRUE]
    PROVE  /\ FramesOK' /\ InHandler' /\ Floor' = Floor
           /\ DOMAIN frames' = DOMAIN frames /\ Len(frames') = Len(frames)
           /\ \A i \in DOMAIN frames :
                 /\ frames'[i].esp = frames[i].esp
                 /\ frames'[i].acked = IF i = Len(frames) THEN TRUE ELSE frames[i].acked
<1> DEFINE n == Len(frames)
<1>1. /\ frames \in Seq(Frame) /\ n \in Nat /\ n \in DOMAIN frames /\ DOMAIN frames = 1..n
      /\ \A i \in DOMAIN frames : frames[i] \in Frame
      /\ Floor = frames[n].esp
  BY FramesTyped DEF FramesOK
<1>2. /\ frames' = [i \in 1..n |-> IF i = n THEN [frames[n] EXCEPT !.acked = TRUE]
                                            ELSE frames[i]]
  BY <1>1
<1>3. /\ [frames[n] EXCEPT !.acked = TRUE] \in Frame
      /\ [frames[n] EXCEPT !.acked = TRUE].esp = frames[n].esp
      /\ [frames[n] EXCEPT !.acked = TRUE].acked = TRUE
  BY <1>1 DEF Frame
<1> HIDE DEF n
<1>4. DOMAIN frames' = 1..n /\ \A i \in 1..n : frames'[i] \in Frame
  BY <1>1, <1>2, <1>3
<1>5. frames' \in Seq(Frame) /\ Len(frames') = n
  <2>1. frames' \in [1..n -> Frame]
    BY <1>1, <1>2, <1>3
  <2>2. frames' \in Seq(Frame)
    BY <1>1, <2>1, SeqDef
  <2> QED
    BY <1>1, <1>4, <2>2, LenProperties
<1>6. \A i \in 1..n : /\ frames'[i].esp = frames[i].esp
                      /\ frames'[i].acked = IF i = n THEN TRUE ELSE frames[i].acked
  BY <1>1, <1>2, <1>3
<1>7. InHandler' /\ Floor' = Floor
  <2>1. frames' # <<>>
    BY <1>1, <1>4
  <2>2. Last(frames') = frames'[n]
    BY <1>5 DEF Last
  <2> QED
    BY <1>1, <1>6, <2>1, <2>2 DEF InHandler, Floor
<1>8. StackInv'
  BY <1>1, <1>4, <1>6, <1>7 DEF FramesOK, StackInv
<1> QED
  BY <1>1, <1>4, <1>5, <1>6, <1>7, <1>8 DEF FramesOK, n

(* A handler returns to the code under it. *)
LEMMA StackReturns ==
    ASSUME FramesOK, InHandler, sp' = Floor - 1, frames' = Front(frames)
    PROVE  /\ FramesOK' /\ Len(frames') = Len(frames) - 1
           /\ DOMAIN frames' = 1..(Len(frames) - 1)
           /\ \A i \in DOMAIN frames' : frames'[i] = frames[i] /\ i \in DOMAIN frames
<1> DEFINE n == Len(frames)
<1>1. /\ n \in Nat /\ n # 0 /\ DOMAIN frames = 1..n
      /\ \A i \in DOMAIN frames : frames[i].esp \in Int
      /\ Floor = frames[n].esp /\ n <= MaxNesting /\ MaxNesting \in Nat
      /\ Floor \in Int /\ Floor >= 1 /\ NoFrame = 2 * MaxNesting + 2 /\ Floor <= 2 * n
  BY FramesTyped DEF FramesOK
<1>2. /\ frames' \in Seq(Frame) /\ Len(frames') = n - 1
      /\ DOMAIN frames' = 1..(n - 1)
      /\ \A i \in 1..(n - 1) : frames'[i] = frames[i]
  BY FramesFront
<1>3. /\ \A i \in DOMAIN frames : frames[i].esp \in i..(2 * i)
      /\ \A i \in DOMAIN frames :
            i + 1 \in DOMAIN frames => frames[i + 1].esp - frames[i].esp \in 1..2
      /\ \A i, j \in DOMAIN frames : i < j => frames[i].esp < frames[j].esp
  BY DEF FramesOK, StackInv
<1> HIDE DEF n
<1>4. sp' \in Floor'..(Floor' + 1)
  <2>1. CASE n = 1
    <3>1. frames' = <<>>
      BY <1>2, <2>1, EmptySeq
    <3>2. Floor' = 0
      BY <3>1 DEF Floor, InHandler
    <3>3. frames[1].esp \in 1..2
      BY <1>1, <1>3, <2>1
    <3> QED
      BY <1>1, <2>1, <3>2, <3>3
  <2>2. CASE n # 1
    <3>1. n - 1 \in DOMAIN frames' /\ n - 1 \in DOMAIN frames /\ (n - 1) + 1 = n
      BY <1>1, <1>2, <2>2
    <3>2. frames' # <<>>
      BY <3>1
    <3>3. Floor' = frames[n - 1].esp
      BY <1>2, <3>1, <3>2 DEF Floor, InHandler, Last
    <3>4. frames[n].esp - frames[n - 1].esp \in 1..2
      <4>1. n \in DOMAIN frames
        BY <1>1
      <4>2. (n - 1) + 1 \in DOMAIN frames
        BY <3>1, <4>1
      <4>3. frames[(n - 1) + 1].esp - frames[n - 1].esp \in 1..2
        BY <1>3, <3>1, <4>2
      <4> QED
        BY <3>1, <4>3
    <3> QED
      BY <1>1, <3>1, <3>3, <3>4, SMTT(30)
  <2> QED
    BY <2>1, <2>2
<1>5. \A i \in DOMAIN frames' : i \in DOMAIN frames /\ frames'[i] = frames[i]
  BY <1>1, <1>2
<1>6. StackInv'
  <2>1. \A i \in DOMAIN frames' : frames'[i].esp \in i..(2 * i)
    BY <1>3, <1>5
  <2>2. \A i \in DOMAIN frames' :
            i + 1 \in DOMAIN frames' => frames'[i + 1].esp - frames'[i].esp \in 1..2
    BY <1>3, <1>5
  <2>3. \A i, j \in DOMAIN frames' : i < j => frames'[i].esp < frames'[j].esp
    BY <1>3, <1>5
  <2> QED
    BY <1>4, <2>1, <2>2, <2>3 DEF StackInv
<1>7. sp' \in 0..NoFrame
  BY <1>1
<1> QED
  BY <1>1, <1>2, <1>5, <1>6, <1>7 DEF FramesOK, n

(* A tick is injected on top of what there is. *)
LEMMA StackInjects ==
    ASSUME FramesOK, Len(frames) < MaxNesting, sp' = sp + 1,
           frames' = Append(frames, [esp |-> sp + 1, acked |-> FALSE])
    PROVE  /\ FramesOK' /\ InHandler' /\ Floor' = sp + 1
           /\ Len(frames') = Len(frames) + 1 /\ DOMAIN frames' = 1..(Len(frames) + 1)
           /\ \A i \in DOMAIN frames : frames'[i] = frames[i]
           /\ frames'[Len(frames) + 1].esp = sp + 1
           /\ frames'[Len(frames) + 1].acked = FALSE
           /\ Last(frames') = frames'[Len(frames) + 1]
<1> DEFINE n == Len(frames)
           e == [esp |-> sp + 1, acked |-> FALSE]
<1>1. /\ n \in Nat /\ DOMAIN frames = 1..n /\ n < MaxNesting /\ MaxNesting \in Nat
      /\ \A i \in DOMAIN frames : frames[i].esp \in Int
      /\ sp \in Int /\ Floor \in Int /\ Floor >= 0 /\ Floor <= 2 * n
      /\ Floor <= sp /\ sp <= Floor + 1 /\ NoFrame = 2 * MaxNesting + 2
      /\ n = 0 => Floor = 0
      /\ n # 0 => Floor = frames[n].esp
  BY FramesTyped DEF InHandler
<1>2. e \in Frame
  <2>1. sp + 1 \in 0..NoFrame
    BY <1>1
  <2> QED
    BY <2>1 DEF Frame
<1>3. /\ frames' \in Seq(Frame) /\ Len(frames') = n + 1
      /\ DOMAIN frames' = 1..(n + 1)
      /\ \A i \in 1..n : frames'[i] = frames[i]
      /\ frames'[n + 1] = e
  BY <1>2, FramesAppend
<1>4. /\ \A i \in DOMAIN frames : frames[i].esp \in i..(2 * i)
      /\ \A i \in DOMAIN frames :
            i + 1 \in DOMAIN frames => frames[i + 1].esp - frames[i].esp \in 1..2
      /\ \A i, j \in DOMAIN frames : i < j => frames[i].esp < frames[j].esp
  BY DEF FramesOK, StackInv
<1>5. frames'[n + 1].esp = sp + 1 /\ frames'[n + 1].acked = FALSE
  BY <1>3
<1> HIDE DEF n, e
<1>6. /\ n + 1 \in DOMAIN frames'
      /\ \A i \in DOMAIN frames' : i # n + 1 => i \in DOMAIN frames /\ frames'[i] = frames[i]
      /\ \A i \in DOMAIN frames : i < n + 1
  <2>1. /\ n \in Nat /\ DOMAIN frames = 1..n /\ DOMAIN frames' = 1..(n + 1)
        /\ \A i \in 1..n : frames'[i] = frames[i]
    BY <1>1, <1>3
  <2>2. /\ n + 1 \in 1..(n + 1) /\ \A i \in 1..(n + 1) : i # n + 1 => i \in 1..n
        /\ \A i \in 1..n : i < n + 1
    BY <2>1
  <2> QED
    BY <2>1, <2>2, Zenon
<1>7. InHandler' /\ Last(frames') = frames'[n + 1] /\ Floor' = sp + 1
  <2>1. frames' # <<>>
    BY <1>6
  <2>2. Last(frames') = frames'[n + 1]
    BY <1>3 DEF Last
  <2> QED
    BY <1>5, <2>1, <2>2 DEF InHandler, Floor
<1>8. \A i \in DOMAIN frames : frames[i].esp <= Floor
  <2> SUFFICES ASSUME NEW i \in DOMAIN frames
               PROVE  frames[i].esp <= Floor
    OBVIOUS
  <2>1. n # 0 /\ n \in DOMAIN frames /\ (i = n \/ i < n)
    BY <1>1
  <2> QED
    BY <1>1, <1>4, <2>1
<1>9. StackInv'
  <2>1. n + 1 <= sp + 1 /\ sp + 1 <= 2 * (n + 1)
    <3>1. CASE n = 0
      BY <1>1, <3>1
    <3>2. CASE n # 0
      <4>1. Floor \in n..(2 * n)
        BY <1>1, <1>4, <3>2
      <4> QED
        BY <1>1, <4>1
    <3> QED
      BY <3>1, <3>2
  <2>2. \A i \in DOMAIN frames' : frames'[i].esp \in i..(2 * i)
    BY <1>1, <1>4, <1>5, <1>6, <2>1
  <2>3. ASSUME NEW i \in DOMAIN frames', i + 1 \in DOMAIN frames'
        PROVE  frames'[i + 1].esp - frames'[i].esp \in 1..2
    <3>1. i # n + 1 /\ i \in Int
      BY <1>1, <1>3, <2>3
    <3>2. i \in DOMAIN frames /\ frames'[i] = frames[i]
      BY <1>6, <3>1
    <3>3. CASE i + 1 = n + 1
      <4>1. i = n /\ n # 0 /\ Floor = frames[n].esp
        BY <1>1, <3>1, <3>2, <3>3
      <4> QED
        BY <1>1, <1>5, <3>2, <4>1
    <3>4. CASE i + 1 # n + 1
      BY <1>4, <1>6, <2>3, <3>2, <3>4
    <3> QED
      BY <3>3, <3>4
  <2>4. ASSUME NEW i \in DOMAIN frames', NEW j \in DOMAIN frames', i < j
        PROVE  frames'[i].esp < frames'[j].esp
    <3>1. i # n + 1
      BY <1>1, <1>3, <2>4
    <3>2. i \in DOMAIN frames /\ frames'[i] = frames[i]
      BY <1>6, <3>1
    <3>3. CASE j = n + 1
      BY <1>1, <1>5, <1>8, <3>2, <3>3
    <3>4. CASE j # n + 1
      BY <1>4, <1>6, <2>4, <3>2, <3>4
    <3> QED
      BY <3>3, <3>4
  <2>5. sp' \in Floor'..(Floor' + 1)
    BY <1>1, <1>7
  <2> QED
    BY <2>2, <2>3, <2>4, <2>5, Zenon DEF StackInv
<1>10. sp' \in 0..NoFrame /\ Len(frames') <= MaxNesting
  BY <1>1, <1>3
<1> QED
  BY <1>1, <1>3, <1>5, <1>7, <1>9, <1>10 DEF FramesOK, n

-----------------------------------------------------------------------------
(* The frames the controller tracks. *)

Tracked == 0..NoFrame

HandlersOK ==
    /\ handlers \in Seq(Tracked) /\ Len(handlers) <= HandlerFrames
    /\ HandlersInv /\ TrackedHandlersStand

CutAt(n) == /\ \A i \in (n + 1)..Len(handlers) : sp < handlers[i]
            /\ n = 0 \/ handlers[n] <= sp

LEMMA HandlersTyped ==
    ASSUME HandlersOK, FramesOK
    PROVE  /\ Len(handlers) \in Nat /\ DOMAIN handlers = 1..Len(handlers)
           /\ \A i \in DOMAIN handlers : handlers[i] \in Tracked /\ handlers[i] \in Int
<1>1. handlers \in Seq(Tracked)
  BY DEF HandlersOK
<1>2. Len(handlers) \in Nat /\ DOMAIN handlers = 1..Len(handlers)
  BY <1>1, LenProperties
<1>3. \A i \in DOMAIN handlers : handlers[i] \in Tracked
  BY <1>1, <1>2, ElementOfSeq
<1>4. NoFrame \in Int
  BY FramesTyped
<1> QED
  BY <1>2, <1>3, <1>4 DEF Tracked

(* PicTimerBlocksInjection's loop stops somewhere: the frames it keeps are *)
(* a prefix of the tracked ones.                                           *)
LEMMA StandingIsPrefix ==
    ASSUME HandlersOK, FramesOK
    PROVE  \E n \in 0..Len(handlers) : CutAt(n) /\ StandingHandlers = SubSeq(handlers, 1, n)
<1> DEFINE l == Len(handlers)
           T == {k \in Nat : k <= l /\ (l - k = 0 \/ handlers[l - k] <= sp)}
<1>1. l \in Nat /\ sp \in Int /\ DOMAIN handlers = 1..l /\ \A i \in 1..l : handlers[i] \in Int
  BY HandlersTyped, FramesTyped
<1>2. PICK k \in T : \A j \in T : k <= j
  <2>1. T \in SUBSET Nat /\ l \in T
    BY <1>1
  <2> HIDE DEF T
  <2> QED
    BY <2>1, LeastNatural
<1>3. /\ k \in Nat /\ k <= l /\ (l - k = 0 \/ handlers[l - k] <= sp)
      /\ \A j \in Nat : j <= l /\ j < k => l - j # 0 /\ ~(handlers[l - j] <= sp)
  <2>1. \A j \in Nat : j < k => ~(k <= j)
    BY <1>2
  <2> QED
    BY <1>2, <2>1, Zenon
<1> HIDE DEF l, T
<1>4. ASSUME NEW i \in (l - k + 1)..l
      PROVE  sp < handlers[i]
  <2>1. l - i \in Nat /\ l - i <= l /\ l - i < k /\ l - (l - i) = i /\ i \in 1..l
    BY <1>1, <1>3
  <2>2. ~(handlers[l - (l - i)] <= sp)
    BY <1>3, <2>1, Zenon
  <2>3. ~(handlers[i] <= sp) /\ handlers[i] \in Int
    BY <1>1, <2>1, <2>2
  <2> QED
    BY <1>1, <2>3
<1>5. l - k \in 0..Len(handlers) /\ CutAt(l - k)
  <2>1. l - k \in 0..l
    BY <1>1, <1>3
  <2> QED
    BY <1>3, <1>4, <2>1, Zenon DEF CutAt, l
<1>6. \E n \in 0..Len(handlers) : CutAt(n)
  BY <1>5
<1>7. StandingHandlers = SubSeq(handlers, 1, CHOOSE n \in 0..Len(handlers) : CutAt(n))
  BY DEF StandingHandlers, CutAt
<1> QED
  BY <1>6, <1>7, Zenon

(* What is kept is tracked, and no longer than before. *)
LEMMA StandingTyped ==
    ASSUME HandlersOK, FramesOK
    PROVE  /\ StandingHandlers \in Seq(Tracked) /\ Len(StandingHandlers) \in Nat
           /\ Len(StandingHandlers) <= Len(handlers)
<1>1. PICK n \in 0..Len(handlers) : StandingHandlers = SubSeq(handlers, 1, n)
  BY StandingIsPrefix
<1>2. Len(handlers) \in Nat /\ \A i \in 1..Len(handlers) : handlers[i] \in Tracked
  BY HandlersTyped
<1>3. n \in Int /\ 1 \in Int /\ n <= Len(handlers) /\ \A i \in 1..n : handlers[i] \in Tracked
  BY <1>2
<1>4. /\ SubSeq(handlers, 1, n) \in Seq(Tracked)
      /\ Len(SubSeq(handlers, 1, n)) = IF 1 <= n THEN n - 1 + 1 ELSE 0
  BY <1>3, SubSeqProperties
<1> QED
  BY <1>1, <1>2, <1>3, <1>4

(* Where returns are seen nothing is above the stack. *)
LEMMA StandingAll ==
    ASSUME HandlersOK, FramesOK, seesReturn
    PROVE  StandingHandlers = handlers /\ \A i \in DOMAIN handlers : handlers[i] <= Floor
<1>1. \A i \in DOMAIN handlers : handlers[i] <= Floor
  <2> SUFFICES ASSUME NEW i \in DOMAIN handlers
               PROVE  handlers[i] <= Floor
    OBVIOUS
  <2>1. PICK j \in DOMAIN frames : frames[j].esp = handlers[i]
    BY DEF HandlersOK, TrackedHandlersStand
  <2>2. /\ Len(frames) \in Nat /\ DOMAIN frames = 1..Len(frames)
        /\ \A k \in DOMAIN frames : frames[k].esp \in Int
    BY FramesTyped
  <2>3. Len(frames) \in DOMAIN frames /\ InHandler
    BY <2>1, <2>2 DEF InHandler
  <2>4. Floor = frames[Len(frames)].esp
    BY <2>3, FramesTyped
  <2>5. j = Len(frames) \/ j < Len(frames)
    BY <2>2
  <2>6. frames[j].esp <= frames[Len(frames)].esp
    BY <2>2, <2>3, <2>5 DEF FramesOK, StackInv
  <2> QED
    BY <2>1, <2>4, <2>6
<1>2. PICK n \in 0..Len(handlers) : CutAt(n) /\ StandingHandlers = SubSeq(handlers, 1, n)
  BY StandingIsPrefix
<1>3. n = Len(handlers)
  <2> SUFFICES ASSUME n # Len(handlers)
               PROVE  FALSE
    OBVIOUS
  <2> DEFINE l == Len(handlers)
  <2>1. l \in Nat /\ DOMAIN handlers = 1..l /\ n \in 0..l /\ n # l
    BY HandlersTyped
  <2>2. (\A i \in (n + 1)..l : sp < handlers[i]) /\ \A i \in DOMAIN handlers : handlers[i] \in Int
    BY <1>2, HandlersTyped DEF CutAt
  <2> HIDE DEF l
  <2>3. l \in (n + 1)..l /\ l \in 1..l
    BY <2>1
  <2>4. sp < handlers[l] /\ handlers[l] <= Floor /\ handlers[l] \in Int
    BY <1>1, <2>1, <2>2, <2>3
  <2>5. sp \in Int /\ Floor \in Int /\ Floor <= sp
    BY FramesTyped
  <2> QED
    BY <2>4, <2>5
<1>4. SubSeq(handlers, 1, Len(handlers)) = handlers
  BY SubSeqFull DEF HandlersOK
<1> QED
  BY <1>1, <1>2, <1>3, <1>4

(* How many are tracked says how many stand, as far as the nesting rule    *)
(* tells them apart.                                                       *)
LEMMA NestingKnown ==
    ASSUME HandlersOK, FramesOK, seesReturn
    PROVE  /\ Len(handlers) = 0 => Len(frames) = 0
           /\ Len(handlers) = 1 => Len(frames) = 1
           /\ Len(frames) = 0 => Len(handlers) = 0
           /\ Len(frames) = 1 => Len(handlers) = 1
           /\ Len(frames) = 2 => Len(handlers) = 2
           /\ Len(frames) >= 2 => Len(handlers) >= 2
<1>1. /\ Len(frames) \in Nat /\ DOMAIN frames = 1..Len(frames)
      /\ Len(handlers) \in Nat /\ DOMAIN handlers = 1..Len(handlers)
      /\ \A i \in DOMAIN handlers : handlers[i] \in Int
      /\ \A i \in DOMAIN frames : frames[i].esp \in Int
  BY FramesTyped, HandlersTyped
<1>2. /\ \A i, j \in DOMAIN handlers : i < j => handlers[i] < handlers[j]
      /\ \A i \in 1..2 : i \in DOMAIN frames =>
            i \in DOMAIN handlers /\ handlers[i] = frames[i].esp
      /\ \A i \in DOMAIN handlers : \E j \in DOMAIN frames : frames[j].esp = handlers[i]
      /\ \A i \in DOMAIN handlers : handlers[i] <= Floor
  BY StandingAll DEF HandlersOK, HandlersInv, TrackedHandlersStand
<1>3. Len(frames) >= 1 => Len(handlers) >= 1
  BY <1>1, <1>2
<1>4. Len(frames) >= 2 => Len(handlers) >= 2
  BY <1>1, <1>2
<1>5. Len(frames) = 0 => Len(handlers) = 0
  <2> SUFFICES ASSUME Len(frames) = 0, Len(handlers) # 0
               PROVE  FALSE
    OBVIOUS
  <2>1. 1 \in DOMAIN handlers
    BY <1>1
  <2>2. PICK j \in DOMAIN frames : frames[j].esp = handlers[1]
    BY <1>2, <2>1
  <2> QED
    BY <1>1, <2>2
<1>6. ASSUME NEW n \in 1..2, Len(frames) = n, Len(handlers) > n
      PROVE  FALSE
  <2>1. n \in DOMAIN handlers /\ n + 1 \in DOMAIN handlers /\ n < n + 1 /\ n \in DOMAIN frames
    BY <1>1, <1>6
  <2>2. handlers[n] < handlers[n + 1] /\ handlers[n] = frames[n].esp
    BY <1>2, <2>1
  <2>3. Floor = frames[n].esp
    BY <1>6, <2>1, FramesTyped DEF InHandler
  <2> QED
    BY <1>1, <1>2, <2>1, <2>2, <2>3
<1> QED
  BY <1>1, <1>3, <1>4, <1>5, <1>6

(* Neither list changes, an EOI aside. *)
LEMMA HandlersStay ==
    ASSUME HandlersOK, handlers' = handlers, seesReturn' = seesReturn,
           DOMAIN frames' = DOMAIN frames, \A i \in DOMAIN frames : frames'[i].esp = frames[i].esp
    PROVE  HandlersOK'
<1>1. HandlersInv'
  BY DEF HandlersOK, HandlersInv
<1>2. TrackedHandlersStand'
  BY DEF HandlersOK, TrackedHandlersStand
<1> QED
  BY <1>1, <1>2 DEF HandlersOK

(* What is above the stack is forgotten. *)
LEMMA HandlersLooked ==
    ASSUME HandlersOK, FramesOK, handlers' = StandingHandlers, seesReturn' = seesReturn,
           frames' = frames
    PROVE  HandlersOK'
<1>1. CASE seesReturn
  BY <1>1, StandingAll, HandlersStay
<1>2. CASE ~seesReturn
  <2>1. HandlersInv' /\ TrackedHandlersStand'
    BY <1>2 DEF HandlersInv, TrackedHandlersStand
  <2>2. HandlerFrames \in Nat /\ Len(handlers) \in Nat /\ Len(handlers) <= HandlerFrames
    BY TimerAssumption, HandlersTyped DEF HandlersOK
  <2>3. Len(StandingHandlers) <= HandlerFrames
    BY <2>2, StandingTyped
  <2> QED
    BY <2>1, <2>3, StandingTyped DEF HandlersOK
<1> QED
  BY <1>1, <1>2

(* The return of the newest frame takes it off both lists. *)
LEMMA HandlersReturned ==
    ASSUME HandlersOK, FramesOK, InHandler, seesReturn, seesReturn' = seesReturn,
           sp' = Floor - 1, frames' = Front(frames), NoteGuestIret(Floor)
    PROVE  HandlersOK'
<1> DEFINE n == Len(frames)
           l == Len(handlers)
<1>1. /\ n \in Nat /\ n # 0 /\ DOMAIN frames = 1..n /\ n \in DOMAIN frames
      /\ l \in Nat /\ DOMAIN handlers = 1..l
      /\ \A i \in DOMAIN handlers : handlers[i] \in Int
      /\ \A i \in DOMAIN frames : frames[i].esp \in Int
      /\ Floor = frames[n].esp
  BY FramesTyped, HandlersTyped
<1>2. /\ n = 1 => l = 1 
      /\ n = 2 => l = 2
  BY NestingKnown
<1>3. /\ \A i, j \in DOMAIN handlers : i < j => handlers[i] < handlers[j]
      /\ \A i \in 1..2 : i \in DOMAIN frames =>
            i \in DOMAIN handlers /\ handlers[i] = frames[i].esp
      /\ \A i \in DOMAIN handlers : \E j \in DOMAIN frames : frames[j].esp = handlers[i]
      /\ \A i \in DOMAIN handlers : handlers[i] <= Floor
      /\ \A i, j \in DOMAIN frames : i < j => frames[i].esp < frames[j].esp
      /\ handlers \in Seq(Tracked) /\ l <= HandlerFrames
  BY StandingAll DEF HandlersOK, HandlersInv, TrackedHandlersStand, FramesOK, StackInv
<1>4. /\ DOMAIN frames' = 1..(n - 1)
      /\ \A i \in DOMAIN frames' : frames'[i] = frames[i] /\ i \in DOMAIN frames
  BY StackReturns
<1>5. l # 0 /\ handlers # <<>> /\ Last(handlers) = handlers[l] /\ HandlerFrames \in Nat
  <2>1. 1 \in DOMAIN frames
    BY <1>1
  <2>2. 1 \in DOMAIN handlers
    BY <1>3, <2>1
  <2>3. l # 0 /\ handlers # <<>>
    BY <1>1, <2>2
  <2> QED
    BY <2>3, TimerAssumption DEF Last
<1>6. CASE Last(handlers) = Floor
  <2>1. handlers' = Front(handlers)
    BY <1>5, <1>6 DEF NoteGuestIret
  <2>2. /\ handlers' \in Seq(Tracked) /\ DOMAIN handlers' = 1..(l - 1)
        /\ \A i \in 1..(l - 1) : handlers'[i] = handlers[i]
        /\ Len(handlers') = l - 1
    BY <1>3, <1>5, <2>1, FrontLast, Zenon
  <2> HIDE DEF n, l
  <2>4. \A i \in DOMAIN handlers' : /\ i \in DOMAIN handlers /\ handlers'[i] = handlers[i]
                                    /\ i < l
    BY <1>1, <2>2
  <2>5. ASSUME NEW i \in 1..2, i \in DOMAIN frames'
        PROVE  i \in DOMAIN handlers' /\ handlers'[i] = frames'[i].esp
    <3>1. /\ i \in DOMAIN frames /\ frames'[i] = frames[i] /\ i < n
          /\ i \in DOMAIN handlers /\ handlers[i] = frames[i].esp
      BY <1>1, <1>3, <1>4, <2>5
    <3>2. handlers[i] < Floor
      BY <1>1, <1>3, <3>1
    <3>3. i # l
      <4>1. handlers[i] # handlers[l]
        BY <1>1, <1>5, <1>6, <3>1, <3>2
      <4> QED
        BY <4>1
    <3>4. i \in 1..(l - 1)
      BY <1>1, <3>1, <3>3
    <3> QED
      BY <2>2, <3>1, <3>4
  <2>6. ASSUME NEW i \in DOMAIN handlers'
        PROVE  \E j \in DOMAIN frames' : frames'[j].esp = handlers'[i]
    <3>1. i \in DOMAIN handlers /\ l \in DOMAIN handlers /\ i < l /\ handlers'[i] = handlers[i]
      BY <1>1, <1>5, <2>4
    <3>2. handlers[i] < Floor
      BY <1>3, <1>5, <1>6, <3>1
    <3>3. PICK j \in DOMAIN frames : frames[j].esp = handlers[i]
      BY <1>3, <3>1
    <3>4. j # n
      BY <1>1, <3>1, <3>2, <3>3
    <3>5. j \in DOMAIN frames'
      BY <1>1, <1>4, <3>4
    <3> QED
      BY <1>4, <3>1, <3>3, <3>5
  <2>7. HandlersInv'
    BY <1>3, <2>4, <2>5 DEF HandlersInv
  <2>8. TrackedHandlersStand'
    BY <2>6 DEF TrackedHandlersStand
  <2>9. Len(handlers') <= HandlerFrames
    BY <1>1, <1>3, <1>5, <2>2
  <2> QED
    BY <2>2, <2>7, <2>8, <2>9 DEF HandlersOK
<1>7. CASE Last(handlers) # Floor
  <2>1. handlers' = handlers
    BY <1>7 DEF NoteGuestIret
  <2> HIDE DEF n, l
  <2>2. l \in DOMAIN handlers /\ handlers[l] < Floor
    BY <1>1, <1>3, <1>5, <1>7
  <2>3. \A i \in DOMAIN handlers : handlers[i] < Floor
    <3> SUFFICES ASSUME NEW i \in DOMAIN handlers
                 PROVE  handlers[i] < Floor
      OBVIOUS
    <3>1. i = l \/ i < l
      BY <1>1
    <3> QED
      BY <1>1, <1>3, <2>2, <3>1
  <2>4. ASSUME NEW i \in DOMAIN handlers
        PROVE  \E j \in DOMAIN frames' : frames'[j].esp = handlers[i]
    <3>1. PICK j \in DOMAIN frames : frames[j].esp = handlers[i]
      BY <1>3
    <3>2. j # n
      BY <1>1, <2>3, <3>1
    <3>3. j \in DOMAIN frames'
      BY <1>1, <1>4, <3>2
    <3> QED
      BY <1>4, <3>1, <3>3
  <2>5. \A i \in 1..2 : i \in DOMAIN frames' =>
            i \in DOMAIN handlers /\ handlers[i] = frames'[i].esp
    BY <1>3, <1>4
  <2>6. HandlersInv'
    BY <1>3, <2>1, <2>5 DEF HandlersInv
  <2>7. TrackedHandlersStand'
    BY <2>1, <2>4 DEF TrackedHandlersStand
  <2> QED
    BY <1>3, <2>1, <2>6, <2>7 DEF HandlersOK, l
<1> QED
  BY <1>6, <1>7

(* The iret of another frame is above every one that is tracked. *)
LEMMA HandlersOther ==
    ASSUME HandlersOK, FramesOK, seesReturn, seesReturn' = seesReturn,
           sp > Floor, frames' = frames, NoteGuestIret(sp)
    PROVE  HandlersOK'
<1>1. handlers' = handlers
  <2> SUFFICES ASSUME handlers # <<>>, Last(handlers) = sp
               PROVE  FALSE
    BY DEF NoteGuestIret
  <2>1. handlers \in Seq(Tracked)
    BY DEF HandlersOK
  <2>2. Len(handlers) \in Nat \ {0} /\ DOMAIN handlers = 1..Len(handlers)
        /\ Last(handlers) = handlers[Len(handlers)]
    BY <2>1, FrontLast, Zenon
  <2>3. Len(handlers) \in DOMAIN handlers
    BY <2>2
  <2>4. handlers[Len(handlers)] <= Floor
    BY <2>3, StandingAll
  <2> QED
    BY <2>2, <2>4, FramesTyped
<1> QED
  BY <1>1, HandlersStay

(* An injected frame is tracked, in the last slot when the list is full. *)
LEMMA HandlersInjected ==
    ASSUME HandlersOK, FramesOK, FramesOK', Len(frames) < MaxNesting, seesReturn' = seesReturn,
           sp' = sp + 1, frames' = Append(frames, [esp |-> sp + 1, acked |-> FALSE]),
           handlers' = TrackFrame(sp + 1)
    PROVE  HandlersOK'
<1> DEFINE n == Len(frames)
           l == Len(StandingHandlers)
           st == StandingHandlers
<1>0. HandlerFrames \in Nat /\ HandlerFrames >= 3
  BY TimerAssumption
<1>1. st \in Seq(Tracked) /\ l \in Nat /\ l <= HandlerFrames
  BY <1>0, StandingTyped, HandlersTyped DEF HandlersOK
<1>2. sp + 1 \in Tracked
  BY DEF FramesOK, Tracked
<1>3. DOMAIN st = 1..l
  BY <1>1, LenProperties
<1> HIDE DEF st
<1>4. /\ handlers' \in Seq(Tracked) /\ Len(handlers') <= HandlerFrames
      /\ DOMAIN handlers' = 1..Len(handlers') /\ Len(handlers') \in {l, l + 1}
      /\ Len(handlers') # 0
      /\ \A i \in DOMAIN handlers' : i # Len(handlers') => i \in DOMAIN st /\ handlers'[i] = st[i]
      /\ handlers'[Len(handlers')] = sp + 1
      /\ Len(handlers') = l => l >= 3
  <2>1. CASE l < HandlerFrames
    <3>1. handlers' = Append(st, sp + 1)
      BY <2>1 DEF TrackFrame, st
    <3>2. /\ handlers' \in Seq(Tracked) /\ Len(handlers') = Len(st) + 1
          /\ \A i \in 1..Len(st) : handlers'[i] = st[i]
          /\ handlers'[Len(st) + 1] = sp + 1
      <4> DEFINE e == sp + 1
      <4>1. e \in Tracked /\ st \in Seq(Tracked) /\ handlers' = Append(st, e)
        BY <1>1, <1>2, <3>1
      <4> HIDE DEF e
      <4>2. /\ Append(st, e) \in Seq(Tracked) /\ Len(Append(st, e)) = Len(st) + 1
            /\ \A i \in 1..Len(st) : Append(st, e)[i] = st[i]
            /\ Append(st, e)[Len(st) + 1] = e
        BY <4>1, AppendExcept
      <4> QED
        BY <4>1, <4>2 DEF e
    <3>3. DOMAIN handlers' = 1..(l + 1) /\ Len(st) = l
      BY <3>2, LenProperties DEF st
    <3> QED
      BY <1>0, <1>1, <1>3, <2>1, <3>2, <3>3
  <2>2. CASE ~(l < HandlerFrames)
    <3>1. l = HandlerFrames /\ HandlerFrames \in 1..l /\ Len(st) = l
      BY <1>0, <1>1, <2>2 DEF st
    <3>2. handlers' = [st EXCEPT ![HandlerFrames] = sp + 1]
      BY <2>2 DEF TrackFrame, st
    <3>3. /\ handlers' \in Seq(Tracked) /\ Len(handlers') = Len(st)
          /\ \A i \in 1..Len(st) : handlers'[i] = IF i = HandlerFrames THEN sp + 1 ELSE st[i]
      <4> DEFINE e == sp + 1
      <4>1. /\ e \in Tracked /\ st \in Seq(Tracked) /\ HandlerFrames \in 1..Len(st)
            /\ handlers' = [st EXCEPT ![HandlerFrames] = e]
        BY <1>1, <1>2, <3>1, <3>2
      <4> HIDE DEF e
      <4> DEFINE t == [st EXCEPT ![HandlerFrames] = e]
      <4>2. /\ t \in Seq(Tracked) /\ Len(t) = Len(st)
            /\ \A i \in 1..Len(st) : t[i] = IF i = HandlerFrames THEN e ELSE st[i]
        BY <4>1, AppendExcept
      <4>3. handlers' = t
        BY <4>1
      <4> HIDE DEF t
      <4> QED
        BY <4>2, <4>3 DEF e
    <3>4. DOMAIN handlers' = 1..l
      BY <3>1, <3>3, LenProperties
    <3> QED
      BY <1>0, <1>1, <1>3, <3>1, <3>3, <3>4
  <2> QED
    BY <2>1, <2>2
<1>5. CASE ~seesReturn
  <2>1. HandlersInv' /\ TrackedHandlersStand'
    BY <1>5 DEF HandlersInv, TrackedHandlersStand
  <2> QED
    BY <1>4, <2>1 DEF HandlersOK
<1>6. CASE seesReturn
  <2> DEFINE k == Len(handlers')
  <2>1. st = handlers /\ l = Len(handlers) /\ \A i \in DOMAIN handlers : handlers[i] <= Floor
    BY <1>6, StandingAll DEF st
  <2>2. /\ \A i, j \in DOMAIN handlers : i < j => handlers[i] < handlers[j]
        /\ \A i \in 1..2 : i \in DOMAIN frames =>
              i \in DOMAIN handlers /\ handlers[i] = frames[i].esp
        /\ \A i \in DOMAIN handlers : \E j \in DOMAIN frames : frames[j].esp = handlers[i]
    BY <1>6 DEF HandlersOK, HandlersInv, TrackedHandlersStand
  <2>3. /\ n \in Nat /\ DOMAIN frames = 1..n
        /\ \A i \in DOMAIN handlers : handlers[i] \in Int
        /\ Floor \in Int /\ sp \in Int /\ Floor <= sp
        /\ n = 0 => l = 0
        /\ n = 1 => l = 1
        /\ n >= 2 => l >= 2
    <3>1. n \in Nat /\ Len(handlers) \in Nat
      BY FramesTyped, HandlersTyped
    <3> QED
      BY <1>6, <2>1, <3>1, NestingKnown, FramesTyped, HandlersTyped
  <2>4. /\ DOMAIN frames' = 1..(n + 1)
        /\ \A i \in DOMAIN frames : frames'[i] = frames[i]
        /\ frames'[n + 1].esp = sp + 1
    BY StackInjects
  <2>5. /\ k # 0 /\ k \in Nat /\ DOMAIN handlers' = 1..k /\ k \in {l, l + 1}
        /\ \A i \in 1..k : i # k => i \in DOMAIN handlers /\ handlers'[i] = handlers[i]
        /\ handlers'[k] = sp + 1
        /\ k = l => l >= 3
    BY <1>1, <1>4, <2>1
  <2> HIDE DEF n, l, k
  <2>6. ASSUME NEW i \in DOMAIN handlers', NEW j \in DOMAIN handlers', i < j
        PROVE  handlers'[i] < handlers'[j]
    <3>1. i # k /\ i \in DOMAIN handlers /\ handlers'[i] = handlers[i] /\ handlers[i] \in Int
      BY <2>3, <2>5, <2>6
    <3>2. CASE j = k
      BY <2>1, <2>3, <2>5, <3>1, <3>2
    <3>3. CASE j # k
      BY <2>2, <2>5, <2>6, <3>1, <3>3
    <3> QED
      BY <3>2, <3>3
  <2>7. ASSUME NEW i \in 1..2, i \in DOMAIN frames'
        PROVE  i \in DOMAIN handlers' /\ handlers'[i] = frames'[i].esp
    <3>1. CASE i = n + 1
      <4>1. l = n /\ n < 3
        BY <2>3, <3>1
      <4>2. k = n + 1
        BY <2>3, <2>5, <4>1
      <4> QED
        BY <2>4, <2>5, <3>1, <4>2
    <3>2. CASE i # n + 1
      <4>1. i \in DOMAIN frames
        BY <2>3, <2>4, <2>7, <3>2
      <4>2. i \in DOMAIN handlers /\ handlers[i] = frames[i].esp
        BY <2>2, <4>1
      <4>3. i < k
        <5>1. i \in 1..l /\ l \in Nat
          BY <1>1, <1>3, <2>1, <4>2
        <5> QED
          BY <2>5, <5>1
      <4>4. i \in 1..k
        BY <2>5, <4>3
      <4> QED
        BY <2>4, <2>5, <4>1, <4>2, <4>3, <4>4
    <3> QED
      BY <3>1, <3>2
  <2>8. ASSUME NEW i \in DOMAIN handlers'
        PROVE  \E j \in DOMAIN frames' : frames'[j].esp = handlers'[i]
    <3>1. CASE i = k
      <4>1. n + 1 \in DOMAIN frames'
        BY <2>3, <2>4
      <4> QED
        BY <2>4, <2>5, <3>1, <4>1
    <3>2. CASE i # k
      <4>1. i \in DOMAIN handlers /\ handlers'[i] = handlers[i]
        BY <2>5, <3>2
      <4>2. PICK j \in DOMAIN frames : frames[j].esp = handlers[i]
        BY <2>2, <4>1
      <4>3. j \in DOMAIN frames'
        BY <2>3, <2>4
      <4> QED
        BY <2>4, <4>1, <4>2, <4>3
    <3> QED
      BY <3>1, <3>2
  <2>9. HandlersInv'
    BY <2>6, <2>7, Zenon DEF HandlersInv
  <2>10. TrackedHandlersStand'
    BY <2>8 DEF TrackedHandlersStand
  <2> QED
    BY <1>4, <2>9, <2>10 DEF HandlersOK
<1> QED
  BY <1>5, <1>6

-----------------------------------------------------------------------------
(* The steps. *)

(* Most steps leave the stack and the controller alone; an EOI written     *)
(* outside the handlers changes the in-service bit.                        *)
Quiet == /\ UNCHANGED <<sp, frames, handlers, frameEsp, returnSeen>>
         /\ active' = active \/ ~InHandler

(* A deferred attempt only looks. *)
Looks == PicLooks /\ UNCHANGED <<sp, frames>>

LEMMA StepKinds ==
    ASSUME [Next]_vars
    PROVE  /\ seesReturn' = seesReturn
           /\ \/ Quiet \/ Looks \/ GuestEoi \/ HandlerReturns \/ OtherIret
              \/ \E depth \in Floor..(Floor + 1) : GuestMovesStack(depth)
              \/ \E trap, fast \in BOOLEAN : Inject(trap, fast)
<1> USE DEF countVars, armVars, picVars, holdVars, stackVars, histVars
<1>1. CASE UNCHANGED vars
  BY <1>1 DEF vars, moving, Quiet
<1>2. ASSUME Next
      PROVE  /\ seesReturn' = seesReturn
             /\ Host \/ Guest \/ Attempts \/ GuestArms \/ TurnEnds \/ HoldExpires
  BY <1>2 DEF Next
<1>3. Host \/ GuestArms \/ TurnEnds \/ HoldExpires => Quiet
  BY DEF Host, HostArms, TicksDue, GuestArms, TurnEnds, HoldExpires, Quiet
<1>4. HookVector \/ GuestGoesOn \/ GuestCli \/ GuestSti \/ StrayEoi => Quiet
  BY DEF HookVector, GuestGoesOn, GuestCli, GuestSti, StrayEoi, Quiet
<1>5. ASSUME NEW trap \in BOOLEAN, NothingOwed(trap) \/ NoVector(trap) \/ DeferredEarly(trap)
      PROVE  Quiet
  BY <1>5 DEF NothingOwed, NoVector, DeferredEarly, Quiet
<1>6. ASSUME NEW trap \in BOOLEAN, DeferredByPic(trap)
      PROVE  Looks
  BY <1>6 DEF DeferredByPic, Looks
<1>7. ASSUME NEW trap \in BOOLEAN, NEW fast \in BOOLEAN,
             DeferredByChain(trap, fast) \/ DeferredLate(trap, fast)
      PROVE  Looks
  BY <1>7 DEF DeferredByChain, DeferredLate, Looks
<1>8. Guest => \/ Quiet \/ GuestEoi \/ HandlerReturns \/ OtherIret
               \/ \E depth \in Floor..(Floor + 1) : GuestMovesStack(depth)
  BY <1>4 DEF Guest
<1>9. Attempts => Quiet \/ Looks \/ \E trap, fast \in BOOLEAN : Inject(trap, fast)
  BY <1>5, <1>6, <1>7 DEF Attempts
<1> QED
  BY <1>1, <1>2, <1>3, <1>8, <1>9

LEMMA CountsNext ==
    ASSUME CountsInv, [Next]_vars
    PROVE  CountsInv'
<1> USE DEF countVars, armVars, picVars, holdVars, stackVars, histVars
<1>1. ASSUME UNCHANGED countVars
      PROVE  CountsInv'
  BY <1>1 DEF CountsInv, TicksAccounted, PendingIffOwed
<1>2. CASE UNCHANGED vars
  BY <1>1, <1>2 DEF vars, moving
<1>3. CASE Host
  <2>1. CASE HostArms
    BY <1>1, <2>1 DEF HostArms
  <2> QED
    BY <1>3, <2>1, CountsDue DEF Host
<1>4. CASE Guest
  <2>1. HookVector \/ GuestGoesOn \/ GuestCli \/ GuestSti => UNCHANGED countVars
    BY DEF HookVector, GuestGoesOn, GuestCli, GuestSti
  <2>2. GuestEoi \/ StrayEoi \/ HandlerReturns \/ OtherIret => UNCHANGED countVars
    BY DEF GuestEoi, StrayEoi, HandlerReturns, OtherIret
  <2>3. \A depth \in Floor..(Floor + 1) : GuestMovesStack(depth) => UNCHANGED countVars
    BY DEF GuestMovesStack
  <2> HIDE DEF countVars
  <2> QED
    BY <1>1, <1>4, <2>1, <2>2, <2>3 DEF Guest
<1>5. CASE GuestArms \/ TurnEnds \/ HoldExpires
  BY <1>1, <1>5 DEF GuestArms, TurnEnds, HoldExpires
<1>6. CASE Attempts
  <2>1. PICK trap \in BOOLEAN :
            \/ NothingOwed(trap) \/ NoVector(trap)
            \/ DeferredEarly(trap) \/ DeferredByPic(trap)
            \/ \E fast \in BOOLEAN :
                 DeferredByChain(trap, fast) \/ DeferredLate(trap, fast) \/ Inject(trap, fast)
    BY <1>6 DEF Attempts
  <2>2. NothingOwed(trap) \/ DeferredEarly(trap) \/ DeferredByPic(trap) => UNCHANGED countVars
    BY DEF NothingOwed, DeferredEarly, DeferredByPic
  <2>3. \A fast \in BOOLEAN :
           DeferredByChain(trap, fast) \/ DeferredLate(trap, fast) => UNCHANGED countVars
    BY DEF DeferredByChain, DeferredLate
  <2> HIDE DEF countVars
  <2> QED
    BY <1>1, <2>1, <2>2, <2>3, CountsNoVector, CountsInject
<1> QED
  BY <1>2, <1>3, <1>4, <1>5, <1>6 DEF Next

LEMMA FramesNext ==
    ASSUME FramesOK, [Next]_vars
    PROVE  FramesOK'
<1>1. ASSUME UNCHANGED <<sp, frames>>
      PROVE  FramesOK'
  BY <1>1 DEF FramesOK, StackInv, Floor, InHandler
<1>2. Quiet \/ Looks => FramesOK'
  BY <1>1 DEF Quiet, Looks
<1>3. GuestEoi => FramesOK'
  BY StackEoi DEF GuestEoi
<1>4. HandlerReturns => FramesOK'
  BY StackReturns DEF HandlerReturns
<1>5. ASSUME NEW depth \in Floor..(Floor + 1), GuestMovesStack(depth)
      PROVE  FramesOK'
  BY <1>5, StackMoves DEF GuestMovesStack
<1>6. OtherIret => FramesOK'
  <2> SUFFICES ASSUME OtherIret
               PROVE  FramesOK'
    OBVIOUS
  <2>1. sp > Floor /\ sp' = sp - 1 /\ frames' = frames
    BY DEF OtherIret
  <2>2. sp' \in Floor..(Floor + 1)
    BY <2>1, FramesTyped
  <2> QED
    BY <2>1, <2>2, StackMoves
<1>7. ASSUME NEW trap \in BOOLEAN, NEW fast \in BOOLEAN, Inject(trap, fast)
      PROVE  FramesOK'
  <2>1. /\ Len(frames) < MaxNesting /\ sp' = sp + 1
        /\ frames' = Append(frames, [esp |-> sp + 1, acked |-> FALSE])
    BY <1>7 DEF Inject
  <2> QED
    BY <2>1, StackInjects
<1> QED
  BY <1>2, <1>3, <1>4, <1>5, <1>6, <1>7, StepKinds

LEMMA HandlersNext ==
    ASSUME FramesOK, HandlersOK, [Next]_vars
    PROVE  HandlersOK'
<1>0. FramesOK' /\ seesReturn' = seesReturn
  BY FramesNext, StepKinds
<1>1. ASSUME UNCHANGED <<handlers, frames>>
      PROVE  HandlersOK'
  BY <1>0, <1>1, HandlersStay
<1>2. Quiet => HandlersOK'
  BY <1>1 DEF Quiet
<1>3. Looks => HandlersOK'
  BY <1>0, HandlersLooked DEF Looks, PicLooks
<1>4. GuestEoi => HandlersOK'
  <2> SUFFICES ASSUME GuestEoi
               PROVE  HandlersOK'
    OBVIOUS
  <2>1. /\ InHandler /\ handlers' = handlers /\ sp' = sp
        /\ frames' = [frames EXCEPT ![Len(frames)].acked = TRUE]
    BY DEF GuestEoi
  <2>2. DOMAIN frames' = DOMAIN frames /\ \A i \in DOMAIN frames : frames'[i].esp = frames[i].esp
    BY <2>1, StackEoi
  <2> QED
    BY <1>0, <2>1, <2>2, HandlersStay
<1>5. HandlerReturns => HandlersOK'
  <2> SUFFICES ASSUME HandlerReturns
               PROVE  HandlersOK'
    OBVIOUS
  <2>1. InHandler /\ sp' = Floor - 1 /\ frames' = Front(frames)
    BY DEF HandlerReturns
  <2>2. CASE seesReturn
    <3>1. NoteGuestIret(Floor)
      BY <2>2 DEF HandlerReturns
    <3> QED
      BY <1>0, <2>1, <2>2, <3>1, HandlersReturned
  <2>3. CASE ~seesReturn
    <3>1. handlers' = handlers
      BY <2>3 DEF HandlerReturns
    <3> QED
      BY <1>0, <2>3, <3>1 DEF HandlersOK, HandlersInv, TrackedHandlersStand
  <2> QED
    BY <2>2, <2>3
<1>6. ASSUME NEW depth \in Floor..(Floor + 1), GuestMovesStack(depth)
      PROVE  HandlersOK'
  BY <1>1, <1>6 DEF GuestMovesStack, picVars
<1>7. OtherIret => HandlersOK'
  BY <1>0, HandlersOther DEF OtherIret
<1>8. ASSUME NEW trap \in BOOLEAN, NEW fast \in BOOLEAN, Inject(trap, fast)
      PROVE  HandlersOK'
  <2>1. /\ Len(frames) < MaxNesting /\ sp' = sp + 1 /\ handlers' = TrackFrame(sp + 1)
        /\ frames' = Append(frames, [esp |-> sp + 1, acked |-> FALSE])
    BY <1>8 DEF Inject
  <2> QED
    BY <1>0, <2>1, HandlersInjected
<1> QED
  BY <1>2, <1>3, <1>4, <1>5, <1>6, <1>7, <1>8, StepKinds

(* The rest of the state: the controller's, *)
PicOK ==
    /\ active \in BOOLEAN /\ lastAtSti \in BOOLEAN /\ lastReturned \in BOOLEAN
    /\ frameEsp \in 0..NoFrame
    /\ returnSeen \in BOOLEAN /\ seesReturn \in BOOLEAN
    /\ returnSeen => seesReturn

(* and what the attempts and the time keep. *)
ModeOK ==
    /\ armed \in BOOLEAN /\ hostArming \in BOOLEAN /\ guestStep \in {"run", "arm", "clear"}
    /\ site \in {"ordinary", "afterReturn"} /\ hooked \in BOOLEAN /\ stiRequest \in BOOLEAN
    /\ turnOver \in BOOLEAN /\ cliHold \in BOOLEAN /\ holdExpired \in BOOLEAN
    /\ chain \in 0..ChainLimit /\ ran \in BOOLEAN /\ streak \in 0..MaxStreak

FlagsOK == PicOK /\ ModeOK

LEMMA PicNext ==
    ASSUME ModeOK, PicOK, FramesOK', [Next]_vars
    PROVE  PicOK'
<1> USE DEF countVars, armVars, picVars, holdVars, stackVars, histVars
<1>0. seesReturn' = seesReturn
  BY StepKinds
<1>1. ASSUME active' \in BOOLEAN, lastAtSti' \in BOOLEAN, lastReturned' \in BOOLEAN,
             frameEsp' = frameEsp, returnSeen' = returnSeen
      PROVE  PicOK'
  BY <1>0, <1>1, Zenon DEF PicOK
<1>2. ASSUME UNCHANGED <<active, lastAtSti, lastReturned, frameEsp, returnSeen>>
      PROVE  PicOK'
  BY <1>1, <1>2 DEF PicOK
<1>3. CASE UNCHANGED vars
  BY <1>2, <1>3 DEF vars, moving
<1>4. CASE Host \/ GuestArms \/ TurnEnds \/ HoldExpires
  BY <1>2, <1>4 DEF Host, HostArms, TicksDue, GuestArms, TurnEnds, HoldExpires
<1>5. CASE Guest
  <2>1. CASE HookVector \/ GuestGoesOn \/ GuestCli \/ GuestSti
    BY <1>2, <2>1 DEF HookVector, GuestGoesOn, GuestCli, GuestSti
  <2>2. CASE GuestEoi \/ StrayEoi
    BY <1>1, <2>2 DEF GuestEoi, StrayEoi, PicOK
  <2>3. ASSUME NEW depth \in Floor..(Floor + 1), GuestMovesStack(depth)
        PROVE  PicOK'
    BY <1>2, <2>3 DEF GuestMovesStack
  <2>4. ASSUME NEW esp, NoteGuestIret(esp), seesReturn, active' = active,
               frameEsp' = frameEsp, lastAtSti' = lastAtSti
        PROVE  PicOK'
    <3>1. returnSeen' \in BOOLEAN /\ lastReturned' \in BOOLEAN
      BY <2>4 DEF NoteGuestIret
    <3> QED
      BY <1>0, <2>4, <3>1, Zenon DEF PicOK
  <2>5. CASE HandlerReturns
    <3>1. CASE seesReturn
      BY <2>4, <2>5, <3>1 DEF HandlerReturns
    <3>2. CASE ~seesReturn
      BY <1>2, <2>5, <3>2 DEF HandlerReturns
    <3> QED
      BY <3>1, <3>2
  <2>6. CASE OtherIret
    BY <2>4, <2>6 DEF OtherIret
  <2> QED
    BY <1>5, <2>1, <2>2, <2>3, <2>5, <2>6 DEF Guest
<1>6. CASE Attempts
  <2> SUFFICES ASSUME NEW trap \in BOOLEAN,
                      \/ NothingOwed(trap) \/ NoVector(trap)
                      \/ DeferredEarly(trap) \/ DeferredByPic(trap)
                      \/ \E fast \in BOOLEAN :
                           \/ DeferredByChain(trap, fast) \/ DeferredLate(trap, fast)
                           \/ Inject(trap, fast)
               PROVE  PicOK'
    BY <1>6 DEF Attempts
  <2>1. CASE NothingOwed(trap) \/ DeferredEarly(trap) \/ NoVector(trap)
    BY <1>2, <2>1 DEF NothingOwed, DeferredEarly, NoVector
  <2>2. ASSUME PicLooks
        PROVE  PicOK'
    <3>1. active' \in BOOLEAN /\ lastReturned' \in BOOLEAN
      BY <2>2 DEF PicLooks, ReturnKnown, InService, PicOK
    <3>2. lastAtSti' \in BOOLEAN /\ frameEsp' = frameEsp /\ returnSeen' = returnSeen
      BY <2>2 DEF PicLooks, PicOK
    <3> QED
      BY <1>1, <3>1, <3>2
  <2>3. CASE DeferredByPic(trap)
    BY <2>2, <2>3 DEF DeferredByPic
  <2>4. ASSUME NEW fast \in BOOLEAN, DeferredByChain(trap, fast) \/ DeferredLate(trap, fast)
        PROVE  PicOK'
    BY <2>2, <2>4 DEF DeferredByChain, DeferredLate
  <2>5. ASSUME NEW fast \in BOOLEAN, Inject(trap, fast)
        PROVE  PicOK'
    <3>1. /\ active' = TRUE /\ lastAtSti' = stiRequest /\ lastReturned' = FALSE
          /\ returnSeen' = returnSeen /\ frameEsp' = sp'
      BY <2>5 DEF Inject
    <3>2. frameEsp' \in 0..NoFrame
      BY <3>1 DEF FramesOK
    <3>3. stiRequest \in BOOLEAN
      BY DEF ModeOK
    <3> QED
      BY <1>0, <3>1, <3>2, <3>3, Zenon DEF PicOK
  <2> QED
    BY <2>1, <2>3, <2>4, <2>5
<1> QED
  BY <1>3, <1>4, <1>5, <1>6 DEF Next

LEMMA ModeNext ==
    ASSUME ModeOK, [Next]_vars
    PROVE  ModeOK'
<1> USE DEF countVars, armVars, picVars, holdVars, stackVars, histVars
<1>1. CASE UNCHANGED vars
  BY <1>1 DEF vars, moving, ModeOK
<1>2. CASE Host
  <2>1. CASE HostArms
    BY <2>1 DEF HostArms, ModeOK
  <2>2. ASSUME NEW n \in 1..MaxDue, TicksDue(n)
        PROVE  ModeOK'
    BY <2>2 DEF TicksDue, ModeOK
  <2> QED
    BY <1>2, <2>1, <2>2 DEF Host
<1>3. CASE GuestArms \/ TurnEnds \/ HoldExpires
  BY <1>3, ZenonT(60) DEF GuestArms, TurnEnds, HoldExpires, ModeOK
<1>4. CASE Guest
  <2>0. ASSUME GuestRuns
        PROVE  site' \in {"ordinary", "afterReturn"} /\ ran' \in BOOLEAN
    BY <2>0 DEF GuestRuns
  <2>1. CASE HookVector \/ GuestGoesOn
    BY <2>0, <2>1 DEF HookVector, GuestGoesOn, ModeOK
  <2>2. CASE GuestCli \/ GuestSti \/ GuestEoi \/ StrayEoi
    BY <2>0, <2>2 DEF GuestCli, GuestSti, GuestEoi, StrayEoi, ModeOK
  <2>3. ASSUME NEW depth \in Floor..(Floor + 1), GuestMovesStack(depth)
        PROVE  ModeOK'
    BY <2>0, <2>3 DEF GuestMovesStack, ModeOK
  <2>4. ASSUME NEW esp, NoteGuestIret(esp)
        PROVE  turnOver' \in BOOLEAN /\ cliHold' \in BOOLEAN
    BY <2>4 DEF NoteGuestIret
  <2>5. CASE HandlerReturns
    <3>1. CASE seesReturn
      BY <2>4, <2>5, <3>1 DEF HandlerReturns, ModeOK
    <3>2. CASE ~seesReturn
      BY <2>5, <3>2 DEF HandlerReturns, ModeOK
    <3> QED
      BY <3>1, <3>2
  <2>6. CASE OtherIret
    BY <2>4, <2>6 DEF OtherIret, ModeOK
  <2> QED
    BY <1>4, <2>1, <2>2, <2>3, <2>5, <2>6 DEF Guest
<1>5. CASE Attempts
  <2> SUFFICES ASSUME NEW trap \in BOOLEAN,
                      \/ NothingOwed(trap) \/ NoVector(trap)
                      \/ DeferredEarly(trap) \/ DeferredByPic(trap)
                      \/ \E fast \in BOOLEAN :
                           \/ DeferredByChain(trap, fast) \/ DeferredLate(trap, fast)
                           \/ Inject(trap, fast)
               PROVE  ModeOK'
    BY <1>5 DEF Attempts
  <2>1. Attempt(trap) => stiRequest' = FALSE /\ site' = "ordinary"
    BY DEF Attempt
  <2>2. Disarms(trap) => armed' \in BOOLEAN /\ UNCHANGED <<hostArming, guestStep>>
    BY DEF Disarms
  <2>3. ASSUME NEW fast \in BOOLEAN, ~ChainBlocks(fast), ChainCounts
        PROVE  chain' \in 0..ChainLimit
    <3>1. ChainLimit \in Nat /\ chain \in 0..ChainLimit
      BY TimerAssumption DEF ModeOK
    <3>2. CASE site = "ordinary"
      BY <2>3, <3>1, <3>2 DEF ChainCounts
    <3>3. CASE site # "ordinary"
      BY <2>3, <3>1, <3>3 DEF ChainCounts, ChainBlocks
    <3> QED
      BY <3>2, <3>3
  <2>4. CASE NothingOwed(trap) \/ DeferredEarly(trap)
    BY <2>1, <2>2, <2>4 DEF NothingOwed, DeferredEarly, ModeOK
  <2>5. CASE NoVector(trap)
    BY <2>1, <2>5 DEF NoVector, ModeOK
  <2>6. CASE DeferredByPic(trap)
    BY <2>1, <2>2, <2>6 DEF DeferredByPic, ModeOK
  <2>7. ASSUME NEW fast \in BOOLEAN, DeferredByChain(trap, fast)
        PROVE  ModeOK'
    BY <2>1, <2>2, <2>7 DEF DeferredByChain, ModeOK
  <2>8. ASSUME NEW fast \in BOOLEAN, DeferredLate(trap, fast)
        PROVE  ModeOK'
    BY <2>1, <2>2, <2>3, <2>8 DEF DeferredLate, ModeOK
  <2>9. ASSUME NEW fast \in BOOLEAN, Inject(trap, fast)
        PROVE  ModeOK'
    <3>1. chain' \in 0..ChainLimit /\ stiRequest' = FALSE /\ site' = "ordinary"
      BY <2>1, <2>3, <2>9 DEF Inject
    <3>2. streak' \in 0..MaxStreak
      <4>1. MaxStreak \in Nat /\ streak \in 0..MaxStreak
        BY TimerAssumption DEF ModeOK
      <4>2. \A k \in Nat : Least(MaxStreak, k) \in 0..MaxStreak
        BY <4>1 DEF Least
      <4>3. 1 \in Nat /\ streak + 1 \in Nat
        BY <4>1
      <4>4. CASE InHandler
        BY <2>9, <4>1, <4>4 DEF Inject
      <4>5. CASE ~InHandler
        <5>1. streak' = Least(MaxStreak, IF ran \/ site = "ordinary" THEN 1 ELSE streak + 1)
          BY <2>9, <4>5 DEF Inject
        <5> QED
          BY <4>2, <4>3, <5>1
      <4> QED
        BY <4>4, <4>5
    <3>3. /\ armed' \in BOOLEAN /\ guestStep' \in {"run", "arm", "clear"}
          /\ cliHold' = FALSE /\ ran' = FALSE
          /\ UNCHANGED <<hostArming, hooked, turnOver, holdExpired>>
      BY <2>9 DEF Inject
    <3> QED
      BY <3>1, <3>2, <3>3 DEF ModeOK
  <2> QED
    BY <2>4, <2>5, <2>6, <2>7, <2>8, <2>9
<1> QED
  BY <1>1, <1>2, <1>3, <1>4, <1>5 DEF Next

-----------------------------------------------------------------------------
(* The handlers' EOIs. *)

ServiceOK == ServiceInv /\ UnacknowledgedOnTop

(* The controller lets no tick in while the newest handler has its EOI to  *)
(* write.                                                                  *)
LEMMA NewestIsAcked ==
    ASSUME FramesOK, FlagsOK, ServiceOK, InHandler, ~InService
    PROVE  frames[Len(frames)].acked
<1>1. /\ Last(frames) = frames[Len(frames)] /\ Floor \in Int /\ sp \in Int /\ Floor <= sp
      /\ NoFrame \in Int
  BY FramesTyped
<1>2. frameEsp \in Int
  BY <1>1 DEF FlagsOK, PicOK
<1>3. ~Last(frames).acked => active /\ frameEsp <= Floor
  BY DEF ServiceOK, ServiceInv
<1>4. ~Last(frames).acked => active /\ ~(sp < frameEsp)
  BY <1>1, <1>2, <1>3
<1> QED
  BY <1>1, <1>4 DEF InService

LEMMA ServiceNext ==
    ASSUME FramesOK, FlagsOK, ServiceOK, [Next]_vars
    PROVE  ServiceOK'
<1> DEFINE n == Len(frames)
<1>0. /\ n \in Nat /\ DOMAIN frames = 1..n
      /\ \A i \in DOMAIN frames : i < n => frames[i].acked
  BY FramesTyped DEF ServiceOK, UnacknowledgedOnTop
<1>1. ASSUME frames' = frames, active' = active \/ ~InHandler, frameEsp' = frameEsp
      PROVE  ServiceOK'
  BY <1>1 DEF ServiceOK, ServiceInv, UnacknowledgedOnTop, InHandler, Floor
<1>2. Quiet => ServiceOK'
  BY <1>1 DEF Quiet
<1>3. Looks => ServiceOK'
  <2> SUFFICES ASSUME Looks
               PROVE  ServiceOK'
    OBVIOUS
  <2>1. /\ frames' = frames /\ frameEsp' = frameEsp
        /\ active' = IF NestingBlocks THEN active ELSE InService
    BY DEF Looks, PicLooks
  <2>2. UnacknowledgedOnTop'
    BY <2>1 DEF ServiceOK, UnacknowledgedOnTop
  <2>3. ServiceInv'
    <3> SUFFICES ASSUME InHandler, ~Last(frames).acked
                 PROVE  active' /\ frameEsp <= Floor
      BY <2>1 DEF ServiceInv, InHandler, Floor
    <3>1. active /\ frameEsp <= Floor
      BY DEF ServiceOK, ServiceInv
    <3>2. InService
      BY NewestIsAcked, FramesTyped
    <3> QED
      BY <2>1, <3>1, <3>2
  <2> QED
    BY <2>2, <2>3 DEF ServiceOK
<1>4. GuestEoi => ServiceOK'
  <2> SUFFICES ASSUME GuestEoi
               PROVE  ServiceOK'
    OBVIOUS
  <2>1. /\ InHandler /\ sp' = sp
        /\ frames' = [frames EXCEPT ![Len(frames)].acked = TRUE]
    BY DEF GuestEoi
  <2>2. /\ DOMAIN frames' = DOMAIN frames /\ Len(frames') = n /\ n \in DOMAIN frames
        /\ \A i \in DOMAIN frames :
              frames'[i].acked = IF i = n THEN TRUE ELSE frames[i].acked
    BY <2>1, StackEoi, FramesTyped
  <2>3. Last(frames').acked
    BY <2>2 DEF Last
  <2>4. UnacknowledgedOnTop'
    BY <1>0, <2>2 DEF UnacknowledgedOnTop
  <2> QED
    BY <2>3, <2>4 DEF ServiceOK, ServiceInv
<1>5. HandlerReturns => ServiceOK'
  <2> SUFFICES ASSUME HandlerReturns
               PROVE  ServiceOK'
    OBVIOUS
  <2>1. InHandler /\ sp' = Floor - 1 /\ frames' = Front(frames)
    BY DEF HandlerReturns
  <2>2. /\ FramesOK' /\ Len(frames') = n - 1 /\ DOMAIN frames' = 1..(n - 1)
        /\ \A i \in DOMAIN frames' : frames'[i] = frames[i] /\ i \in DOMAIN frames
    BY <2>1, StackReturns
  <2> HIDE DEF n
  <2>3. \A i \in DOMAIN frames' : frames'[i].acked
    BY <1>0, <2>2
  <2>4. InHandler' => Last(frames').acked
    <3>1. InHandler' => Len(frames') \in DOMAIN frames'
      BY <1>0, <2>2, EmptySeq DEF InHandler, FramesOK
    <3> QED
      BY <2>3, <3>1 DEF Last
  <2> QED
    BY <2>3, <2>4 DEF ServiceOK, ServiceInv, UnacknowledgedOnTop
<1>6. ASSUME NEW depth \in Floor..(Floor + 1), GuestMovesStack(depth)
      PROVE  ServiceOK'
  BY <1>1, <1>6 DEF GuestMovesStack, picVars
<1>7. OtherIret => ServiceOK'
  BY <1>1 DEF OtherIret
<1>8. ASSUME NEW trap \in BOOLEAN, NEW fast \in BOOLEAN, Inject(trap, fast)
      PROVE  ServiceOK'
  <2>1. /\ Len(frames) < MaxNesting /\ sp' = sp + 1 /\ ~InService
        /\ frames' = Append(frames, [esp |-> sp + 1, acked |-> FALSE])
        /\ active' = TRUE /\ frameEsp' = sp + 1
    BY <1>8 DEF Inject, PicBlocks
  <2>2. /\ Floor' = sp + 1 /\ Len(frames') = n + 1 /\ DOMAIN frames' = 1..(n + 1)
        /\ \A i \in DOMAIN frames : frames'[i] = frames[i]
    BY <2>1, StackInjects
  <2>3. n # 0 => frames[n].acked
    BY <2>1, NewestIsAcked, FramesTyped
  <2>4. sp \in Int
    BY FramesTyped
  <2> HIDE DEF n
  <2>5. ASSUME NEW i \in DOMAIN frames', i < Len(frames')
        PROVE  frames'[i].acked
    <3>1. i \in DOMAIN frames /\ (i = n \/ i < n) /\ n # 0
      BY <1>0, <2>2, <2>5
    <3> QED
      BY <1>0, <2>2, <2>3, <3>1
  <2>6. UnacknowledgedOnTop'
    BY <2>5 DEF UnacknowledgedOnTop
  <2>7. ServiceInv'
    BY <2>1, <2>2, <2>4 DEF ServiceInv
  <2> QED
    BY <2>6, <2>7 DEF ServiceOK
<1> QED
  BY <1>2, <1>3, <1>4, <1>5, <1>6, <1>7, <1>8, StepKinds

-----------------------------------------------------------------------------
(* The theorems. *)

LEMMA InvParts ==
    TimerInv <=> CountsInv /\ FramesOK /\ HandlersOK /\ FlagsOK /\ ServiceOK
BY DEF TimerInv, TypeOK, CountsInv, FramesOK, HandlersOK, FlagsOK, PicOK, ModeOK, ServiceOK, Frame, Tracked

(* What holds at every step of the host, the guest and time: the types,    *)
(* the books, the stack and the controller's view of it.                   *)
THEOREM TimerInvariant == Spec => []TimerInv
<1>1. Init => TimerInv
  <2> SUFFICES ASSUME Init
               PROVE  TimerInv
    OBVIOUS
  <2>1. /\ CounterModulus \in Nat \ {0} /\ BacklogCapacity \in Nat \ {0} /\ DueCapacity \in Nat
        /\ HandlerFrames \in Nat /\ MaxNesting \in Nat \ {0}
        /\ ChainLimit \in Nat /\ MaxStreak \in Nat /\ ReturnModes \subseteq BOOLEAN
    BY TimerAssumption
  <2>2. 0 % CounterModulus = 0
    BY <2>1
  <2>3. CountsInv
    <3>1. /\ due = 0 /\ injected = 0 /\ dropped = 0 /\ backlog = 0 /\ dueSize = 0
          /\ pendingTick = FALSE
      BY DEF Init
    <3>2. due - injected - dropped - backlog = 0
      BY <3>1
    <3>3. TicksAccounted
      BY <2>2, <3>1, <3>2 DEF TicksAccounted
    <3>4. PendingIffOwed /\ pendingTick \in BOOLEAN
      BY <3>1, Zenon DEF PendingIffOwed
    <3> QED
      BY <2>1, <3>1, <3>3, <3>4 DEF CountsInv
  <2>4. frames = <<>> /\ handlers = <<>> /\ Len(frames) = 0 /\ Len(handlers) = 0
    BY DEF Init
  <2>5. FramesOK
    <3>1. frames \in Seq(Frame) /\ DOMAIN frames = {}
      BY <2>4, EmptySeq
    <3>2. Floor = 0 /\ sp = 0 /\ NoFrame \in Nat
      BY <2>1, <2>4 DEF Init, Floor, InHandler, NoFrame
    <3> QED
      BY <2>1, <2>4, <3>1, <3>2 DEF FramesOK, StackInv
  <2>6. HandlersOK
    <3>1. handlers \in Seq(Tracked) /\ DOMAIN handlers = {} /\ DOMAIN frames = {}
      BY <2>4, EmptySeq
    <3> QED
      BY <2>1, <2>4, <3>1 DEF HandlersOK, HandlersInv, TrackedHandlersStand
  <2>7. FlagsOK
    <3>1. /\ NoFrame \in 0..NoFrame /\ 0 \in 0..ChainLimit /\ 0 \in 0..MaxStreak
          /\ seesReturn \in BOOLEAN
      BY <2>1 DEF Init, NoFrame
    <3> QED
      BY <3>1, Zenon DEF Init, FlagsOK, PicOK, ModeOK
  <2>8. ServiceOK
    BY <2>4 DEF ServiceOK, ServiceInv, UnacknowledgedOnTop, InHandler
  <2> QED
    BY <2>3, <2>5, <2>6, <2>7, <2>8, InvParts
<1>2. TimerInv /\ [Next]_vars => TimerInv'
  <2> SUFFICES ASSUME TimerInv, [Next]_vars
               PROVE  TimerInv'
    OBVIOUS
  <2>1. CountsInv /\ FramesOK /\ HandlersOK /\ FlagsOK /\ ServiceOK
    BY InvParts
  <2>2. CountsInv' /\ FramesOK' /\ HandlersOK' /\ ServiceOK'
    BY <2>1, CountsNext, FramesNext, HandlersNext, ServiceNext
  <2>3. FlagsOK'
    BY <2>1, <2>2, PicNext, ModeNext DEF FlagsOK
  <2> QED
    BY <2>2, <2>3 DEF TimerInv, TypeOK, CountsInv, FramesOK, HandlersOK, FlagsOK, PicOK,
                      ModeOK, ServiceOK, Frame, Tracked
<1> QED
  BY <1>1, <1>2, PTL DEF Spec

(* No tick vanishes, whatever the counters' width: each one due is         *)
(* injected, dropped or still owed (RecordTimerTicksDue,                   *)
(* RecordTimerTickInjected, RecordTimerTickBacklogCleared).                *)
THEOREM NoTickVanishes == Spec => []TicksAccounted
<1>1. TimerInv => TicksAccounted
  BY DEF TimerInv
<1> QED
  BY <1>1, TimerInvariant, PTL

(* The pending flag says exactly whether a tick is owed                    *)
(* (InjectPendingInterrupts).                                              *)
THEOREM PendingIsExact == Spec => []PendingIffOwed
<1>1. TimerInv => PendingIffOwed
  BY DEF TimerInv
<1> QED
  BY <1>1, TimerInvariant, PTL

(* No handler is interrupted by the next tick before its EOI               *)
(* (NotePicTimerInjected, NotePicCommand, PicTimerBlocksInjection).        *)
THEOREM EoiBeforeNextTick == Spec => []UnacknowledgedOnTop
<1>1. TimerInv => UnacknowledgedOnTop
  BY DEF TimerInv
<1> QED
  BY <1>1, TimerInvariant, PTL

(* Where returns are seen, the controller tracks only frames that stand    *)
(* (NoteGuestIret, NotePicTimerInjected).                                  *)
THEOREM OnlyStandingFramesTracked == Spec => []TrackedHandlersStand
<1>1. TimerInv => TrackedHandlersStand
  BY DEF TimerInv
<1> QED
  BY <1>1, TimerInvariant, PTL

(* Once a return was seen, handlers nest one deep at most and only at a    *)
(* handler's closing sti, also after nests deeper than the tracked frames  *)
(* (PicTimerBlocksInjection).                                              *)
THEOREM NestingIsBounded == Spec => NestingBounded
<1>1. ASSUME TimerInv, [Next]_vars, Len(frames') > Len(frames), returnSeen
      PROVE  ~InHandler \/ (Len(frames) = 1 /\ stiRequest)
  <2>1. CountsInv /\ FramesOK /\ HandlersOK /\ FlagsOK /\ ServiceOK
    BY <1>1, InvParts
  <2>2. Len(frames) \in Nat /\ seesReturn
    BY <1>1, <2>1, FramesTyped DEF FlagsOK, PicOK
  <2>3. \E trap, fast \in BOOLEAN : Inject(trap, fast)
    <3>1. Quiet \/ Looks \/ OtherIret => frames' = frames
      BY DEF Quiet, Looks, OtherIret
    <3>2. \A depth \in Floor..(Floor + 1) : GuestMovesStack(depth) => frames' = frames
      BY DEF GuestMovesStack
    <3>3. GuestEoi => Len(frames') = Len(frames)
      BY <2>1, StackEoi DEF GuestEoi
    <3>4. HandlerReturns => Len(frames') = Len(frames) - 1
      BY <2>1, StackReturns DEF HandlerReturns
    <3>5. ~(Len(frames') = Len(frames) - 1) /\ ~(Len(frames') = Len(frames))
      BY <1>1, <2>2
    <3> QED
      BY <1>1, <3>1, <3>2, <3>3, <3>4, <3>5, StepKinds
  <2>4. ~NestingBlocks
    BY <2>3 DEF Inject, PicBlocks
  <2>5. StandingHandlers = handlers /\ Len(handlers) \in Nat
    BY <2>1, <2>2, StandingAll, HandlersTyped
  <2>6. Len(handlers) = 0 \/ (Len(handlers) = 1 /\ stiRequest)
    <3>1. ~(Len(handlers) >= 2) /\ (Len(handlers) = 1 => stiRequest)
      BY <1>1, <2>4, <2>5, Zenon DEF NestingBlocks
    <3>2. Len(handlers) = 0 \/ Len(handlers) = 1
      <4>1. \A k \in Nat : k >= 2 \/ k = 0 \/ k = 1
        OBVIOUS
      <4> QED
        BY <2>5, <3>1, <4>1, Zenon
    <3> QED
      BY <3>1, <3>2, Zenon
  <2>7. Len(frames) = 0 \/ (Len(frames) = 1 /\ stiRequest)
    BY <2>1, <2>2, <2>6, NestingKnown
  <2> QED
    BY <2>1, <2>7, FramesTyped
<1>2. TimerInv /\ [Next]_vars =>
        [Len(frames') > Len(frames) /\ returnSeen =>
            ~InHandler \/ (Len(frames) = 1 /\ stiRequest)]_vars
  BY <1>1
<1> QED
  BY <1>2, TimerInvariant, PTL DEF Spec, NestingBounded

=============================================================================
