--------------------- MODULE JammaInputTimeline_proofs ---------------------
(***************************************************************************)
(* A timer handler reads the keys of its own tick as they were when that   *)
(* tick was due and returns to what it interrupted, and ticks come in      *)
(* order and on time, for every divisor, capacity, execution model and     *)
(* guest program.                                                          *)
(***************************************************************************)
EXTENDS JammaInputTimeline, FiniteSetTheorems, SequenceTheorems, WellFoundedInduction, TLAPS

-----------------------------------------------------------------------------
(* Numbers. *)

(* A set of naturals that is not empty has a least element. *)
LEMMA LeastNatural ==
    ASSUME NEW T \in SUBSET Nat, T # {}
    PROVE  \E n \in T : \A m \in T : n <= m
<1>1. PICK x \in T : \A y \in T : ~ (<<y, x>> \in OpToRel(<, Nat))
  BY NatLessThanWellFounded, WFMin
<1>2. \A y \in T : ~(y < x)
  BY <1>1 DEF OpToRel
<1> QED
  BY <1>2

(* A set of naturals with a bound has a greatest one. *)
LEMMA MaxIs ==
    ASSUME NEW T \in SUBSET Nat, T # {}, NEW b \in Nat, \A m \in T : m <= b
    PROVE  Max(T) \in T /\ \A m \in T : m <= Max(T)
<1> DEFINE D == {b - m : m \in T}
<1>1. D \in SUBSET Nat /\ D # {}
  <2>1. \A m \in T : b - m \in Nat
    OBVIOUS
  <2> QED
    BY <2>1, Zenon
<1>2. PICK d \in D : \A e \in D : d <= e
  BY <1>1, LeastNatural
<1>3. PICK n \in T : d = b - n
  BY <1>2
<1>4. \A m \in T : n >= m
  <2> SUFFICES ASSUME NEW m \in T PROVE n >= m
    OBVIOUS
  <2>1. d <= b - m
    BY <1>2
  <2> QED
    BY <1>3, <2>1
<1>5. \E x \in T : \A y \in T : x >= y
  BY <1>4
<1>6. Max(T) \in T /\ \A m \in T : Max(T) >= m
  BY <1>5, Zenon DEF Max
<1> QED
  BY <1>6

LEMMA Distributes ==
    ASSUME NEW m \in Int, NEW p \in Int, NEW q \in Int
    PROVE  /\ (p + q) * m = p * m + q * m /\ (p - q) * m = p * m - q * m
           /\ p * m \in Int /\ q * m \in Int /\ 1 * m = m /\ 0 * m = 0
OBVIOUS

LEMMA ProductsGrow ==
    ASSUME NEW m \in Nat, NEW p \in Int, NEW q \in Int, p <= q
    PROVE  p * m <= q * m /\ p * m \in Int /\ q * m \in Int
OBVIOUS

LEMMA Swapped ==
    ASSUME NEW p \in Int, NEW q \in Int, NEW r \in Int
    PROVE  (p * q) * r = (p * r) * q /\ p * q \in Int
OBVIOUS

(* A quotient and a remainder. *)
Divides(a, m) == \E q \in Nat : \E r \in 0..(m - 1) : a = q * m + r

LEMMA DivideNatural == ASSUME NEW m \in Nat \ {0}, NEW a \in Nat PROVE Divides(a, m)
<1> DEFINE T == {n \in Nat : ~Divides(n, m)}
<1> SUFFICES ASSUME T # {}
             PROVE  FALSE
  OBVIOUS
<1>1. PICK n \in T : \A k \in T : n <= k
  <2>1. T \in SUBSET Nat
    OBVIOUS
  <2> HIDE DEF T
  <2> QED
    BY <2>1, LeastNatural
<1>2. CASE n < m
  <2>1. n = 0 * m + n /\ n \in 0..(m - 1)
    BY <1>1, <1>2, Distributes
  <2> QED
    BY <1>1, <2>1 DEF Divides
<1>3. CASE n >= m
  <2>1. n - m \in Nat /\ n - m < n
    BY <1>1, <1>3
  <2>2. Divides(n - m, m)
    BY <1>1, <2>1
  <2>3. PICK q \in Nat : \E r \in 0..(m - 1) : n - m = q * m + r
    BY <2>2 DEF Divides
  <2>4. PICK r \in 0..(m - 1) : n - m = q * m + r
    BY <2>3
  <2>5. (q + 1) * m = q * m + m /\ q * m \in Int
    BY Distributes
  <2>6. n = (q + 1) * m + r
    BY <1>1, <2>4, <2>5
  <2>7. q + 1 \in Nat
    OBVIOUS
  <2> QED
    BY <1>1, <2>6, <2>7, Zenon DEF Divides
<1> QED
  BY <1>1, <1>2, <1>3

LEMMA QuotientUnique ==
    ASSUME NEW m \in Nat \ {0}, NEW a \in Nat, NEW q \in Nat, NEW r \in 0..(m - 1),
           a = q * m + r
    PROVE  a % m = r /\ a \div m = q
OBVIOUS

(* What division cuts off. *)
LEMMA Quotient ==
    ASSUME NEW m \in Nat \ {0}, NEW a \in Nat
    PROVE  /\ a \div m \in Nat /\ a % m \in 0..(m - 1)
           /\ a = (a \div m) * m + (a % m)
<1>1. PICK q \in Nat : \E r \in 0..(m - 1) : a = q * m + r
  BY DivideNatural DEF Divides
<1>2. PICK r \in 0..(m - 1) : a = q * m + r
  BY <1>1
<1>3. r = a % m /\ q = a \div m
  BY <1>2, QuotientUnique
<1>4. q \in Nat /\ r \in 0..(m - 1) /\ a = q * m + r
  BY <1>2
<1> QED
  BY <1>3, <1>4

(* A quotient is at least n when the dividend is at least n times the      *)
(* divisor.                                                                *)
LEMMA QuotientReaches ==
    ASSUME NEW m \in Nat \ {0}, NEW a \in Nat, NEW n \in Nat
    PROVE  a \div m >= n <=> a >= n * m
<1> DEFINE q == a \div m
           r == a % m
<1>1. q \in Nat /\ r \in 0..(m - 1) /\ a = q * m + r
  BY Quotient
<1> HIDE DEF q, r
<1>2. CASE q >= n
  <2>1. n * m <= q * m /\ n * m \in Int /\ q * m \in Int
    BY <1>1, <1>2, ProductsGrow
  <2> QED
    BY <1>1, <1>2, <2>1 DEF q
<1>3. CASE q < n
  <2>1. (q + 1) * m <= n * m /\ n * m \in Int /\ q + 1 \in Int
    BY <1>1, <1>3, ProductsGrow
  <2>2. (q + 1) * m = q * m + m /\ q * m \in Int
    BY <1>1, Distributes
  <2> QED
    BY <1>1, <1>3, <2>1, <2>2 DEF q
<1> QED
  BY <1>1, <1>2, <1>3

-----------------------------------------------------------------------------
(* The schedule of the ticks. *)

(* A tick's time, rounded up, is the first at which as many clocks as it   *)
(* takes have passed.                                                      *)
LEMMA ElapsedIs ==
    ASSUME NEW d \in Nat \ {0}, NEW n \in Nat, NEW e \in Nat
    PROVE  /\ PitElapsedNanosecondsForTick(n, d) \in Nat
           /\ e >= PitElapsedNanosecondsForTick(n, d)
                <=> e * InputClockHz >= (n * d) * NanosPerSecond
<1> DEFINE C == InputClockHz
           N == NanosPerSecond
           c == n * d
           a == c \div C
           b == c % C
           p == (b * N + C - 1) \div C
           E == a * N + p
<1>1. C \in Nat \ {0} /\ N \in Nat /\ PitElapsedNanosecondsForTick(n, d) = E
  BY PitAssumption DEF PitElapsedNanosecondsForTick
<1>2. c \in Nat
  OBVIOUS
<1>3. a \in Nat /\ b \in 0..(C - 1) /\ c = a * C + b
  <2> HIDE DEF c, C
  <2> QED
    BY <1>1, <1>2, Quotient
<1> HIDE DEF a, b, c, C, N
<1>4. b * N \in Nat /\ b * N + C - 1 \in Nat
  BY <1>1, <1>3
<1>5. p \in Nat /\ \A k \in Nat : p >= k <=> b * N + C - 1 >= k * C
  BY <1>1, <1>4, Quotient, QuotientReaches
<1> HIDE DEF p
<1>6. b * N <= p * C /\ p * C \in Int /\ p * C < b * N + C
  <2>1. p * C <= b * N + C - 1 /\ p * C \in Int
    BY <1>1, <1>5
  <2>2. ~(b * N + C - 1 >= (p + 1) * C)
    BY <1>5
  <2>3. (p + 1) * C = p * C + C
    BY <1>1, <1>5, Distributes
  <2> QED
    BY <1>1, <1>4, <2>1, <2>2, <2>3
<1>7. a * N \in Nat /\ E \in Nat
  BY <1>1, <1>3, <1>5
<1>8. c * N = (a * N) * C + b * N /\ c * N \in Int /\ (a * N) * C \in Int
  <2>1. c * N = (a * C) * N + b * N /\ a * C \in Int
    BY <1>1, <1>3, Distributes
  <2> QED
    BY <1>1, <1>2, <1>3, <1>7, <2>1, Swapped
<1>9. E * C = (a * N) * C + p * C /\ E * C \in Int
  BY <1>1, <1>5, <1>7, Distributes
<1>10. c * N <= E * C /\ E * C < c * N + C
  BY <1>1, <1>4, <1>6, <1>8, <1>9
<1> HIDE DEF E
<1>11. CASE e >= E
  <2>1. E * C <= e * C /\ e * C \in Int
    BY <1>1, <1>7, <1>11, ProductsGrow
  <2>2. e * C >= c * N
    BY <1>8, <1>9, <1>10, <2>1
  <2> QED
    BY <1>1, <1>7, <1>11, <2>2 DEF c, C, N
<1>12. CASE e < E
  <2>1. (e + 1) * C <= E * C /\ (e + 1) * C = e * C + C /\ e * C \in Int
    BY <1>1, <1>7, <1>12, ProductsGrow, Distributes
  <2>2. ~(e * C >= c * N)
    BY <1>1, <1>8, <1>9, <1>10, <2>1
  <2> QED
    BY <1>1, <1>7, <1>12, <2>2 DEF c, C, N
<1> QED
  BY <1>7, <1>11, <1>12

(* So does the count of ticks, rounded down, reach n. *)
LEMMA CountIs ==
    ASSUME NEW d \in Nat \ {0}, NEW n \in Nat, NEW e \in Nat
    PROVE  /\ PitTickCountForElapsed(e, d) \in Nat
           /\ PitTickCountForElapsed(e, d) >= n
                <=> e * InputClockHz >= (n * d) * NanosPerSecond
<1> DEFINE C == InputClockHz
           N == NanosPerSecond
           c == n * d
           w == e \div N
           r == e % N
           q == (r * C) \div N
           X == w * C + q
<1>1. C \in Nat \ {0} /\ N \in Nat \ {0} /\ PitTickCountForElapsed(e, d) = X \div d
  BY PitAssumption DEF PitTickCountForElapsed
<1>2. c \in Nat
  OBVIOUS
<1>3. w \in Nat /\ r \in 0..(N - 1) /\ e = w * N + r
  <2> HIDE DEF N
  <2> QED
    BY <1>1, Quotient
<1> HIDE DEF w, r, c, C, N
<1>4. r * C \in Nat
  BY <1>1, <1>3
<1>5. q \in Nat /\ \A k \in Nat : q >= k <=> r * C >= k * N
  BY <1>1, <1>4, Quotient, QuotientReaches
<1> HIDE DEF q
<1>6. q * N <= r * C /\ q * N \in Int /\ r * C < q * N + N
  <2>1. q * N <= r * C /\ q * N \in Int
    BY <1>1, <1>5
  <2>2. ~(r * C >= (q + 1) * N)
    BY <1>5
  <2>3. (q + 1) * N = q * N + N
    BY <1>1, <1>5, Distributes
  <2> QED
    BY <1>1, <1>4, <2>1, <2>2, <2>3
<1>7. w * C \in Nat /\ X \in Nat
  BY <1>1, <1>3, <1>5
<1>8. e * C = (w * C) * N + r * C /\ e * C \in Int /\ (w * C) * N \in Int
  <2>1. e * C = (w * N) * C + r * C /\ w * N \in Int
    BY <1>1, <1>3, Distributes
  <2> QED
    BY <1>1, <1>3, <1>7, <2>1, Swapped
<1>9. X * N = (w * C) * N + q * N /\ X * N \in Int
  <2>1. w * C \in Int /\ q \in Int /\ N \in Int
    BY <1>1, <1>5, <1>7
  <2> QED
    BY <2>1, Distributes
<1>10. X * N <= e * C /\ e * C < X * N + N
  BY <1>1, <1>4, <1>6, <1>8, <1>9
<1> HIDE DEF X
<1>11. X >= c <=> e * C >= c * N
  <2>1. CASE X >= c
    <3>1. c * N <= X * N /\ c * N \in Int
      BY <1>1, <1>2, <1>7, <2>1, ProductsGrow
    <3> QED
      BY <1>8, <1>9, <1>10, <2>1, <3>1
  <2>2. CASE X < c
    <3>1. (X + 1) * N <= c * N /\ (X + 1) * N = X * N + N /\ c * N \in Int
      BY <1>1, <1>2, <1>7, <2>2, ProductsGrow, Distributes
    <3> QED
      BY <1>1, <1>2, <1>7, <1>8, <1>9, <1>10, <2>2, <3>1
  <2> QED
    BY <1>2, <1>7, <2>1, <2>2
<1>12. X \div d \in Nat /\ (X \div d >= n <=> X >= n * d)
  <2>1. X \div d \in Nat
    BY <1>7, Quotient
  <2>2. X \div d >= n <=> X >= n * d
    BY <1>7, QuotientReaches
  <2> QED
    BY <2>1, <2>2
<1> QED
  BY <1>1, <1>11, <1>12 DEF c, C, N

(* Both roundings agree: a tick is found due exactly from its time on. *)
LEMMA TickIsDue ==
    ASSUME NEW d \in Nat \ {0}, NEW n \in Nat, NEW e \in Nat
    PROVE  e >= PitElapsedNanosecondsForTick(n, d) <=> PitTickCountForElapsed(e, d) >= n
BY ElapsedIs, CountIs

(* No two ticks have the same time, and none is due at once. *)
LEMMA TicksApart ==
    ASSUME NEW d \in Nat \ {0}, NEW n \in Nat
    PROVE  PitElapsedNanosecondsForTick(n, d) < PitElapsedNanosecondsForTick(n + 1, d)
<1> DEFINE C == InputClockHz
           N == NanosPerSecond
           E == PitElapsedNanosecondsForTick(n, d)
           F == PitElapsedNanosecondsForTick(n + 1, d)
<1>1. C \in Nat \ {0} /\ N \in Nat /\ N >= C
  BY PitAssumption
<1>2. E \in Nat /\ F \in Nat /\ n + 1 \in Nat
  BY ElapsedIs
<1>3. \A e \in Nat : /\ e >= E <=> e * C >= (n * d) * N
                     /\ e >= F <=> e * C >= ((n + 1) * d) * N
  BY <1>2, ElapsedIs
<1> HIDE DEF C, N, E, F
<1>4. /\ n * d \in Nat /\ (n * d) * N \in Int /\ d * N \in Int
      /\ ((n + 1) * d) * N = (n * d) * N + d * N
  <2>1. n * d \in Nat /\ (n + 1) * d = n * d + d
    BY Distributes
  <2> QED
    BY <1>1, <2>1, Distributes
<1>5. d * N >= C
  <2>1. 1 * N <= d * N /\ 1 * N = N
    BY <1>1, ProductsGrow, Distributes
  <2> QED
    BY <1>1, <1>4, <2>1
<1> SUFFICES ASSUME F <= E
             PROVE  FALSE
  BY <1>2 DEF E, F
<1>6. E * C >= (n * d) * N + d * N /\ E * C \in Int
  BY <1>1, <1>2, <1>3, <1>4
<1>7. CASE E = 0
  <2>1. E * C = 0
    BY <1>1, <1>7, Distributes
  <2>2. (n * d) * N >= 0
    BY <1>1, <1>4
  <2> QED
    BY <1>1, <1>4, <1>5, <1>6, <2>1, <2>2
<1>8. CASE E # 0
  <2>1. E - 1 \in Nat /\ ~((E - 1) * C >= (n * d) * N)
    BY <1>2, <1>3, <1>8
  <2>2. (E - 1) * C = E * C - C
    BY <1>1, <1>2, Distributes
  <2> QED
    BY <1>1, <1>4, <1>5, <1>6, <2>1, <2>2
<1> QED
  BY <1>7, <1>8

-----------------------------------------------------------------------------
(* Lists. *)

(* t is what is left of s when only the positions in kept stay; f says     *)
(* where each element was.                                                 *)
Selects(t, s, kept, f) ==
    /\ f \in [1..Len(t) -> kept]
    /\ \A i, j \in 1..Len(t) : i < j => f[i] < f[j]
    /\ \A n \in kept : \E i \in 1..Len(t) : f[i] = n
    /\ \A i \in 1..Len(t) : t[i] = s[f[i]]

(* The numbers of a finite set in their order. *)
LEMMA Enumerates ==
    ASSUME NEW L \in Nat
    PROVE  \A n \in Nat : \A K \in SUBSET (1..L) : Cardinality(K) = n =>
              \E f \in [1..n -> K] : \A i, j \in 1..n : i < j => f[i] < f[j]
<1> DEFINE Has(n) == \A K \in SUBSET (1..L) : Cardinality(K) = n =>
              \E f \in [1..n -> K] : \A i, j \in 1..n : i < j => f[i] < f[j]
           T == {n \in Nat : ~Has(n)}
<1> SUFFICES ASSUME T # {}
             PROVE  FALSE
  OBVIOUS
<1>1. PICK n \in T : \A k \in T : n <= k
  <2>1. T \in SUBSET Nat
    OBVIOUS
  <2> HIDE DEF T
  <2> QED
    BY <2>1, LeastNatural
<1>2. n \in Nat /\ ~Has(n)
  BY <1>1
<1>3. PICK K \in SUBSET (1..L) :
         /\ Cardinality(K) = n
         /\ ~ \E f \in [1..n -> K] : \A i, j \in 1..n : i < j => f[i] < f[j]
  BY <1>2
<1>4. IsFiniteSet(K) /\ K \in SUBSET Nat /\ \A m \in K : m <= L
  <2>1. IsFiniteSet(1..L)
    BY FS_Interval
  <2>2. IsFiniteSet(K)
    BY <2>1, FS_Subset, Zenon
  <2>3. K \in SUBSET Nat /\ \A m \in K : m <= L
    OBVIOUS
  <2> QED
    BY <2>2, <2>3
<1>5. CASE n = 0
  <2>1. 1..n = {}
    BY <1>5
  <2>2. [i \in {} |-> 0] \in [{} -> K]
    OBVIOUS
  <2>3. \A i, j \in {} : i < j => [k \in {} |-> 0][i] < [k \in {} |-> 0][j]
    OBVIOUS
  <2> QED
    BY <1>3, <2>1, <2>2, <2>3, Zenon
<1>6. CASE n # 0
  <2>1. K # {}
    BY <1>3, <1>6, FS_EmptySet
  <2> DEFINE x == Max(K)
  <2>2. x \in K /\ \A m \in K : m <= x
    BY <1>4, <2>1, MaxIs
  <2> HIDE DEF x
  <2>3. Cardinality(K \ {x}) = n - 1 /\ K \ {x} \in SUBSET (1..L)
    BY <1>3, <1>4, <2>2, FS_RemoveElement
  <2>4. n - 1 \in Nat /\ n - 1 \notin T
    BY <1>1, <1>2, <1>6
  <2>5. PICK g \in [1..(n - 1) -> K \ {x}] : \A i, j \in 1..(n - 1) : i < j => g[i] < g[j]
    BY <2>3, <2>4
  <2> DEFINE f == [i \in 1..n |-> IF i = n THEN x ELSE g[i]]
  <2>6. \A i \in 1..n : i # n => i \in 1..(n - 1)
    BY <1>2
  <2>7. f \in [1..n -> K]
    BY <2>2, <2>5, <2>6
  <2>8. ASSUME NEW i \in 1..n, NEW j \in 1..n, i < j
        PROVE  f[i] < f[j]
    <3>1. i \in 1..(n - 1) /\ f[i] = g[i] /\ g[i] \in K \ {x}
      BY <1>2, <2>5, <2>8
    <3>2. CASE j = n
      <4>1. f[j] = x /\ g[i] <= x /\ g[i] # x
        BY <2>2, <3>1, <3>2
      <4>2. g[i] \in Nat /\ x \in Nat
        BY <1>4, <2>2, <3>1
      <4> QED
        BY <3>1, <4>1, <4>2
    <3>3. CASE j # n
      BY <2>5, <2>6, <2>8, <3>1, <3>3
    <3> QED
      BY <3>2, <3>3
  <2> QED
    BY <1>3, <2>7, <2>8
<1> QED
  BY <1>5, <1>6

LEMMA KeptIs ==
    ASSUME NEW S, NEW s \in Seq(S), NEW kept \in SUBSET (1..Len(s))
    PROVE  /\ Kept(s, kept) \in Seq(S) /\ Len(Kept(s, kept)) = Cardinality(kept)
           /\ \E f : Selects(Kept(s, kept), s, kept, f)
<1> DEFINE n == Cardinality(kept)
           P(f) == \A i, j \in 1..n : i < j => f[i] < f[j]
           at == CHOOSE f \in [1..n -> kept] : P(f)
           t == Kept(s, kept)
<1>1. Len(s) \in Nat
  BY LenProperties
<1>2. IsFiniteSet(kept) /\ n \in Nat /\ IsFiniteSet(1..n) /\ Cardinality(1..n) = n
  <2>1. IsFiniteSet(1..Len(s))
    BY <1>1, FS_Interval
  <2>2. IsFiniteSet(kept)
    BY <2>1, FS_Subset
  <2>3. n \in Nat
    BY <2>2, FS_CardinalityType
  <2> HIDE DEF n
  <2>4. IsFiniteSet(1..n) /\ Cardinality(1..n) = n
    BY <2>3, FS_Interval
  <2> QED
    BY <2>2, <2>3, <2>4
<1>3. \E f \in [1..n -> kept] : P(f)
  BY <1>1, <1>2, Enumerates
<1>4. at \in [1..n -> kept] /\ P(at)
  <2> HIDE DEF P
  <2> QED
    BY <1>3, Zenon
<1>5. t = [i \in 1..n |-> s[at[i]]]
  BY DEF Kept
<1>6. \A i \in 1..n : at[i] \in kept /\ at[i] \in 1..Len(s) /\ s[at[i]] \in S
  BY <1>4, ElementOfSeq
<1> HIDE DEF at, t, n
<1>7. t \in Seq(S) /\ Len(t) = n
  BY <1>2, <1>5, <1>6, IsASeq
<1>8. at \in Surjection(1..n, kept)
  <2>1. \A i, j \in 1..n : at[i] = at[j] => i = j
    <3> SUFFICES ASSUME NEW i \in 1..n, NEW j \in 1..n, at[i] = at[j], i # j
                 PROVE  FALSE
      OBVIOUS
    <3>1. i < j \/ j < i
      BY <1>2
    <3>2. at[i] \in Nat /\ at[j] \in Nat
      BY <1>1, <1>6
    <3> QED
      BY <1>4, <3>1, <3>2
  <2>2. at \in Injection(1..n, kept)
    BY <1>4, <2>1 DEF Injection, IsInjective
  <2> QED
    BY <1>2, <2>2, FS_Injection DEF n
<1>9. Selects(t, s, kept, at)
  BY <1>4, <1>5, <1>7, <1>8 DEF Selects, Surjection
<1> QED
  BY <1>7, <1>9 DEF t, n

(* The beginning of a list. *)
LEMMA PrefixIs ==
    ASSUME NEW S, NEW s \in Seq(S), NEW n \in 0..Len(s)
    PROVE  /\ SubSeq(s, 1, n) \in Seq(S) /\ Len(SubSeq(s, 1, n)) = n
           /\ \A i \in 1..n : SubSeq(s, 1, n)[i] = s[i]
<1>1. Len(s) \in Nat /\ \A i \in 1..n : s[i] \in S
  BY LenProperties, ElementOfSeq
<1>2. /\ SubSeq(s, 1, n) \in Seq(S)
      /\ Len(SubSeq(s, 1, n)) = IF 1 <= n THEN n - 1 + 1 ELSE 0
      /\ \A i \in 1..(n - 1 + 1) : SubSeq(s, 1, n)[i] = s[1 + i - 1]
  BY <1>1, SubSeqProperties
<1> QED
  BY <1>1, <1>2

(* A list with one more element. *)
LEMMA AppendIs ==
    ASSUME NEW S, NEW s \in Seq(S), NEW e \in S
    PROVE  /\ Append(s, e) \in Seq(S) /\ Len(Append(s, e)) = Len(s) + 1
           /\ \A i \in 1..Len(s) : Append(s, e)[i] = s[i]
           /\ Append(s, e)[Len(s) + 1] = e
BY LenProperties, AppendProperties

(* Every two elements of t stand in s in the same order, so that a list    *)
(* thinned out rises by whatever it did before.                            *)
Thins(t, s) ==
    /\ \A i \in DOMAIN t : \E k \in DOMAIN s : t[i] = s[k]
    /\ \A i, j \in DOMAIN t :
          i < j => \E k, l \in DOMAIN s : k < l /\ t[i] = s[k] /\ t[j] = s[l]

LEMMA SelectsThins ==
    ASSUME NEW S, NEW s \in Seq(S), NEW t \in Seq(S), NEW kept \in SUBSET (1..Len(s)),
           \E f : Selects(t, s, kept, f)
    PROVE  /\ Thins(t, s)
           /\ \A i \in DOMAIN t : \E n \in kept : t[i] = s[n]
           /\ \A n \in kept : \E i \in DOMAIN t : t[i] = s[n]
<1>1. PICK f : Selects(t, s, kept, f)
  OBVIOUS
<1>2. DOMAIN t = 1..Len(t) /\ DOMAIN s = 1..Len(s)
  BY LenProperties
<1>3. /\ \A i \in DOMAIN t : f[i] \in kept /\ f[i] \in DOMAIN s /\ t[i] = s[f[i]]
      /\ \A i, j \in DOMAIN t : i < j => f[i] < f[j]
      /\ \A n \in kept : \E i \in DOMAIN t : f[i] = n
  BY <1>1, <1>2 DEF Selects
<1>4. \A i, j \in DOMAIN t :
          i < j => \E k, l \in DOMAIN s : k < l /\ t[i] = s[k] /\ t[j] = s[l]
  BY <1>3
<1>5. ASSUME NEW n \in kept
      PROVE  \E i \in DOMAIN t : t[i] = s[n]
  <2>1. PICK i \in DOMAIN t : f[i] = n
    BY <1>3
  <2>2. t[i] = s[f[i]]
    BY <1>3
  <2> QED
    BY <2>1, <2>2
<1> QED
  BY <1>3, <1>4, <1>5 DEF Thins

LEMMA ThinsTwice ==
    ASSUME NEW r, NEW s, NEW t, Thins(t, s), Thins(s, r)
    PROVE  Thins(t, r)
<1>1. ASSUME NEW i \in DOMAIN t
      PROVE  \E k \in DOMAIN r : t[i] = r[k]
  <2>1. PICK k \in DOMAIN s : t[i] = s[k]
    BY DEF Thins
  <2>2. PICK m \in DOMAIN r : s[k] = r[m]
    BY DEF Thins
  <2> QED
    BY <2>1, <2>2
<1>2. ASSUME NEW i \in DOMAIN t, NEW j \in DOMAIN t, i < j
      PROVE  \E k, l \in DOMAIN r : k < l /\ t[i] = r[k] /\ t[j] = r[l]
  <2>1. PICK k \in DOMAIN s, l \in DOMAIN s : k < l /\ t[i] = s[k] /\ t[j] = s[l]
    BY <1>2, Zenon DEF Thins
  <2>2. PICK m \in DOMAIN r, n \in DOMAIN r : m < n /\ s[k] = r[m] /\ s[l] = r[n]
    BY <2>1, Zenon DEF Thins
  <2> QED
    BY <2>1, <2>2
<1> QED
  BY <1>1, <1>2, Zenon DEF Thins

(* What is left of a list, by where it was. *)
LEMMA KeptThins ==
    ASSUME NEW S, NEW s \in Seq(S), NEW kept \in SUBSET DOMAIN s
    PROVE  /\ Kept(s, kept) \in Seq(S) /\ Thins(Kept(s, kept), s)
           /\ \A i \in DOMAIN Kept(s, kept) : \E n \in kept : Kept(s, kept)[i] = s[n]
           /\ \A n \in kept : \E i \in DOMAIN Kept(s, kept) : Kept(s, kept)[i] = s[n]
<1>1. DOMAIN s = 1..Len(s)
  BY LenProperties
<1>2. Kept(s, kept) \in Seq(S) /\ \E f : Selects(Kept(s, kept), s, kept, f)
  BY <1>1, KeptIs
<1> QED
  BY <1>1, <1>2, SelectsThins

LEMMA PrefixThins ==
    ASSUME NEW S, NEW s \in Seq(S), NEW n \in 0..Len(s)
    PROVE  /\ SubSeq(s, 1, n) \in Seq(S) /\ Thins(SubSeq(s, 1, n), s)
           /\ DOMAIN SubSeq(s, 1, n) = 1..n /\ Len(SubSeq(s, 1, n)) = n
           /\ \A i \in 1..n : i \in DOMAIN s /\ SubSeq(s, 1, n)[i] = s[i]
<1> DEFINE t == SubSeq(s, 1, n)
<1>1. Len(s) \in Nat /\ DOMAIN s = 1..Len(s)
  BY LenProperties
<1>2. t \in Seq(S) /\ Len(t) = n /\ \A i \in 1..n : t[i] = s[i]
  BY PrefixIs
<1>3. DOMAIN t = 1..n
  BY <1>2, LenProperties
<1> HIDE DEF t
<1>4. \A i \in 1..n : i \in DOMAIN s
  BY <1>1
<1>5. Thins(t, s)
  BY <1>2, <1>3, <1>4 DEF Thins
<1> QED
  BY <1>2, <1>3, <1>4, <1>5 DEF t

LEMMA TailThins ==
    ASSUME NEW S, NEW s \in Seq(S), s # <<>>
    PROVE  /\ Tail(s) \in Seq(S) /\ Thins(Tail(s), s)
           /\ \A n \in DOMAIN s : n # 1 => \E i \in DOMAIN Tail(s) : Tail(s)[i] = s[n]
           /\ \A i \in DOMAIN Tail(s) : \E n \in DOMAIN s : n # 1 /\ Tail(s)[i] = s[n]
<1> DEFINE t == Tail(s)
<1>1. Len(s) \in Nat /\ DOMAIN s = 1..Len(s)
  BY LenProperties
<1>2. t \in Seq(S) /\ Len(t) = Len(s) - 1 /\ \A i \in 1..Len(t) : t[i] = s[i + 1]
  BY HeadTailProperties
<1>3. DOMAIN t = 1..Len(t)
  BY <1>2, LenProperties
<1> HIDE DEF t
<1>4. \A i \in DOMAIN t : i + 1 \in DOMAIN s /\ i + 1 # 1 /\ t[i] = s[i + 1]
  BY <1>1, <1>2, <1>3
<1>5. \A i, j \in DOMAIN t : i < j => i + 1 < j + 1
  BY <1>1, <1>2, <1>3
<1>6. Thins(t, s)
  BY <1>4, <1>5 DEF Thins
<1>7. ASSUME NEW n \in DOMAIN s, n # 1
      PROVE  \E i \in DOMAIN t : t[i] = s[n]
  <2>1. n - 1 \in DOMAIN t /\ (n - 1) + 1 = n
    BY <1>1, <1>2, <1>3, <1>7
  <2>2. t[n - 1] = s[n]
    BY <1>4, <2>1
  <2> QED
    BY <2>1, <2>2
<1> QED
  BY <1>2, <1>4, <1>6, <1>7 DEF t

(* The last element, and all before it. *)
LEMMA FrontIs ==
    ASSUME NEW S, NEW s \in Seq(S), s # <<>>
    PROVE  /\ Len(s) \in Nat \ {0} /\ Len(s) \in DOMAIN s /\ Last(s) = s[Len(s)]
           /\ Front(s) = SubSeq(s, 1, Len(s) - 1) /\ Len(s) - 1 \in 0..Len(s)
<1>1. Len(s) \in Nat \ {0} /\ DOMAIN s = 1..Len(s)
  BY EmptySeq, LenProperties
<1> QED
  BY <1>1 DEF Last, Front

-----------------------------------------------------------------------------
(* The lists of the model, and what the operations make of them. *)

ReplayFrame == [ts : Nat, esp : Nat, begin : Nat]
Frame == [esp : Nat \ {0}, serial : Nat, ts : Nat, padded : BOOLEAN]
Record == [esp : Nat, serial : Nat]

TickTypes ==
    /\ now \in Nat /\ generation \in Nat /\ divisor \in Divisors
    /\ schedule \in [initialized : BOOLEAN, generation : Nat, epoch : Nat, emitted : Nat]
    /\ due \in Seq(Nat) /\ lastDue \in Int
    /\ schedule.epoch <= now /\ Len(due) <= DueCapacity

GuestTypes ==
    /\ replay \in Seq(ReplayFrame) /\ begins \in Nat
    /\ sp \in Nat /\ frames \in Seq(Frame) /\ pad \in Seq(Record)

Types == TickTypes /\ GuestTypes

(* The frames of the timeline, oldest first, go up the stack. *)
Rising(r) ==
    \A i, j \in DOMAIN r : i < j => r[i].esp < r[j].esp /\ r[i].begin < r[j].begin

LEMMA ThinsRising ==
    ASSUME NEW s, NEW t, Thins(t, s), Rising(s)
    PROVE  Rising(t)
<1> SUFFICES ASSUME NEW i \in DOMAIN t, NEW j \in DOMAIN t, i < j
             PROVE  t[i].esp < t[j].esp /\ t[i].begin < t[j].begin
  BY DEF Rising
<1>1. PICK k \in DOMAIN s, l \in DOMAIN s : k < l /\ t[i] = s[k] /\ t[j] = s[l]
  BY Zenon DEF Thins
<1> QED
  BY <1>1 DEF Rising

(* In a list that rises, the later element is the one with the larger key. *)
LEMMA RisingOrder ==
    ASSUME NEW r \in Seq(ReplayFrame), Rising(r), NEW i \in DOMAIN r, NEW j \in DOMAIN r
    PROVE  /\ r[i].esp < r[j].esp <=> i < j
           /\ r[i].begin < r[j].begin <=> i < j
           /\ r[i].esp = r[j].esp <=> i = j
           /\ r[i].begin = r[j].begin <=> i = j
<1>1. i \in Nat /\ j \in Nat /\ r[i] \in ReplayFrame /\ r[j] \in ReplayFrame
  BY LenProperties, ElementOfSeq
<1>2. /\ r[i].esp \in Nat /\ r[j].esp \in Nat /\ r[i].begin \in Nat /\ r[j].begin \in Nat
  BY <1>1 DEF ReplayFrame
<1>3. CASE i < j
  BY <1>1, <1>2, <1>3 DEF Rising
<1>4. CASE j < i
  BY <1>1, <1>2, <1>4 DEF Rising
<1>5. CASE i = j
  BY <1>2, <1>5
<1> QED
  BY <1>1, <1>3, <1>4, <1>5

(* Of the frames of the timeline those stay that the stack stands in and   *)
(* that are not stale.                                                     *)
LEMMA LiveIs ==
    ASSUME replay \in Seq(ReplayFrame), NEW esp \in Nat
    PROVE  /\ LiveFrames(esp) \in Seq(ReplayFrame) /\ Thins(LiveFrames(esp), replay)
           /\ Rising(replay) =>
                /\ \A i \in DOMAIN LiveFrames(esp) :
                      /\ LiveFrames(esp)[i].esp <= esp
                      /\ begins - LiveFrames(esp)[i].begin <= StaleBegins
                /\ \A n \in DOMAIN replay :
                      replay[n].esp <= esp /\ begins - replay[n].begin <= StaleBegins
                        => \E i \in DOMAIN LiveFrames(esp) : LiveFrames(esp)[i] = replay[n]
<1> DEFINE T == {0} \cup {n \in DOMAIN replay : replay[n].esp <= esp}
           m == Max(T)
           r == SubSeq(replay, 1, m)
           kept == {n \in DOMAIN r : begins - r[n].begin <= StaleBegins}
           live == Kept(r, kept)
<1>1. LiveFrames(esp) = live
  BY DEF LiveFrames, RetireStale, RetireReplayFrames
<1>2. Len(replay) \in Nat /\ DOMAIN replay = 1..Len(replay)
  BY LenProperties
<1>3. m \in T /\ \A n \in T : n <= m
  <2>1. T \in SUBSET Nat /\ T # {} /\ \A n \in T : n <= Len(replay)
    BY <1>2
  <2> HIDE DEF T
  <2> QED
    BY <1>2, <2>1, MaxIs
<1> HIDE DEF m
<1>4. m \in 0..Len(replay)
  BY <1>2, <1>3
<1>5. /\ r \in Seq(ReplayFrame) /\ Thins(r, replay) /\ DOMAIN r = 1..m
      /\ \A i \in 1..m : i \in DOMAIN replay /\ r[i] = replay[i]
  BY <1>4, PrefixThins
<1> HIDE DEF r
<1>6. /\ live \in Seq(ReplayFrame) /\ Thins(live, r)
      /\ \A i \in DOMAIN live : \E n \in kept : live[i] = r[n]
      /\ \A n \in kept : \E i \in DOMAIN live : live[i] = r[n]
  <2>1. kept \in SUBSET DOMAIN r
    OBVIOUS
  <2> HIDE DEF kept
  <2> QED
    BY <1>5, <2>1, KeptThins
<1> HIDE DEF live
<1>7. Thins(live, replay)
  BY <1>5, <1>6, ThinsTwice
<1>8. ASSUME Rising(replay), NEW i \in DOMAIN live
      PROVE  live[i].esp <= esp /\ begins - live[i].begin <= StaleBegins
  <2>1. PICK n \in kept : live[i] = r[n]
    BY <1>6
  <2>2. n \in 1..m /\ n \in DOMAIN replay /\ r[n] = replay[n] /\ m \in DOMAIN replay
    BY <1>2, <1>4, <1>5, <2>1
  <2>3. replay[m].esp <= esp
    BY <1>3, <2>2
  <2>4. n = m \/ replay[n].esp < replay[m].esp
    <3>1. n = m \/ n < m
      BY <1>4, <2>2
    <3> QED
      BY <1>8, <2>2, <3>1 DEF Rising
  <2>5. replay[n] \in ReplayFrame /\ replay[m] \in ReplayFrame
    <3>1. n \in 1..Len(replay) /\ m \in 1..Len(replay)
      BY <1>2, <2>2
    <3> QED
      BY <3>1, ElementOfSeq
  <2>6. replay[n].esp \in Nat /\ replay[m].esp \in Nat
    BY <2>5 DEF ReplayFrame
  <2> QED
    BY <2>1, <2>2, <2>3, <2>4, <2>6
<1>9. ASSUME NEW n \in DOMAIN replay, replay[n].esp <= esp, begins - replay[n].begin <= StaleBegins
      PROVE  \E i \in DOMAIN live : live[i] = replay[n]
  <2>1. n <= m /\ n \in 1..m
    BY <1>2, <1>3, <1>9
  <2>2. n \in kept /\ r[n] = replay[n]
    BY <1>5, <1>9, <2>1
  <2> QED
    BY <1>6, <2>2
<1> QED
  BY <1>1, <1>6, <1>7, <1>8, <1>9, Zenon

(* A return leaves the frames below it. *)
LEMMA EndIs ==
    ASSUME replay \in Seq(ReplayFrame), NEW esp
    PROVE  /\ EndTimerInterrupt(esp) \in Seq(ReplayFrame)
           /\ Thins(EndTimerInterrupt(esp), replay)
           /\ Rising(replay) =>
                /\ \A i \in DOMAIN EndTimerInterrupt(esp) : EndTimerInterrupt(esp)[i].esp # esp
                /\ \A n \in DOMAIN replay : replay[n].esp < esp
                     => \E i \in DOMAIN EndTimerInterrupt(esp) :
                           EndTimerInterrupt(esp)[i] = replay[n]
<1> DEFINE found == {n \in DOMAIN replay : replay[n].esp = esp}
           m == Max(found)
           r == SubSeq(replay, 1, m - 1)
<1>1. Len(replay) \in Nat /\ DOMAIN replay = 1..Len(replay)
  BY LenProperties
<1>2. CASE found = {}
  <2>1. EndTimerInterrupt(esp) = replay
    BY <1>2 DEF EndTimerInterrupt
  <2>2. Thins(replay, replay)
    BY DEF Thins
  <2>3. \A i \in DOMAIN replay : replay[i].esp # esp
    BY <1>2
  <2> QED
    BY <2>1, <2>2, <2>3, Zenon
<1>3. CASE found # {}
  <2>1. EndTimerInterrupt(esp) = r
    BY <1>3 DEF EndTimerInterrupt
  <2>2. m \in found
    <3>1. found \in SUBSET Nat /\ \A n \in found : n <= Len(replay)
      BY <1>1
    <3> HIDE DEF found
    <3> QED
      BY <1>1, <1>3, <3>1, MaxIs
  <2> HIDE DEF m
  <2>3. m - 1 \in 0..Len(replay)
    BY <1>1, <2>2
  <2>4. /\ r \in Seq(ReplayFrame) /\ Thins(r, replay) /\ DOMAIN r = 1..(m - 1)
        /\ \A i \in 1..(m - 1) : i \in DOMAIN replay /\ r[i] = replay[i]
    BY <2>3, PrefixThins
  <2> HIDE DEF r
  <2>5. ASSUME Rising(replay)
        PROVE  /\ \A i \in DOMAIN r : r[i].esp # esp
               /\ \A n \in DOMAIN replay : replay[n].esp < esp
                    => \E i \in DOMAIN r : r[i] = replay[n]
    <3>1. ASSUME NEW i \in DOMAIN r
          PROVE  r[i].esp # esp
      <4>1. i \in DOMAIN replay /\ r[i] = replay[i] /\ i # m
        BY <2>3, <2>4
      <4> QED
        BY <2>2, <2>5, <4>1, RisingOrder
    <3>2. ASSUME NEW n \in DOMAIN replay, replay[n].esp < esp
          PROVE  \E i \in DOMAIN r : r[i] = replay[n]
      <4>1. n < m
        BY <2>2, <2>5, <3>2, RisingOrder
      <4>2. n \in 1..(m - 1)
        BY <1>1, <2>2, <4>1
      <4> QED
        BY <2>4, <4>2
    <3> QED
      BY <3>1, <3>2
  <2> QED
    BY <2>1, <2>4, <2>5, Zenon
<1> QED
  BY <1>2, <1>3

(* As many frames later, as many interrupts later at least. *)
LEMMA RisingGap ==
    ASSUME NEW r \in Seq(ReplayFrame), Rising(r)
    PROVE  \A n \in DOMAIN r : r[1].begin + (n - 1) <= r[n].begin
<1> DEFINE T == {n \in DOMAIN r : ~(r[1].begin + (n - 1) <= r[n].begin)}
<1>1. DOMAIN r = 1..Len(r) /\ Len(r) \in Nat
  BY LenProperties
<1>2. \A n \in DOMAIN r : r[n].begin \in Nat
  <2> SUFFICES ASSUME NEW n \in DOMAIN r PROVE r[n].begin \in Nat
    OBVIOUS
  <2>1. r[n] \in ReplayFrame
    BY <1>1, ElementOfSeq
  <2> QED
    BY <2>1 DEF ReplayFrame
<1> SUFFICES ASSUME T # {} PROVE FALSE
  OBVIOUS
<1>3. PICK n \in T : \A k \in T : n <= k
  <2>1. T \in SUBSET Nat
    BY <1>1
  <2> HIDE DEF T
  <2> QED
    BY <2>1, LeastNatural
<1>4. n # 1
  BY <1>1, <1>2, <1>3
<1>5. n - 1 \in DOMAIN r /\ n - 1 \notin T /\ n - 1 < n /\ 1 \in DOMAIN r
  BY <1>1, <1>3, <1>4
<1>6. r[1].begin + ((n - 1) - 1) <= r[n - 1].begin
  BY <1>5
<1>7. r[n - 1].begin < r[n].begin
  BY <1>3, <1>5 DEF Rising
<1>8. r[1].begin + (n - 1) <= r[n].begin
  BY <1>1, <1>2, <1>3, <1>5, <1>6, <1>7
<1> QED
  BY <1>3, <1>8

(* What an interrupt makes of the frames of the timeline. *)
NewFrame == [ts |-> Head(due), esp |-> sp + 1, begin |-> begins + 1]

LEMMA BegunIs ==
    ASSUME Types, due # <<>>
    PROVE  /\ NewFrame \in ReplayFrame /\ BegunFrames(sp) \in Seq(ReplayFrame)
           /\ \E i \in DOMAIN BegunFrames(sp) : BegunFrames(sp)[i] = NewFrame
           /\ \A i \in DOMAIN BegunFrames(sp) :
                 \/ BegunFrames(sp)[i] = NewFrame
                 \/ \E k \in DOMAIN LiveFrames(sp) : BegunFrames(sp)[i] = LiveFrames(sp)[k]
           /\ Rising(replay) /\ (\A n \in DOMAIN replay : replay[n].begin <= begins) =>
                /\ Rising(BegunFrames(sp))
                /\ \A k \in DOMAIN LiveFrames(sp) :
                      \/ \E i \in DOMAIN BegunFrames(sp) : BegunFrames(sp)[i] = LiveFrames(sp)[k]
                      \/ /\ \A l \in DOMAIN LiveFrames(sp) :
                               LiveFrames(sp)[k].begin <= LiveFrames(sp)[l].begin
                         /\ begins + 1 - LiveFrames(sp)[k].begin >= DueCapacity
<1> DEFINE live == LiveFrames(sp)
           old == IF Len(live) = DueCapacity THEN Tail(live) ELSE live
           r == BegunFrames(sp)
<1>1. NewFrame \in ReplayFrame
  BY HeadTailProperties DEF Types, TickTypes, GuestTypes, NewFrame, ReplayFrame
<1>2. /\ live \in Seq(ReplayFrame) /\ Thins(live, replay)
      /\ Rising(replay) => \A i \in DOMAIN live : live[i].esp <= sp
  BY LiveIs DEF Types, GuestTypes
<1>3. r = Append(old, NewFrame)
  BY DEF BegunFrames, NewFrame
<1> HIDE DEF live, r
<1>4. Len(live) \in Nat /\ DOMAIN live = 1..Len(live) /\ (live = <<>> => Len(live) = 0)
  BY <1>2, LenProperties, EmptySeq
<1>5. DueCapacity \in Nat \ {0} /\ begins \in Nat /\ sp \in Nat
  BY TimelineAssumption DEF Types, TickTypes, GuestTypes
<1>6. /\ old \in Seq(ReplayFrame) /\ Thins(old, live)
      /\ \A k \in DOMAIN live : k # 1 \/ Len(live) # DueCapacity =>
            \E i \in DOMAIN old : old[i] = live[k]
  <2>1. CASE Len(live) = DueCapacity
    <3>1. live # <<>>
      BY <1>4, <1>5, <2>1
    <3>2. /\ Tail(live) \in Seq(ReplayFrame) /\ Thins(Tail(live), live)
          /\ \A k \in DOMAIN live : k # 1 => \E i \in DOMAIN Tail(live) : Tail(live)[i] = live[k]
      BY <1>2, <3>1, TailThins
    <3> QED
      BY <2>1, <3>2
  <2>2. CASE Len(live) # DueCapacity
    <3>1. Thins(live, live)
      BY DEF Thins
    <3> QED
      BY <1>2, <2>2, <3>1
  <2> QED
    BY <2>1, <2>2
<1> HIDE DEF old
<1>7. /\ r \in Seq(ReplayFrame) /\ Len(r) = Len(old) + 1 /\ Len(old) \in Nat
      /\ DOMAIN r = 1..(Len(old) + 1) /\ DOMAIN old = 1..Len(old)
      /\ \A i \in DOMAIN old : i \in DOMAIN r /\ r[i] = old[i]
      /\ r[Len(old) + 1] = NewFrame
  <2>1. r \in Seq(ReplayFrame) /\ Len(r) = Len(old) + 1 /\ r[Len(old) + 1] = NewFrame
        /\ \A i \in 1..Len(old) : r[i] = old[i]
    BY <1>1, <1>3, <1>6, AppendIs
  <2>2. DOMAIN r = 1..Len(r) /\ DOMAIN old = 1..Len(old) /\ Len(old) \in Nat
    BY <1>6, <2>1, LenProperties
  <2> QED
    BY <2>1, <2>2
<1>8. \E i \in DOMAIN r : r[i] = NewFrame
  <2>1. Len(old) + 1 \in DOMAIN r
    BY <1>7
  <2> QED
    BY <1>7, <2>1
<1>9. ASSUME NEW i \in DOMAIN r
      PROVE  r[i] = NewFrame \/ \E k \in DOMAIN live : r[i] = live[k]
  <2>1. i = Len(old) + 1 \/ i \in DOMAIN old
    BY <1>7
  <2> QED
    BY <1>6, <1>7, <2>1 DEF Thins
<1>10. ASSUME Rising(replay), \A n \in DOMAIN replay : replay[n].begin <= begins
       PROVE  /\ Rising(r)
              /\ \A k \in DOMAIN live :
                    \/ \E i \in DOMAIN r : r[i] = live[k]
                    \/ /\ \A l \in DOMAIN live : live[k].begin <= live[l].begin
                       /\ begins + 1 - live[k].begin >= DueCapacity
  <2>1. Rising(live) /\ Rising(old)
    BY <1>2, <1>6, <1>10, ThinsRising
  <2>2. \A k \in DOMAIN live : live[k].begin <= begins /\ live[k].esp <= sp
    BY <1>2, <1>10 DEF Thins
  <2>3. \A i \in DOMAIN old : old[i].begin <= begins /\ old[i].esp <= sp
    BY <1>6, <2>2 DEF Thins
  <2>4. \A i \in DOMAIN old : old[i].begin \in Nat /\ old[i].esp \in Nat
    <3> SUFFICES ASSUME NEW i \in DOMAIN old PROVE old[i].begin \in Nat /\ old[i].esp \in Nat
      OBVIOUS
    <3>1. old[i] \in ReplayFrame
      BY <1>6, <1>7, ElementOfSeq
    <3> QED
      BY <3>1 DEF ReplayFrame
  <2>5. ASSUME NEW i \in DOMAIN r, NEW j \in DOMAIN r, i < j
        PROVE  r[i].esp < r[j].esp /\ r[i].begin < r[j].begin
    <3>1. i \in DOMAIN old /\ r[i] = old[i]
      BY <1>7, <2>5
    <3>2. CASE j \in DOMAIN old
      BY <1>7, <2>1, <2>5, <3>1, <3>2 DEF Rising
    <3>3. CASE j = Len(old) + 1
      <4>1. r[j].esp = sp + 1 /\ r[j].begin = begins + 1
        BY <1>7, <3>3 DEF NewFrame
      <4> QED
        BY <1>5, <2>3, <2>4, <3>1, <4>1
    <3> QED
      BY <1>7, <3>2, <3>3
  <2>6. ASSUME NEW k \in DOMAIN live, ~ \E i \in DOMAIN r : r[i] = live[k]
        PROVE  /\ \A l \in DOMAIN live : live[k].begin <= live[l].begin
               /\ begins + 1 - live[k].begin >= DueCapacity
    <3>1. k = 1 /\ Len(live) = DueCapacity
      BY <1>6, <1>7, <2>6
    <3>2. \A l \in DOMAIN live : live[l].begin \in Nat
      <4> SUFFICES ASSUME NEW l \in DOMAIN live PROVE live[l].begin \in Nat
        OBVIOUS
      <4>1. live[l] \in ReplayFrame
        BY <1>2, <1>4, ElementOfSeq
      <4> QED
        BY <4>1 DEF ReplayFrame
    <3>3. \A l \in DOMAIN live : live[1].begin + (l - 1) <= live[l].begin
      BY <1>2, <2>1, RisingGap
    <3>4. Len(live) \in DOMAIN live /\ 1 \in DOMAIN live
      BY <1>4, <1>5, <3>1
    <3>5. live[1].begin + (DueCapacity - 1) <= begins
      <4>1. live[1].begin + (Len(live) - 1) <= live[Len(live)].begin /\ live[Len(live)].begin <= begins
        BY <2>2, <3>3, <3>4
      <4> QED
        BY <1>5, <3>1, <3>2, <3>4, <4>1
    <3>6. \A l \in DOMAIN live : live[1].begin <= live[l].begin
      BY <1>4, <3>2, <3>3, <3>4
    <3>7. begins + 1 - live[1].begin >= DueCapacity
      BY <1>5, <3>2, <3>4, <3>5
    <3> QED
      BY <3>1, <3>6, <3>7
  <2>7. Rising(r)
    BY <2>5 DEF Rising
  <2> QED
    BY <2>6, <2>7
<1> QED
  BY <1>1, <1>7, <1>8, <1>9, <1>10, Zenon DEF live, r

-----------------------------------------------------------------------------
(* The inductive invariants. *)

(* The standing frames go up the guest's stack, in the order of their      *)
(* interrupts, and there is none where no vector was ever hooked.          *)
StackInv ==
    /\ \A i, j \in DOMAIN frames :
          i < j => frames[i].esp < frames[j].esp /\ frames[i].serial < frames[j].serial
    /\ \A i \in DOMAIN frames : frames[i].esp <= sp /\ frames[i].serial <= begins
    /\ ~hooked => frames = <<>>

PadRising(p) == \A i, j \in DOMAIN p : i < j => p[i].serial < p[j].serial

(* p holds the record of f, and no newer one for the same place. *)
Home(p, f) ==
    /\ \E n \in DOMAIN p : p[n].serial = f.serial /\ p[n].esp = f.esp
    /\ \A n \in DOMAIN p : p[n].esp = f.esp => p[n].serial <= f.serial

PadInv ==
    /\ PadRising(pad) /\ \A n \in DOMAIN pad : pad[n].serial <= begins
    /\ \A i \in DOMAIN frames : frames[i].padded => Home(pad, frames[i])

(* The frame e of the timeline is that of the standing handler f. *)
Owns(f, e) == e.begin = f.serial /\ e.esp = f.esp /\ e.ts = f.ts

(* The frame of a standing handler is in the timeline. *)
Listed(f) == \E n \in DOMAIN replay : replay[n].begin = f.serial

(* Every frame of the timeline is a standing handler's or that of one      *)
(* nobody saw go; where an outer handler's is left, so is an inner one's;  *)
(* and a young handler's is left.                                          *)
ReplayInv ==
    /\ Rising(replay) /\ \A n \in DOMAIN replay : replay[n].begin <= begins
    /\ \A n \in DOMAIN replay :
          \/ replay[n].begin \in unseen
          \/ \E i \in DOMAIN frames : Owns(frames[i], replay[n])
    /\ \A i \in DOMAIN frames : frames[i].serial \notin unseen
    /\ \A s \in unseen : s \in Nat /\ s <= begins
    /\ \A i, j \in DOMAIN frames : i < j /\ Listed(frames[i]) => Listed(frames[j])
    /\ \A i \in DOMAIN frames :
          begins - frames[i].serial <= StaleBegins /\ begins - frames[i].serial < DueCapacity
            => Listed(frames[i])

(* The last tick queued is over, the next of the schedule is later; what   *)
(* is queued goes up to the last, and what handlers run for came before.   *)
TickInv ==
    /\ schedule.generation <= generation /\ lastDue <= now
    /\ ~Restarts => lastDue < DueTime(schedule.emitted + 1)
    /\ \A i, j \in DOMAIN due : i < j => due[i] < due[j]
    /\ \A i \in DOMAIN due : due[i] <= lastDue
    /\ \A n \in DOMAIN replay :
          replay[n].ts <= lastDue /\ \A i \in DOMAIN due : replay[n].ts < due[i]

-----------------------------------------------------------------------------
(* What a poll of the schedule queues: nothing when the schedule starts    *)
(* anew, and otherwise a ticks from the first not emitted on, as many as   *)
(* are due or as there is room for.                                        *)
Queues(a) ==
    /\ due' \in Seq(Nat) /\ Len(due') = Len(due) + a
    /\ \A i \in 1..Len(due) : due'[i] = due[i]
    /\ \A i \in 1..a : due'[Len(due) + i] = DueTime(schedule.emitted + i)
    /\ lastDue' = IF a = 0 THEN lastDue ELSE DueTime(schedule.emitted + a)

Count == PitTickCountForElapsed(now - schedule.epoch, divisor)

(* The divisor and the elapsed time the schedule computes with. *)
LEMMA ScheduleTypes ==
    ASSUME Types
    PROVE  /\ divisor \in Nat \ {0} /\ schedule.epoch \in Nat /\ schedule.emitted \in Nat
           /\ now - schedule.epoch \in Nat /\ Count \in Nat
           /\ \A n \in Nat : DueTime(n) \in Nat
<1>1. /\ divisor \in Nat \ {0} /\ schedule.epoch \in Nat /\ schedule.emitted \in Nat
      /\ now \in Nat /\ schedule.epoch <= now
  BY PitAssumption DEF Types, TickTypes
<1>2. now - schedule.epoch \in Nat
  BY <1>1
<1>3. Count \in Nat
  BY <1>1, <1>2, CountIs DEF Count
<1>4. ASSUME NEW n \in Nat
      PROVE  DueTime(n) \in Nat
  <2>1. PitElapsedNanosecondsForTick(n, divisor) \in Nat
    BY <1>1, ElapsedIs
  <2> QED
    BY <1>1, <2>1 DEF DueTime
<1> QED
  BY <1>1, <1>2, <1>3, <1>4

LEMMA PollIs ==
    ASSUME Types, ArmDueTimerTicks
    PROVE  \/ /\ Restarts /\ UNCHANGED <<due, lastDue>>
              /\ schedule' = [initialized |-> TRUE, generation |-> generation, epoch |-> now,
                              emitted |-> 0]
           \/ /\ ~Restarts
              /\ \E a \in Nat, c \in Nat :
                    /\ schedule' = [schedule EXCEPT !.emitted = c]
                    /\ schedule.emitted + a <= c /\ (c = schedule.emitted \/ c = Count)
                    /\ Len(due) + a <= DueCapacity /\ Queues(a)
<1> DEFINE o == DueOrdinals
           e == schedule.emitted
           room == DueCapacity - Len(due)
           a == IF Cardinality(o) <= room THEN Cardinality(o) ELSE room
           times == [i \in 1..a |-> DueTime(e + i)]
<1>1. /\ PollSchedule /\ due' = due \o times
      /\ lastDue' = IF a = 0 THEN lastDue ELSE Last(times)
  BY DEF ArmDueTimerTicks
<1>2. due \in Seq(Nat) /\ Len(due) <= DueCapacity
  BY DEF Types, TickTypes
<1>3. Len(due) \in Nat /\ DueCapacity \in Nat /\ Len(due) <= DueCapacity
  BY <1>2, LenProperties, TimelineAssumption
<1>4. e \in Nat /\ Count \in Nat /\ \A n \in Nat : DueTime(n) \in Nat
  BY ScheduleTypes
<1> HIDE DEF e
<1>5. /\ Restarts => Cardinality(o) = 0
      /\ ~Restarts /\ Count > e => Cardinality(o) = Count - e /\ o # {}
      /\ ~Restarts /\ ~(Count > e) => Cardinality(o) = 0 /\ o = {}
  <2>1. CASE Restarts
    BY <2>1, FS_EmptySet DEF DueOrdinals
  <2>2. CASE ~Restarts
    <3>1. o = (e + 1)..Count
      BY <2>2 DEF DueOrdinals, Count, e
    <3> HIDE DEF o
    <3>2. Cardinality(o) = IF e + 1 <= Count THEN Count - (e + 1) + 1 ELSE 0
      BY <1>4, <3>1, FS_Interval
    <3>3. Count > e => e + 1 \in o
      BY <1>4, <3>1
    <3>4. ~(Count > e) => o = {}
      BY <1>4, <3>1
    <3> QED
      BY <1>4, <2>2, <3>2, <3>3, <3>4
  <2> QED
    BY <2>1, <2>2
<1> HIDE DEF o
<1>6. a \in Nat /\ Len(due) + a <= DueCapacity /\ a <= Cardinality(o) /\ Cardinality(o) \in Nat
  <2>1. Cardinality(o) \in Nat
    <3>1. CASE Restarts
      BY <1>5, <3>1
    <3>2. CASE ~Restarts /\ Count > e
      BY <1>5, <1>4, <3>2
    <3>3. CASE ~Restarts /\ ~(Count > e)
      BY <1>5, <3>3
    <3> QED
      BY <3>1, <3>2, <3>3
  <2> QED
    BY <1>3, <2>1
<1> HIDE DEF a
<1>7. times \in Seq(Nat) /\ Len(times) = a /\ \A i \in 1..a : times[i] = DueTime(e + i)
  <2>1. \A i \in 1..a : DueTime(e + i) \in Nat
    <3>1. a \in Nat /\ e \in Nat
      BY <1>4, <1>6
    <3>2. \A i \in 1..a : e + i \in Nat
      BY <3>1
    <3> QED
      BY <1>4, <1>6, <3>2, Zenon
  <2>2. times \in Seq(Nat)
    BY <1>6, <2>1, IsASeq
  <2>3. DOMAIN times = 1..a
    OBVIOUS
  <2> HIDE DEF times
  <2>4. Len(times) = a
    BY <1>6, <2>2, <2>3, LenProperties
  <2> QED
    BY <2>2, <2>4 DEF times
<1> HIDE DEF times
<1>8. Queues(a)
  <2>1. /\ due' \in Seq(Nat) /\ Len(due') = Len(due) + a
        /\ \A i \in 1..(Len(due) + a) :
              due'[i] = IF i <= Len(due) THEN due[i] ELSE times[i - Len(due)]
    BY <1>1, <1>2, <1>7, ConcatProperties
  <2>2. \A i \in 1..Len(due) : due'[i] = due[i]
    BY <1>3, <1>6, <2>1
  <2>3. ASSUME NEW i \in 1..a
        PROVE  due'[Len(due) + i] = DueTime(e + i)
    <3>1. /\ Len(due) + i \in 1..(Len(due) + a) /\ ~(Len(due) + i <= Len(due))
          /\ (Len(due) + i) - Len(due) = i
      BY <1>3, <1>6
    <3> QED
      BY <1>7, <2>1, <3>1
  <2>4. lastDue' = IF a = 0 THEN lastDue ELSE DueTime(e + a)
    <3>1. CASE a = 0
      BY <1>1, <3>1
    <3>2. CASE a # 0
      <4>1. Last(times) = times[a] /\ a \in 1..a
        BY <1>6, <1>7, <3>2 DEF Last
      <4> QED
        BY <1>1, <1>7, <3>2, <4>1
    <3> QED
      BY <3>1, <3>2
  <2> QED
    BY <2>1, <2>2, <2>3, <2>4 DEF Queues, e
<1>9. CASE Restarts
  <2>1. a = 0
    BY <1>5, <1>6, <1>9
  <2>2. lastDue' = lastDue
    BY <1>1, <2>1
  <2>3. due' = due
    <3>1. Len(due') = Len(due) /\ due' \in Seq(Nat) /\ \A i \in 1..Len(due') : due'[i] = due[i]
      BY <1>3, <1>8, <2>1 DEF Queues
    <3> QED
      BY <1>2, <3>1, SeqEqual
  <2>4. schedule' = [initialized |-> TRUE, generation |-> generation, epoch |-> now, emitted |-> 0]
    BY <1>1, <1>9 DEF PollSchedule
  <2> QED
    BY <1>9, <2>2, <2>3, <2>4
<1>10. CASE ~Restarts
  <2> DEFINE c == IF Count > e THEN Count ELSE e
  <2>1. schedule' = [schedule EXCEPT !.emitted = IF o = {} THEN schedule.emitted ELSE Count]
    BY <1>1, <1>10 DEF PollSchedule, o, Count
  <2>2. (IF o = {} THEN e ELSE Count) = c
    BY <1>5, <1>10
  <2>3. c \in Nat /\ e + a <= c /\ (c = e \/ c = Count)
    <3>1. CASE Count > e
      BY <1>5, <1>6, <1>10, <1>4, <3>1
    <3>2. CASE ~(Count > e)
      BY <1>5, <1>6, <1>10, <1>4, <3>2
    <3> QED
      BY <3>1, <3>2
  <2>4. schedule' = [schedule EXCEPT !.emitted = c]
    BY <2>1, <2>2, Zenon DEF e
  <2> HIDE DEF c
  <2> QED
    BY <1>6, <1>8, <1>10, <2>3, <2>4 DEF e
<1> QED
  BY <1>9, <1>10

-----------------------------------------------------------------------------
(* Types. *)

(* A step that leaves the guest and the frames of the timeline alone. *)
Quiet == UNCHANGED <<replay, begins, pad, hooked, sp, frames, unseen>>

(* The steps, as far as handlers are concerned. *)
LEMMA GuestSteps ==
    ASSUME [Next]_vars
    PROVE  \/ Quiet \/ HookVector \/ ClearTimerTicks
           \/ \E depth \in Standing..(Standing + 1) : GuestMovesStack(depth)
           \/ ReadJammaPort8 \/ Inject \/ HandlerReturns \/ OtherIret
           \/ \E n \in DOMAIN frames : Abandon(n)
<1>1. CASE \/ UNCHANGED vars \/ (TimePasses /\ UNCHANGED <<keyVars, tickVars, guestVars>>)
           \/ ArmDueTimerTicks
           \/ \E d \in Divisors : ProgramTimer(d)
  BY <1>1, Zenon DEF Quiet, vars, tickVars, guestVars, ArmDueTimerTicks, ProgramTimer
<1>2. CASE \E t \in {u \in 0..now : now - u <= MaxLate} :
             \/ \E key \in Keys, pressed \in BOOLEAN : RecordKeyEdge(t, key, pressed)
             \/ RecordAllReleased(t)
  <2>1. UNCHANGED <<tickVars, guestVars>>
    BY <1>2, Zenon DEF RecordKeyEdge, RecordAllReleased, RecordState
  <2> QED
    BY <2>1, Zenon DEF Quiet, tickVars, guestVars
<1> QED
  BY <1>1, <1>2, Zenon DEF Next

(* The steps, as far as ticks are concerned. *)
LEMMA TickSteps ==
    ASSUME [Next]_vars
    PROVE  \/ UNCHANGED <<pitVars, due, lastDue>>
           \/ TimePasses /\ UNCHANGED <<due, lastDue, replay>>
           \/ ArmDueTimerTicks
           \/ \E d \in Divisors : PublishDivisor(d) /\ UNCHANGED <<due, lastDue, replay>>
           \/ ClearTimerTicks \/ Inject
<1>1. CASE \/ UNCHANGED vars \/ (TimePasses /\ UNCHANGED <<keyVars, tickVars, guestVars>>)
           \/ ArmDueTimerTicks \/ ClearTimerTicks \/ Inject
           \/ \E d \in Divisors : ProgramTimer(d)
  BY <1>1, Zenon DEF vars, pitVars, tickVars, ProgramTimer
<1>2. CASE \E t \in {u \in 0..now : now - u <= MaxLate} :
             \/ \E key \in Keys, pressed \in BOOLEAN : RecordKeyEdge(t, key, pressed)
             \/ RecordAllReleased(t)
  <2>1. UNCHANGED <<pitVars, tickVars>>
    BY <1>2, Zenon DEF RecordKeyEdge, RecordAllReleased, RecordState
  <2> QED
    BY <2>1, Zenon DEF tickVars
<1>3. CASE \/ HookVector \/ \E depth \in Standing..(Standing + 1) : GuestMovesStack(depth)
           \/ ReadJammaPort8 \/ HandlerReturns \/ OtherIret
           \/ \E n \in DOMAIN frames : Abandon(n)
  BY <1>3, Zenon DEF HookVector, GuestMovesStack, ReadJammaPort8, HandlerReturns, OtherIret,
     Abandon, tickVars
<1> QED
  BY <1>1, <1>2, <1>3, Zenon DEF Next

(* The record a return takes. *)
LEMMA PopFoundIs ==
    ASSUME pad \in Seq(Record), NEW esp
    PROVE  /\ PopFound(esp) \in 0..Len(pad)
           /\ (\E n \in DOMAIN pad : pad[n].esp = esp) =>
                /\ PopFound(esp) \in DOMAIN pad /\ pad[PopFound(esp)].esp = esp
                /\ \A n \in DOMAIN pad : pad[n].esp = esp => n <= PopFound(esp)
<1> DEFINE found == {n \in DOMAIN pad : pad[n].esp = esp}
<1>1. Len(pad) \in Nat /\ DOMAIN pad = 1..Len(pad)
  BY LenProperties
<1>2. CASE found = {}
  <2>1. PopFound(esp) = Len(pad)
    BY <1>2 DEF PopFound
  <2> QED
    BY <1>1, <1>2, <2>1
<1>3. CASE found # {}
  <2>1. PopFound(esp) = Max(found)
    BY <1>3 DEF PopFound
  <2>2. Max(found) \in found /\ \A n \in found : n <= Max(found)
    <3>1. found \in SUBSET Nat /\ \A n \in found : n <= Len(pad)
      BY <1>1
    <3> HIDE DEF found
    <3> QED
      BY <1>1, <1>3, <3>1, MaxIs
  <2> QED
    BY <1>1, <2>1, <2>2
<1> QED
  BY <1>2, <1>3

(* What is left below the record a return takes. *)
LEMMA PopIs ==
    ASSUME pad \in Seq(Record), NEW esp
    PROVE  /\ SubSeq(pad, 1, PopFound(esp) - 1) \in Seq(Record)
           /\ Thins(SubSeq(pad, 1, PopFound(esp) - 1), pad)
           /\ \A n \in DOMAIN pad : n < PopFound(esp) =>
                \E i \in DOMAIN SubSeq(pad, 1, PopFound(esp) - 1) :
                    SubSeq(pad, 1, PopFound(esp) - 1)[i] = pad[n]
<1> DEFINE m == PopFound(esp)
           p == SubSeq(pad, 1, m - 1)
<1>1. Len(pad) \in Nat /\ DOMAIN pad = 1..Len(pad)
  BY LenProperties
<1>2. m \in 0..Len(pad)
  BY PopFoundIs
<1> HIDE DEF m
<1>3. CASE m = 0
  <2>1. p = <<>>
    BY <1>3, SubSeqEmpty
  <2>2. <<>> \in Seq(Record) /\ DOMAIN <<>> = {}
    BY EmptySeq
  <2>3. Thins(<<>>, pad)
    BY <2>2 DEF Thins
  <2>4. \A n \in DOMAIN pad : ~(n < m)
    BY <1>1, <1>3
  <2>5. p \in Seq(Record) /\ Thins(p, pad)
    BY <2>1, <2>2, <2>3
  <2> HIDE DEF p
  <2> QED
    BY <2>4, <2>5 DEF p, m
<1>4. CASE m # 0
  <2>1. m - 1 \in 0..Len(pad)
    BY <1>1, <1>2, <1>4
  <2>2. /\ p \in Seq(Record) /\ Thins(p, pad) /\ DOMAIN p = 1..(m - 1)
        /\ \A i \in 1..(m - 1) : p[i] = pad[i]
    BY <2>1, PrefixThins
  <2>3. \A n \in DOMAIN pad : n < m => n \in 1..(m - 1)
    BY <1>1, <1>2
  <2> HIDE DEF p
  <2>4. \A n \in DOMAIN pad : n < m => \E i \in DOMAIN p : p[i] = pad[n]
    BY <2>2, <2>3
  <2> QED
    BY <2>2, <2>4 DEF p, m
<1> QED
  BY <1>3, <1>4

(* A full pad makes room at the cost of no record the stack stands in. *)
LEMMA PadRoomIs ==
    ASSUME pad \in Seq(Record), NEW esp
    PROVE  /\ PadRoom(esp) \in Seq(Record) /\ Thins(PadRoom(esp), pad)
           /\ \A n \in DOMAIN pad : pad[n].esp <= esp
                => \E i \in DOMAIN PadRoom(esp) : PadRoom(esp)[i] = pad[n]
<1>1. CASE Len(pad) < PadCapacity
  <2>1. PadRoom(esp) = pad
    BY <1>1 DEF PadRoom
  <2>2. Thins(pad, pad)
    BY DEF Thins
  <2> QED
    BY <2>1, <2>2
<1>2. CASE ~(Len(pad) < PadCapacity)
  <2> DEFINE kept == {n \in DOMAIN pad : pad[n].esp <= esp}
  <2>1. PadRoom(esp) = Kept(pad, kept)
    BY <1>2 DEF PadRoom
  <2>2. kept \in SUBSET DOMAIN pad /\ \A n \in DOMAIN pad : pad[n].esp <= esp => n \in kept
    OBVIOUS
  <2> HIDE DEF kept
  <2>3. /\ Kept(pad, kept) \in Seq(Record) /\ Thins(Kept(pad, kept), pad)
        /\ \A n \in kept : \E i \in DOMAIN Kept(pad, kept) : Kept(pad, kept)[i] = pad[n]
    BY <2>2, KeptThins
  <2> QED
    BY <2>1, <2>2, <2>3
<1> QED
  BY <1>1, <1>2

(* The parts of a frame an interrupt makes. *)
NewStanding ==
    [esp |-> sp + 1, serial |-> begins + 1, ts |-> Head(due),
     padded |-> model = "direct" /\ Len(PadRoom(sp)) < PadCapacity]

LEMMA InjectIs ==
    ASSUME Types, Inject
    PROVE  /\ hooked /\ hooked' = hooked /\ unseen' = unseen
           /\ due # <<>> /\ due' = Tail(due) /\ lastDue' = lastDue
           /\ begins' = begins + 1 /\ sp' = sp + 1
           /\ replay' = BegunFrames(sp)
           /\ frames' = Append(frames, NewStanding) /\ NewStanding \in Frame
           /\ pad' = IF model # "direct" THEN pad
                     ELSE IF Len(PadRoom(sp)) < PadCapacity
                            THEN Append(PadRoom(sp), [esp |-> sp + 1, serial |-> begins + 1])
                            ELSE PadRoom(sp)
<1>1. /\ hooked /\ hooked' = hooked /\ unseen' = unseen
      /\ due # <<>> /\ due' = Tail(due) /\ lastDue' = lastDue
      /\ begins' = begins + 1 /\ sp' = sp + 1 /\ replay' = BegunFrames(sp)
      /\ frames' = Append(frames, NewStanding)
      /\ pad' = IF model = "direct" THEN PushTimerReturn(sp, begins + 1) ELSE pad
  BY Zenon DEF Inject, NewStanding
<1>2. NewStanding \in Frame
  <2>1. sp + 1 \in Nat \ {0} /\ begins + 1 \in Nat /\ Head(due) \in Nat
    <3>1. sp \in Nat /\ begins \in Nat /\ due \in Seq(Nat)
      BY Zenon DEF Types, TickTypes, GuestTypes
    <3>2. Head(due) \in Nat
      BY <1>1, <3>1, HeadTailProperties
    <3> QED
      BY <3>1, <3>2
  <2>2. (model = "direct" /\ Len(PadRoom(sp)) < PadCapacity) \in BOOLEAN
    BY Zenon
  <2> QED
    BY <2>1, <2>2, Zenon DEF NewStanding, Frame
<1>3. CASE model = "direct"
  BY <1>1, <1>2, <1>3 DEF PushTimerReturn
<1>4. CASE model # "direct"
  BY <1>1, <1>2, <1>4
<1> QED
  BY <1>3, <1>4

(* A return, by what it leaves of the pad and of the timeline. *)
LEMMA ReturnIs ==
    ASSUME Types, HandlerReturns
    PROVE  /\ frames # <<>> /\ frames' = Front(frames) /\ sp' = Last(frames).esp - 1
           /\ begins' = begins /\ hooked' = hooked
           /\ \/ model = "cache" /\ replay' = EndTimerInterrupt(Last(frames).esp)
                 /\ UNCHANGED <<pad, unseen>>
              \/ /\ model = "direct" /\ Last(frames).padded
                 /\ pad' = SubSeq(pad, 1, PopFound(Last(frames).esp) - 1)
                 /\ replay' = EndTimerInterrupt(pad[PopFound(Last(frames).esp)].esp)
                 /\ unseen' = unseen
              \/ GoUnseen({Last(frames).serial}) /\ UNCHANGED <<replay, pad>>
<1>1. CASE model = "cache"
  BY <1>1 DEF HandlerReturns
<1>2. CASE model = "direct" /\ Last(frames).padded
  BY <1>2 DEF HandlerReturns
<1>3. CASE ~(model = "cache") /\ ~(model = "direct" /\ Last(frames).padded)
  BY <1>3 DEF HandlerReturns
<1> QED
  BY <1>1, <1>2, <1>3

LEMMA TickTypesStep ==
    ASSUME Types, [Next]_vars
    PROVE  TickTypes'
<1> USE DEF TickTypes
<1>1. TickTypes
  BY DEF Types
<1>2. CASE UNCHANGED <<pitVars, due, lastDue>>
  BY <1>1, <1>2 DEF pitVars
<1>3. CASE TimePasses /\ UNCHANGED <<due, lastDue, replay>>
  <2>1. now' = now + 1 /\ UNCHANGED <<generation, divisor, schedule, due, lastDue>>
    BY <1>3 DEF TimePasses
  <2>2. now' \in Nat /\ schedule.epoch <= now'
    <3>1. now \in Nat /\ schedule.epoch \in Nat /\ schedule.epoch <= now
      BY <1>1
    <3> QED
      BY <2>1, <3>1
  <2> QED
    BY <1>1, <2>1, <2>2
<1>4. CASE \E d \in Divisors : PublishDivisor(d) /\ UNCHANGED <<due, lastDue, replay>>
  BY <1>1, <1>4 DEF PublishDivisor
<1>5. CASE ClearTimerTicks
  <2>1. due' = <<>> /\ lastDue' = lastDue /\ UNCHANGED pitVars
    BY <1>5 DEF ClearTimerTicks
  <2>2. due' \in Seq(Nat) /\ Len(due') <= DueCapacity
    BY <2>1, TimelineAssumption
  <2> QED
    BY <1>1, <2>1, <2>2 DEF pitVars
<1>6. CASE Inject
  <2>1. due # <<>> /\ due' = Tail(due) /\ lastDue' = lastDue
    BY <1>6, InjectIs
  <2>2. UNCHANGED pitVars
    BY <1>6 DEF Inject
  <2>3. due' \in Seq(Nat) /\ Len(due') = Len(due) - 1 /\ Len(due) \in Nat
    BY <1>1, <2>1, HeadTailProperties, LenProperties
  <2>4. Len(due') <= DueCapacity
    <3>1. Len(due) <= DueCapacity /\ DueCapacity \in Nat
      BY <1>1, TimelineAssumption
    <3> QED
      BY <2>3, <3>1
  <2> QED
    BY <1>1, <2>1, <2>2, <2>3, <2>4 DEF pitVars
<1>7. CASE ArmDueTimerTicks
  <2>1. UNCHANGED <<now, generation, divisor>>
    BY <1>7 DEF ArmDueTimerTicks, PollSchedule
  <2>2. CASE Restarts
    <3>1. /\ UNCHANGED <<due, lastDue>>
          /\ schedule' = [initialized |-> TRUE, generation |-> generation, epoch |-> now,
                          emitted |-> 0]
      BY <1>7, <2>2, PollIs
    <3>2. generation \in Nat /\ now \in Nat /\ now <= now
      BY <1>1
    <3>3. /\ schedule' \in [initialized : BOOLEAN, generation : Nat, epoch : Nat, emitted : Nat]
          /\ schedule'.epoch <= now
      BY <3>1, <3>2
    <3> QED
      BY <1>1, <2>1, <3>1, <3>3
  <2>3. CASE ~Restarts
    <3>1. PICK a \in Nat, c \in Nat :
             /\ schedule' = [schedule EXCEPT !.emitted = c]
             /\ Len(due) + a <= DueCapacity /\ Queues(a)
      BY <1>7, <2>3, PollIs
    <3>2. due' \in Seq(Nat) /\ Len(due') <= DueCapacity
      BY <3>1 DEF Queues
    <3>3. lastDue' \in Int
      <4>1. schedule.emitted + a \in Nat
        BY ScheduleTypes
      <4>2. lastDue \in Int /\ DueTime(schedule.emitted + a) \in Int
        BY <1>1, <4>1, ScheduleTypes
      <4>3. lastDue' = IF a = 0 THEN lastDue ELSE DueTime(schedule.emitted + a)
        BY <3>1 DEF Queues
      <4> QED
        BY <4>2, <4>3
    <3>4. /\ schedule' \in [initialized : BOOLEAN, generation : Nat, epoch : Nat, emitted : Nat]
          /\ schedule'.epoch <= now
      BY <1>1, <3>1
    <3> QED
      BY <1>1, <2>1, <3>2, <3>3, <3>4
  <2> QED
    BY <2>2, <2>3
<1> QED
  BY <1>2, <1>3, <1>4, <1>5, <1>6, <1>7, TickSteps

(* The place of the innermost standing frame. *)
LEMMA StandingIs ==
    ASSUME GuestTypes
    PROVE  /\ Standing \in Nat
           /\ frames # <<>> => /\ Last(frames) \in Frame /\ Len(frames) \in DOMAIN frames
                              /\ Last(frames) = frames[Len(frames)]
                              /\ Standing = frames[Len(frames)].esp
<1>1. frames \in Seq(Frame)
  BY DEF GuestTypes
<1>2. CASE frames = <<>>
  BY <1>2 DEF Standing
<1>3. CASE frames # <<>>
  <2>1. Last(frames) = frames[Len(frames)] /\ Len(frames) \in DOMAIN frames
    BY <1>1, <1>3, FrontIs
  <2>2. Last(frames) \in Frame
    BY <1>1, <2>1, LenProperties, ElementOfSeq
  <2> QED
    BY <1>3, <2>1, <2>2 DEF Standing, Frame
<1> QED
  BY <1>2, <1>3

LEMMA GuestTypesStep ==
    ASSUME Types, [Next]_vars
    PROVE  GuestTypes'
<1> USE DEF GuestTypes
<1>1. GuestTypes
  BY DEF Types
<1>2. CASE Quiet \/ HookVector
  BY <1>1, <1>2 DEF Quiet, HookVector, tickVars
<1>3. CASE ClearTimerTicks
  BY <1>1, <1>3 DEF ClearTimerTicks, guestVars
<1>4. CASE \E depth \in Standing..(Standing + 1) : GuestMovesStack(depth)
  <2>1. PICK depth \in Standing..(Standing + 1) : GuestMovesStack(depth)
    BY <1>4
  <2>2. Standing \in Nat
    BY <1>1, StandingIs
  <2>3. depth \in Nat
    BY <2>2
  <2> QED
    BY <1>1, <2>1, <2>3 DEF GuestMovesStack, tickVars
<1>5. CASE ReadJammaPort8
  <2>1. LiveFrames(sp) \in Seq(ReplayFrame)
    BY <1>1, LiveIs
  <2> QED
    BY <1>1, <1>5, <2>1 DEF ReadJammaPort8, guestVars
<1>6. CASE Inject
  <2>1. /\ due # <<>> /\ begins' = begins + 1 /\ sp' = sp + 1 /\ replay' = BegunFrames(sp)
        /\ frames' = Append(frames, NewStanding) /\ NewStanding \in Frame
        /\ pad' = IF model # "direct" THEN pad
                  ELSE IF Len(PadRoom(sp)) < PadCapacity
                         THEN Append(PadRoom(sp), [esp |-> sp + 1, serial |-> begins + 1])
                         ELSE PadRoom(sp)
    BY <1>6, InjectIs
  <2>2. replay' \in Seq(ReplayFrame)
    BY <2>1, BegunIs
  <2>3. frames' \in Seq(Frame)
    BY <1>1, <2>1, AppendIs
  <2>4. begins' \in Nat /\ sp' \in Nat
    BY <1>1, <2>1
  <2>5. pad' \in Seq(Record)
    <3>1. PadRoom(sp) \in Seq(Record)
      BY <1>1, PadRoomIs
    <3>2. [esp |-> sp + 1, serial |-> begins + 1] \in Record
      BY <1>1 DEF Record
    <3>3. Append(PadRoom(sp), [esp |-> sp + 1, serial |-> begins + 1]) \in Seq(Record)
      BY <3>1, <3>2, AppendIs
    <3> QED
      BY <1>1, <2>1, <3>1, <3>3
  <2> QED
    BY <2>2, <2>3, <2>4, <2>5
<1>7. CASE HandlerReturns
  <2> DEFINE f == Last(frames)
  <2>1. /\ frames # <<>> /\ frames' = Front(frames) /\ sp' = f.esp - 1 /\ begins' = begins
        /\ replay' = replay \/ \E esp : replay' = EndTimerInterrupt(esp)
        /\ pad' = pad \/ pad' = SubSeq(pad, 1, PopFound(f.esp) - 1)
    BY <1>7, ReturnIs
  <2>2. /\ f = frames[Len(frames)] /\ Len(frames) \in DOMAIN frames
        /\ Front(frames) = SubSeq(frames, 1, Len(frames) - 1) /\ Len(frames) - 1 \in 0..Len(frames)
    BY <1>1, <2>1, FrontIs
  <2>3. f \in Frame
    BY <1>1, <2>2, LenProperties, ElementOfSeq
  <2>4. sp' \in Nat
    BY <2>1, <2>3 DEF Frame
  <2>5. frames' \in Seq(Frame)
    BY <1>1, <2>1, <2>2, PrefixIs
  <2>6. replay' \in Seq(ReplayFrame)
    BY <1>1, <2>1, EndIs
  <2>7. pad' \in Seq(Record)
    BY <1>1, <2>1, PopIs
  <2> QED
    BY <1>1, <2>1, <2>4, <2>5, <2>6, <2>7
<1>8. CASE OtherIret
  <2>1. /\ sp > Standing /\ sp' = sp - 1 /\ replay' = EndTimerInterrupt(sp)
        /\ UNCHANGED <<begins, frames, pad>>
    BY <1>8 DEF OtherIret
  <2>2. Standing \in Nat
    BY <1>1, StandingIs
  <2>3. sp' \in Nat
    BY <1>1, <2>1, <2>2
  <2>4. replay' \in Seq(ReplayFrame)
    BY <1>1, <2>1, EndIs
  <2> QED
    BY <1>1, <2>1, <2>3, <2>4
<1>9. CASE \E n \in DOMAIN frames : Abandon(n)
  <2>1. PICK n \in DOMAIN frames : Abandon(n)
    BY <1>9
  <2>2. /\ frames' = SubSeq(frames, 1, n - 1) /\ sp' = frames[n].esp - 1
        /\ UNCHANGED <<replay, begins, pad>>
    BY <2>1 DEF Abandon, tickVars
  <2>3. frames[n] \in Frame /\ n - 1 \in 0..Len(frames)
    BY <1>1, <2>1, LenProperties, ElementOfSeq
  <2>4. frames' \in Seq(Frame)
    BY <1>1, <2>2, <2>3, PrefixIs
  <2>5. sp' \in Nat
    BY <2>2, <2>3 DEF Frame
  <2> QED
    BY <1>1, <2>2, <2>4, <2>5
<1> QED
  BY <1>2, <1>3, <1>4, <1>5, <1>6, <1>7, <1>8, <1>9, GuestSteps

(* The timeline holds ticks and frames, as many ticks as it has room for,  *)
(* and the schedule an epoch that is not in the future, whatever polls,    *)
(* interrupts and returns come in whatever order (due_timestamps_,         *)
(* replay_frames_, TimerReturnPad::records, PitIrqSchedule).               *)
THEOREM TimelineTypes == Spec => []Types
<1>1. Init => Types
  <2> SUFFICES ASSUME Init PROVE Types
    OBVIOUS
  <2>1. TickTypes
    BY PitAssumption, TimelineAssumption DEF Init, PitInit, TickTypes
  <2>2. GuestTypes
    BY DEF Init, GuestTypes
  <2> QED
    BY <2>1, <2>2 DEF Types
<1>2. Types /\ [Next]_vars => Types'
  BY TickTypesStep, GuestTypesStep DEF Types
<1> QED
  BY <1>1, <1>2, PTL DEF Spec

-----------------------------------------------------------------------------
(* The stack of the handlers. *)

(* The standing handlers, by their parts. *)
LEMMA FrameParts ==
    ASSUME GuestTypes
    PROVE  /\ Len(frames) \in Nat /\ DOMAIN frames = 1..Len(frames)
           /\ \A i \in DOMAIN frames :
                 /\ frames[i] \in Frame /\ frames[i].esp \in Nat \ {0}
                 /\ frames[i].serial \in Nat
<1>1. Len(frames) \in Nat /\ DOMAIN frames = 1..Len(frames)
  BY LenProperties DEF GuestTypes
<1>2. ASSUME NEW i \in DOMAIN frames
      PROVE  /\ frames[i] \in Frame /\ frames[i].esp \in Nat \ {0}
             /\ frames[i].serial \in Nat
  <2>1. frames[i] \in Frame
    BY <1>1, ElementOfSeq DEF GuestTypes
  <2> QED
    BY <2>1 DEF Frame
<1> QED
  BY <1>1, <1>2

LEMMA RecordParts ==
    ASSUME NEW p \in Seq(Record)
    PROVE  /\ Len(p) \in Nat /\ DOMAIN p = 1..Len(p)
           /\ \A n \in DOMAIN p : p[n].esp \in Nat /\ p[n].serial \in Nat
<1>1. Len(p) \in Nat /\ DOMAIN p = 1..Len(p)
  BY LenProperties
<1>2. ASSUME NEW n \in DOMAIN p
      PROVE  p[n].esp \in Nat /\ p[n].serial \in Nat
  <2>1. p[n] \in Record
    BY <1>1, ElementOfSeq
  <2> QED
    BY <2>1 DEF Record
<1> QED
  BY <1>1, <1>2

(* The frames below position n of the stack are what leaving it leaves. *)
LEMMA Unwinds ==
    ASSUME GuestTypes, NEW n \in DOMAIN frames, frames' = SubSeq(frames, 1, n - 1)
    PROVE  /\ DOMAIN frames' = 1..(n - 1)
           /\ \A i \in DOMAIN frames' :
                 i \in DOMAIN frames /\ i < n /\ frames'[i] = frames[i]
           /\ \A i \in DOMAIN frames : i < n => i \in DOMAIN frames'
<1>1. Len(frames) \in Nat /\ DOMAIN frames = 1..Len(frames) /\ frames \in Seq(Frame)
  BY FrameParts DEF GuestTypes
<1>2. n - 1 \in 0..Len(frames)
  BY <1>1
<1>3. /\ DOMAIN frames' = 1..(n - 1)
      /\ \A i \in 1..(n - 1) : i \in DOMAIN frames /\ frames'[i] = frames[i]
  BY <1>1, <1>2, PrefixThins
<1>4. \A i \in 1..(n - 1) : i < n
  BY <1>1
<1>5. \A i \in DOMAIN frames : i < n => i \in 1..(n - 1)
  BY <1>1
<1> QED
  BY <1>3, <1>4, <1>5

(* The frames after an interrupt are those before it and a new one. *)
LEMMA Winds ==
    ASSUME Types, Inject
    PROVE  /\ DOMAIN frames' = 1..(Len(frames) + 1) /\ Len(frames) \in Nat
           /\ \A i \in DOMAIN frames' :
                 \/ i \in DOMAIN frames /\ frames'[i] = frames[i] /\ i < Len(frames) + 1
                 \/ i = Len(frames) + 1 /\ frames'[i] = NewStanding
<1>1. Len(frames) \in Nat /\ DOMAIN frames = 1..Len(frames) /\ frames \in Seq(Frame)
  BY FrameParts DEF Types, GuestTypes
<1>2. frames' = Append(frames, NewStanding) /\ NewStanding \in Frame
  BY InjectIs
<1>3. /\ frames' \in Seq(Frame) /\ Len(frames') = Len(frames) + 1
      /\ \A i \in 1..Len(frames) : frames'[i] = frames[i]
      /\ frames'[Len(frames) + 1] = NewStanding
  BY <1>1, <1>2, AppendIs
<1>4. DOMAIN frames' = 1..(Len(frames) + 1)
  BY <1>3, LenProperties
<1>5. \A i \in 1..(Len(frames) + 1) :
         i = Len(frames) + 1 \/ (i \in 1..Len(frames) /\ i < Len(frames) + 1)
  BY <1>1
<1> QED
  BY <1>1, <1>3, <1>4, <1>5

LEMMA StackStep ==
    ASSUME Types, StackInv, [Next]_vars
    PROVE  StackInv'
<1>1. GuestTypes /\ GuestTypes'
  BY GuestTypesStep DEF Types
<1>2. CASE Quiet \/ HookVector \/ ReadJammaPort8 \/ ClearTimerTicks
  BY <1>2 DEF Quiet, HookVector, ReadJammaPort8, ClearTimerTicks, guestVars, tickVars, StackInv
<1>3. \A i \in DOMAIN frames : frames[i].esp <= Standing
  <2> SUFFICES ASSUME NEW i \in DOMAIN frames PROVE frames[i].esp <= Standing
    OBVIOUS
  <2>1. frames # <<>> /\ i \in 1..Len(frames) /\ Len(frames) \in Nat
    BY <1>1, FrameParts
  <2>2. Standing = frames[Len(frames)].esp /\ Len(frames) \in DOMAIN frames
    BY <1>1, <2>1, StandingIs
  <2>3. frames[i].esp \in Nat /\ frames[Len(frames)].esp \in Nat
    BY <1>1, <2>2, FrameParts
  <2>4. i = Len(frames) \/ i < Len(frames)
    BY <2>1
  <2> QED
    BY <2>2, <2>3, <2>4 DEF StackInv
<1>4. CASE (\E depth \in Standing..(Standing + 1) : GuestMovesStack(depth)) \/ OtherIret
  <2>1. sp' >= Standing /\ UNCHANGED <<frames, begins, hooked>>
    <3>1. Standing \in Nat /\ sp \in Nat
      BY <1>1, StandingIs DEF GuestTypes
    <3> QED
      BY <1>4, <3>1 DEF GuestMovesStack, OtherIret, tickVars
  <2>2. \A i \in DOMAIN frames : frames[i].esp <= sp'
    <3> SUFFICES ASSUME NEW i \in DOMAIN frames PROVE frames[i].esp <= sp'
      OBVIOUS
    <3>1. frames[i].esp \in Nat /\ Standing \in Nat /\ sp' \in Nat
      BY <1>1, FrameParts, StandingIs DEF GuestTypes
    <3> QED
      BY <1>3, <2>1, <3>1
  <2> QED
    BY <2>1, <2>2 DEF StackInv
<1>5. ASSUME NEW n \in DOMAIN frames, frames' = SubSeq(frames, 1, n - 1),
             sp' = frames[n].esp - 1, begins' = begins, hooked' = hooked
      PROVE  StackInv'
  <2>1. \A i \in DOMAIN frames' : i \in DOMAIN frames /\ i < n /\ frames'[i] = frames[i]
    BY <1>1, <1>5, Unwinds
  <2>2. \A i, j \in DOMAIN frames' :
           i < j => frames'[i].esp < frames'[j].esp /\ frames'[i].serial < frames'[j].serial
    BY <2>1 DEF StackInv
  <2>3. ASSUME NEW i \in DOMAIN frames'
        PROVE  frames'[i].esp <= sp' /\ frames'[i].serial <= begins'
    <3>1. frames[i].esp < frames[n].esp /\ frames[i].serial <= begins
      BY <2>1 DEF StackInv
    <3>2. frames[i].esp \in Nat /\ frames[n].esp \in Nat
      BY <1>1, <2>1, FrameParts
    <3>3. sp' = frames[n].esp - 1 /\ begins' = begins /\ frames'[i] = frames[i]
      BY <1>5, <2>1
    <3> QED
      BY <3>1, <3>2, <3>3
  <2>4. hooked'
    <3>1. frames # <<>>
      BY <1>1, FrameParts
    <3> QED
      BY <1>5, <3>1, Zenon DEF StackInv
  <2> QED
    BY <2>2, <2>3, <2>4 DEF StackInv
<1>6. CASE HandlerReturns
  <2>1. /\ frames # <<>> /\ frames' = Front(frames) /\ sp' = Last(frames).esp - 1
        /\ begins' = begins /\ hooked' = hooked
    BY <1>6, ReturnIs
  <2>2. /\ Len(frames) \in DOMAIN frames /\ Last(frames) = frames[Len(frames)]
        /\ Front(frames) = SubSeq(frames, 1, Len(frames) - 1)
    BY <1>1, <2>1, FrontIs DEF GuestTypes
  <2> QED
    BY <1>5, <2>1, <2>2
<1>7. CASE \E n \in DOMAIN frames : Abandon(n)
  BY <1>5, <1>7 DEF Abandon, tickVars
<1>8. CASE Inject
  <2>1. begins' = begins + 1 /\ sp' = sp + 1 /\ hooked' /\ begins \in Nat /\ sp \in Nat
    BY <1>1, <1>8, InjectIs DEF GuestTypes
  <2>2. \A i \in DOMAIN frames' :
           \/ i \in DOMAIN frames /\ frames'[i] = frames[i] /\ i < Len(frames) + 1
           \/ i = Len(frames) + 1 /\ frames'[i] = NewStanding
    BY <1>8, Winds
  <2>3. NewStanding.esp = sp + 1 /\ NewStanding.serial = begins + 1
    BY DEF NewStanding
  <2>4. \A i \in DOMAIN frames :
           /\ frames[i].esp <= sp /\ frames[i].serial <= begins
           /\ frames[i].esp \in Nat /\ frames[i].serial \in Nat /\ i \in Nat
    BY <1>1, FrameParts DEF StackInv
  <2>5. ASSUME NEW i \in DOMAIN frames'
        PROVE  frames'[i].esp <= sp' /\ frames'[i].serial <= begins'
    BY <2>1, <2>2, <2>3, <2>4
  <2>6. ASSUME NEW i \in DOMAIN frames', NEW j \in DOMAIN frames', i < j
        PROVE  frames'[i].esp < frames'[j].esp /\ frames'[i].serial < frames'[j].serial
    <3>1. i \in Nat /\ j \in Nat /\ Len(frames) \in Nat
      BY <1>1, <2>2, <2>4, FrameParts
    <3>2. CASE j \in DOMAIN frames /\ frames'[j] = frames[j] /\ j < Len(frames) + 1
      <4>1. i \in DOMAIN frames /\ frames'[i] = frames[i]
        <5>1. i # Len(frames) + 1
          BY <2>6, <3>2, <3>1
        <5> QED
          BY <2>2, <5>1
      <4> QED
        BY <2>6, <3>2, <4>1 DEF StackInv
    <3>3. CASE j = Len(frames) + 1 /\ frames'[j] = NewStanding
      <4>1. i \in DOMAIN frames /\ frames'[i] = frames[i]
        <5>1. i # Len(frames) + 1
          BY <2>6, <3>3, <3>1
        <5> QED
          BY <2>2, <5>1
      <4> QED
        BY <2>1, <2>3, <2>4, <3>3, <4>1
    <3> QED
      BY <2>2, <3>2, <3>3
  <2> QED
    BY <2>1, <2>5, <2>6 DEF StackInv
<1> QED
  BY <1>2, <1>4, <1>6, <1>7, <1>8, GuestSteps

-----------------------------------------------------------------------------
(* The return pad. *)

LEMMA PadThins ==
    ASSUME NEW p, NEW q, Thins(q, p), PadRising(p)
    PROVE  PadRising(q)
<1> SUFFICES ASSUME NEW i \in DOMAIN q, NEW j \in DOMAIN q, i < j
             PROVE  q[i].serial < q[j].serial
  BY DEF PadRising
<1>1. PICK k \in DOMAIN p, l \in DOMAIN p : k < l /\ q[i] = p[k] /\ q[j] = p[l]
  BY Zenon DEF Thins
<1> QED
  BY <1>1 DEF PadRising

(* The newest record of a place is that of the handler that stands there. *)
LEMMA HomeFound ==
    ASSUME pad \in Seq(Record), PadRising(pad), NEW f \in Frame, Home(pad, f)
    PROVE  /\ PopFound(f.esp) \in DOMAIN pad /\ pad[PopFound(f.esp)].esp = f.esp
           /\ pad[PopFound(f.esp)].serial = f.serial
<1>1. PICK n \in DOMAIN pad : pad[n].serial = f.serial /\ pad[n].esp = f.esp
  BY DEF Home
<1> DEFINE m == PopFound(f.esp)
<1>2. m \in DOMAIN pad /\ pad[m].esp = f.esp /\ n <= m
  BY <1>1, PopFoundIs
<1> HIDE DEF m
<1>3. pad[m].serial <= f.serial
  BY <1>2 DEF Home
<1>4. n \in Nat /\ m \in Nat /\ pad[m].serial \in Nat /\ pad[n].serial \in Nat
  BY <1>2, RecordParts
<1>5. n = m \/ pad[n].serial < pad[m].serial
  <2>1. n = m \/ n < m
    BY <1>2, <1>4
  <2> QED
    BY <1>2, <2>1 DEF PadRising
<1>6. pad[m].serial = f.serial
  BY <1>1, <1>3, <1>4, <1>5
<1> QED
  BY <1>2, <1>6 DEF m

(* A handler keeps its record where the pad is thinned out elsewhere. *)
LEMMA HomeThins ==
    ASSUME NEW p, NEW q, Thins(q, p), NEW f, Home(p, f),
           \A n \in DOMAIN p :
              p[n].serial = f.serial /\ p[n].esp = f.esp => \E i \in DOMAIN q : q[i] = p[n]
    PROVE  Home(q, f)
<1>1. PICK n \in DOMAIN p : p[n].serial = f.serial /\ p[n].esp = f.esp
  BY DEF Home
<1>2. PICK i \in DOMAIN q : q[i] = p[n]
  BY <1>1
<1>3. \A m \in DOMAIN q : q[m].esp = f.esp => q[m].serial <= f.serial
  BY DEF Home, Thins
<1> QED
  BY <1>1, <1>2, <1>3 DEF Home

LEMMA PadStep ==
    ASSUME Types, StackInv, PadInv, [Next]_vars
    PROVE  PadInv'
<1>1. GuestTypes /\ pad \in Seq(Record) /\ begins \in Nat /\ sp \in Nat
  BY DEF Types, GuestTypes
<1>2. CASE \/ Quiet \/ HookVector \/ ReadJammaPort8 \/ ClearTimerTicks \/ OtherIret
           \/ \E depth \in Standing..(Standing + 1) : GuestMovesStack(depth)
  BY <1>2 DEF Quiet, HookVector, ReadJammaPort8, ClearTimerTicks, OtherIret, GuestMovesStack,
     guestVars, tickVars, PadInv
<1>3. ASSUME NEW n \in DOMAIN frames, frames' = SubSeq(frames, 1, n - 1),
             pad' = pad, begins' = begins
      PROVE  PadInv'
  <2>1. \A i \in DOMAIN frames' : i \in DOMAIN frames /\ frames'[i] = frames[i]
    BY <1>1, <1>3, Unwinds
  <2>2. \A i \in DOMAIN frames' : frames'[i].padded => Home(pad, frames'[i])
    BY <2>1 DEF PadInv
  <2>3. pad' = pad /\ begins' = begins
    BY <1>3
  <2> QED
    BY <2>2, <2>3 DEF PadInv
<1>4. CASE \E n \in DOMAIN frames : Abandon(n)
  BY <1>3, <1>4 DEF Abandon, tickVars
<1>5. CASE HandlerReturns
  <2> DEFINE f == Last(frames)
             m == PopFound(f.esp)
  <2>1. /\ frames # <<>> /\ frames' = Front(frames) /\ begins' = begins
        /\ pad' = pad \/ (f.padded /\ pad' = SubSeq(pad, 1, m - 1))
    BY <1>5, ReturnIs
  <2>2. /\ Len(frames) \in DOMAIN frames /\ f = frames[Len(frames)]
        /\ Front(frames) = SubSeq(frames, 1, Len(frames) - 1)
    BY <1>1, <2>1, FrontIs DEF GuestTypes
  <2>3. CASE pad' = pad
    BY <1>3, <2>1, <2>2, <2>3
  <2>4. CASE f.padded /\ pad' = SubSeq(pad, 1, m - 1)
    <3>1. f \in Frame /\ Home(pad, f) /\ PadRising(pad)
      BY <1>1, <2>2, <2>4, FrameParts DEF PadInv
    <3>2. m \in DOMAIN pad /\ pad[m].serial = f.serial
      BY <1>1, <3>1, HomeFound
    <3> HIDE DEF m
    <3>3. /\ Thins(pad', pad)
          /\ \A n \in DOMAIN pad : n < m => \E i \in DOMAIN pad' : pad'[i] = pad[n]
      BY <1>1, <2>4, PopIs DEF m
    <3>4. PadRising(pad') /\ \A n \in DOMAIN pad' : pad'[n].serial <= begins'
      <4>1. PadRising(pad')
        BY <3>1, <3>3, PadThins
      <4>2. \A n \in DOMAIN pad' : pad'[n].serial <= begins
        BY <3>3 DEF PadInv, Thins
      <4> QED
        BY <2>1, <4>1, <4>2
    <3>5. ASSUME NEW i \in DOMAIN frames', frames'[i].padded
          PROVE  Home(pad', frames'[i])
      <4>1. i \in DOMAIN frames /\ i < Len(frames) /\ frames'[i] = frames[i]
        BY <1>1, <2>1, <2>2, Unwinds
      <4>2. Home(pad, frames[i])
        BY <3>5, <4>1 DEF PadInv
      <4>3. frames[i].serial < f.serial
        BY <2>2, <4>1 DEF StackInv
      <4>4. ASSUME NEW n \in DOMAIN pad, pad[n].serial = frames[i].serial
            PROVE  \E k \in DOMAIN pad' : pad'[k] = pad[n]
        <5>1. ~(m < n) /\ m # n
          <6>1. pad[n].serial < pad[m].serial /\ pad[n].serial \in Nat /\ pad[m].serial \in Nat
            BY <1>1, <3>2, <4>3, <4>4, RecordParts
          <6>2. m < n => pad[m].serial < pad[n].serial
            BY <3>1, <3>2 DEF PadRising
          <6> QED
            BY <6>1, <6>2
        <5>2. n < m
          BY <1>1, <3>2, <5>1, RecordParts
        <5> QED
          BY <3>3, <5>2
      <4>5. Home(pad', frames[i])
        BY <3>3, <4>2, <4>4, HomeThins
      <4> QED
        BY <4>1, <4>5
    <3> QED
      BY <3>4, <3>5 DEF PadInv
  <2> QED
    BY <2>1, <2>3, <2>4
<1>6. CASE Inject
  <2> DEFINE q == PadRoom(sp)
             e == [esp |-> sp + 1, serial |-> begins + 1]
  <2>1. /\ begins' = begins + 1
        /\ pad' = IF model # "direct" THEN pad
                  ELSE IF Len(q) < PadCapacity THEN Append(q, e) ELSE q
    BY <1>6, InjectIs
  <2>2. \A i \in DOMAIN frames' :
           \/ i \in DOMAIN frames /\ frames'[i] = frames[i]
           \/ frames'[i] = NewStanding
    BY <1>6, Winds
  <2>3. \A i \in DOMAIN frames : frames[i].esp <= sp /\ frames[i].esp \in Nat
    BY <1>1, FrameParts DEF StackInv
  <2>4. /\ PadRising(pad)
        /\ \A n \in DOMAIN pad : pad[n].serial <= begins
        /\ \A i \in DOMAIN frames : frames[i].padded => Home(pad, frames[i])
    BY DEF PadInv
  <2>5. /\ q \in Seq(Record) /\ Thins(q, pad)
        /\ \A n \in DOMAIN pad : pad[n].esp <= sp => \E i \in DOMAIN q : q[i] = pad[n]
    BY <1>1, PadRoomIs
  <2> HIDE DEF q
  <2>6. /\ PadRising(q)
        /\ \A n \in DOMAIN q : q[n].serial <= begins
        /\ \A i \in DOMAIN frames : frames[i].padded => Home(q, frames[i])
    <3>1. \A n \in DOMAIN q : q[n].serial <= begins
      BY <2>4, <2>5 DEF Thins
    <3>2. ASSUME NEW i \in DOMAIN frames, frames[i].padded
          PROVE  Home(q, frames[i])
      <4>1. Home(pad, frames[i]) /\ frames[i].esp <= sp
        BY <2>3, <2>4, <3>2
      <4>2. \A n \in DOMAIN pad : pad[n].serial = frames[i].serial /\ pad[n].esp = frames[i].esp
               => \E k \in DOMAIN q : q[k] = pad[n]
        BY <2>5, <4>1
      <4> QED
        BY <2>5, <4>1, <4>2, HomeThins
    <3> QED
      BY <2>4, <2>5, <3>1, <3>2, PadThins
  <2>7. ASSUME NEW p \in Seq(Record), pad' = p, PadRising(p),
               ~NewStanding.padded,
               \A n \in DOMAIN p : p[n].serial <= begins,
               \A i \in DOMAIN frames : frames[i].padded => Home(p, frames[i])
        PROVE  PadInv'
    <3>1. \A n \in DOMAIN p : p[n].serial <= begins'
      BY <1>1, <2>1, <2>7, RecordParts
    <3>2. \A i \in DOMAIN frames' : frames'[i].padded => Home(p, frames'[i])
      BY <2>2, <2>7, Zenon
    <3> QED
      BY <2>7, <3>1, <3>2 DEF PadInv
  <2>8. CASE model # "direct"
    <3>1. ~NewStanding.padded /\ pad' = pad
      BY <2>1, <2>8 DEF NewStanding
    <3> QED
      BY <1>1, <2>4, <2>7, <3>1
  <2>9. CASE model = "direct" /\ ~(Len(q) < PadCapacity)
    <3>1. ~NewStanding.padded /\ pad' = q
      BY <2>1, <2>9 DEF NewStanding, q
    <3> QED
      BY <2>5, <2>6, <2>7, <3>1
  <2>10. CASE model = "direct" /\ Len(q) < PadCapacity
    <3>1. pad' = Append(q, e) /\ e \in Record
      BY <1>1, <2>1, <2>10 DEF Record
    <3>2. e.esp = sp + 1 /\ e.serial = begins + 1
      OBVIOUS
    <3> HIDE DEF e
    <3>3. Len(q) \in Nat /\ DOMAIN q = 1..Len(q) /\ \A n \in DOMAIN q : q[n].serial \in Nat
      BY <2>5, RecordParts
    <3>4. /\ pad' \in Seq(Record) /\ DOMAIN pad' = 1..(Len(q) + 1)
          /\ \A n \in 1..Len(q) : pad'[n] = q[n]
          /\ pad'[Len(q) + 1] = e
      <4>1. /\ pad' \in Seq(Record) /\ Len(pad') = Len(q) + 1
            /\ \A n \in 1..Len(q) : pad'[n] = q[n]
            /\ pad'[Len(q) + 1] = e
        BY <2>5, <3>1, AppendIs
      <4> QED
        BY <4>1, LenProperties
    <3>5. \A n \in DOMAIN pad' :
             \/ n \in DOMAIN q /\ pad'[n] = q[n] /\ n < Len(q) + 1
             \/ n = Len(q) + 1 /\ pad'[n] = e
      BY <3>3, <3>4
    <3>6. \A n \in DOMAIN q : n \in DOMAIN pad' /\ pad'[n] = q[n]
      BY <3>3, <3>4
    <3>7. \A n \in DOMAIN pad' : pad'[n].serial <= begins'
      BY <1>1, <2>1, <2>6, <3>2, <3>3, <3>5
    <3>8. PadRising(pad')
      <4> SUFFICES ASSUME NEW i \in DOMAIN pad', NEW j \in DOMAIN pad', i < j
                   PROVE  pad'[i].serial < pad'[j].serial
        BY DEF PadRising
      <4>1. i \in DOMAIN q /\ pad'[i] = q[i]
        BY <3>3, <3>4
      <4>2. CASE j \in DOMAIN q /\ pad'[j] = q[j]
        BY <2>6, <4>1, <4>2 DEF PadRising
      <4>3. CASE pad'[j] = e
        BY <1>1, <2>6, <3>2, <3>3, <4>1, <4>3
      <4> QED
        BY <3>5, <4>2, <4>3
    <3>9. ASSUME NEW i \in DOMAIN frames', frames'[i].padded
          PROVE  Home(pad', frames'[i])
      <4>1. CASE i \in DOMAIN frames /\ frames'[i] = frames[i]
        <5>1. Home(q, frames[i]) /\ frames[i].esp # e.esp
          <6>1. frames[i].esp # e.esp
            BY <1>1, <2>3, <3>2, <4>1
          <6> QED
            BY <2>6, <3>9, <4>1, <6>1
        <5>2. \E n \in DOMAIN pad' : pad'[n].serial = frames[i].serial /\ pad'[n].esp = frames[i].esp
          BY <3>6, <5>1 DEF Home
        <5>3. \A n \in DOMAIN pad' : pad'[n].esp = frames[i].esp => pad'[n].serial <= frames[i].serial
          BY <3>5, <5>1 DEF Home
        <5> QED
          BY <4>1, <5>2, <5>3 DEF Home
      <4>2. CASE frames'[i] = NewStanding
        <5>1. NewStanding.esp = e.esp /\ NewStanding.serial = e.serial
          BY <3>2 DEF NewStanding
        <5>2. Len(q) + 1 \in DOMAIN pad' /\ pad'[Len(q) + 1] = e
          BY <3>3, <3>4
        <5>3. \A n \in DOMAIN pad' : pad'[n].serial <= e.serial
          BY <2>1, <3>2, <3>7
        <5> QED
          BY <4>2, <5>1, <5>2, <5>3 DEF Home
      <4> QED
        BY <2>2, <4>1, <4>2
    <3> QED
      BY <3>7, <3>8, <3>9 DEF PadInv
  <2> QED
    BY <2>8, <2>9, <2>10
<1> QED
  BY <1>2, <1>4, <1>5, <1>6, GuestSteps

(* The standing handlers go up the stack in the order of their interrupts, *)
(* and the pad's newest record of a place is its handler's.                *)
LEMMA StackInvariant == Spec => [](Types /\ StackInv /\ PadInv)
<1>1. Init => StackInv /\ PadInv
  BY DEF Init, StackInv, PadInv, PadRising
<1>2. Types /\ StackInv /\ PadInv /\ [Next]_vars => StackInv' /\ PadInv'
  BY StackStep, PadStep
<1> QED
  BY <1>1, <1>2, TimelineTypes, PTL DEF Spec

(* A handler whose frame carries the return pad goes back to the code its  *)
(* own tick interrupted, for every capacity of the pad and every nesting,  *)
(* abandonment and return (PushTimerReturn, PopTimerReturn).               *)
THEOREM ReturnsHome == Spec => []PadReturnsHome
<1>1. Types /\ StackInv /\ PadInv => PadReturnsHome
  <2> SUFFICES ASSUME Types, PadInv, NEW i \in DOMAIN frames, frames[i].padded
               PROVE  pad # <<>> /\ pad[PopFound(frames[i].esp)].serial = frames[i].serial
    BY DEF PadReturnsHome
  <2>1. frames[i] \in Frame /\ pad \in Seq(Record) /\ PadRising(pad) /\ Home(pad, frames[i])
    BY FrameParts DEF Types, GuestTypes, PadInv
  <2>2. /\ PopFound(frames[i].esp) \in DOMAIN pad
        /\ pad[PopFound(frames[i].esp)].serial = frames[i].serial
    BY <2>1, HomeFound
  <2>3. pad # <<>>
    BY <2>1, <2>2, RecordParts
  <2> QED
    BY <2>2, <2>3
<1> QED
  BY <1>1, StackInvariant, PTL

-----------------------------------------------------------------------------
(* The ticks. *)

(* Only an interrupt brings a frame that was not there. *)
LEMMA ReplaySteps ==
    ASSUME Types, [Next]_vars
    PROVE  Inject \/ Thins(replay', replay)
<1>1. replay \in Seq(ReplayFrame) /\ sp \in Nat
  BY DEF Types, GuestTypes
<1>2. Thins(replay, replay)
  BY DEF Thins
<1>3. CASE \/ Quiet \/ HookVector \/ (\E n \in DOMAIN frames : Abandon(n))
           \/ \E depth \in Standing..(Standing + 1) : GuestMovesStack(depth)
  <2>1. replay' = replay
    BY <1>3 DEF Quiet, HookVector, Abandon, GuestMovesStack, tickVars
  <2> QED
    BY <1>2, <2>1
<1>4. CASE ClearTimerTicks
  <2>1. replay' = <<>> /\ DOMAIN <<>> = {}
    BY <1>4 DEF ClearTimerTicks
  <2> QED
    BY <2>1 DEF Thins
<1>5. CASE ReadJammaPort8
  BY <1>1, <1>5, LiveIs DEF ReadJammaPort8
<1>6. CASE HandlerReturns
  <2>1. replay' = replay \/ \E esp : replay' = EndTimerInterrupt(esp)
    BY <1>6, ReturnIs
  <2> QED
    BY <1>1, <1>2, <2>1, EndIs
<1>7. CASE OtherIret
  BY <1>1, <1>7, EndIs DEF OtherIret
<1> QED
  BY <1>3, <1>4, <1>5, <1>6, <1>7, GuestSteps

(* The times of the ticks of a schedule go up. *)
LEMMA DueRises ==
    ASSUME Types, NEW m \in Nat, NEW n \in Nat, m < n
    PROVE  DueTime(m) < DueTime(n)
<1> DEFINE E(k) == PitElapsedNanosecondsForTick(k, divisor)
<1>1. divisor \in Nat \ {0} /\ schedule.epoch \in Nat
  BY ScheduleTypes
<1>2. \A k \in Nat : E(k) \in Nat
  BY <1>1, ElapsedIs
<1>3. E(m) < E(m + 1) /\ m + 1 \in Nat
  BY <1>1, TicksApart
<1>4. E(m + 1) <= E(n)
  <2>1. PitTickCountForElapsed(E(n), divisor) >= n /\ PitTickCountForElapsed(E(n), divisor) \in Nat
    <3>1. E(n) >= E(n) /\ E(n) \in Nat
      BY <1>2
    <3> HIDE DEF E
    <3>2. E(n) >= PitElapsedNanosecondsForTick(n, divisor)
      BY <3>1 DEF E
    <3> QED
      BY <1>1, <3>1, <3>2, TickIsDue, CountIs
  <2>2. PitTickCountForElapsed(E(n), divisor) >= m + 1
    BY <2>1
  <2>3. E(n) >= E(m + 1)
    <3>1. E(n) \in Nat
      BY <1>2
    <3> QED
      BY <1>1, <1>3, <2>2, <3>1, TickIsDue
  <2>4. E(n) \in Nat /\ E(m + 1) \in Nat
    BY <1>2, <1>3
  <2> HIDE DEF E
  <2> QED
    BY <2>3, <2>4
<1>5. E(m) \in Nat /\ E(m + 1) \in Nat /\ E(n) \in Nat
  BY <1>2, <1>3
<1>6. DueTime(m) = schedule.epoch + E(m) /\ DueTime(n) = schedule.epoch + E(n)
  BY DEF DueTime
<1> HIDE DEF E
<1> QED
  BY <1>1, <1>3, <1>4, <1>5, <1>6

(* The queue of the ticks, by its parts. *)
LEMMA DueParts ==
    ASSUME TickTypes
    PROVE  /\ Len(due) \in Nat /\ DOMAIN due = 1..Len(due) /\ lastDue \in Int
           /\ \A i \in DOMAIN due : due[i] \in Nat
<1>1. due \in Seq(Nat) /\ lastDue \in Int
  BY DEF TickTypes
<1> QED
  BY <1>1, LenProperties, ElementOfSeq

LEMMA ReplayParts ==
    ASSUME GuestTypes
    PROVE  \A n \in DOMAIN replay :
              /\ replay[n] \in ReplayFrame /\ replay[n].ts \in Nat
              /\ replay[n].esp \in Nat /\ replay[n].begin \in Nat
<1> SUFFICES ASSUME NEW n \in DOMAIN replay
             PROVE  /\ replay[n] \in ReplayFrame /\ replay[n].ts \in Nat
                    /\ replay[n].esp \in Nat /\ replay[n].begin \in Nat
  OBVIOUS
<1>1. replay[n] \in ReplayFrame
  BY LenProperties, ElementOfSeq DEF GuestTypes
<1> QED
  BY <1>1 DEF ReplayFrame

(* A poll that finds ticks due. *)
LEMMA QueueStep ==
    ASSUME Types, TickInv, ~Restarts, NEW a \in Nat, NEW c \in Nat,
           schedule.emitted + a <= c, c = schedule.emitted \/ c = Count, Queues(a)
    PROVE  /\ lastDue' \in Int /\ lastDue <= lastDue' /\ lastDue' <= now
           /\ lastDue' < DueTime(c + 1)
           /\ \A i, j \in DOMAIN due' : i < j => due'[i] < due'[j]
           /\ \A i \in DOMAIN due' : due'[i] <= lastDue' /\ (i \in DOMAIN due \/ lastDue < due'[i])
           /\ \A i \in DOMAIN due' : i \in DOMAIN due => due'[i] = due[i]
<1> DEFINE e == schedule.emitted
           L == Len(due)
<1>1. /\ e \in Nat /\ Count \in Nat /\ now - schedule.epoch \in Nat /\ divisor \in Nat \ {0}
      /\ schedule.epoch \in Nat /\ now \in Nat
      /\ \A n \in Nat : DueTime(n) \in Nat
  BY ScheduleTypes DEF Types, TickTypes
<1>2. L \in Nat /\ DOMAIN due = 1..L /\ lastDue \in Int /\ \A i \in DOMAIN due : due[i] \in Nat
  BY DueParts DEF Types
<1>3. /\ lastDue <= now /\ lastDue < DueTime(e + 1)
      /\ \A i, j \in DOMAIN due : i < j => due[i] < due[j]
      /\ \A i \in DOMAIN due : due[i] <= lastDue
  BY DEF TickInv
<1> DEFINE d == due'
<1>4. /\ d \in Seq(Nat) /\ Len(d) = L + a
      /\ \A i \in 1..L : d[i] = due[i]
      /\ \A i \in 1..a : d[L + i] = DueTime(e + i)
      /\ lastDue' = IF a = 0 THEN lastDue ELSE DueTime(e + a)
  BY DEF Queues
<1>5. DOMAIN d = 1..(L + a)
  BY <1>4, LenProperties
<1> HIDE DEF L, d
<1>6. ASSUME NEW m \in Nat, NEW n \in Nat, m < n
      PROVE  DueTime(m) < DueTime(n)
  BY <1>6, DueRises
<1>7. \A i \in 1..a : lastDue < DueTime(e + i)
  <2> SUFFICES ASSUME NEW i \in 1..a PROVE lastDue < DueTime(e + i)
    OBVIOUS
  <2> HIDE DEF e
  <2>1. DueTime(e + 1) \in Nat /\ DueTime(e + i) \in Nat
    BY <1>1
  <2>2. i = 1 \/ DueTime(e + 1) < DueTime(e + i)
    <3>1. i = 1 \/ (e + 1 < e + i /\ e + 1 \in Nat /\ e + i \in Nat)
      BY <1>1
    <3> QED
      BY <1>6, <3>1
  <2> QED
    BY <1>2, <1>3, <2>1, <2>2 DEF e
<1>8. \A i \in 1..a : DueTime(e + i) <= now
  <2> SUFFICES ASSUME NEW i \in 1..a PROVE DueTime(e + i) <= now
    OBVIOUS
  <2>1. Count >= e + i /\ e + i \in Nat
    <3> HIDE DEF e
    <3>1. a >= 1
      OBVIOUS
    <3>2. c = Count
      BY <1>1, <3>1 DEF e
    <3> QED
      BY <1>1, <3>2 DEF e
  <2>2. now - schedule.epoch >= PitElapsedNanosecondsForTick(e + i, divisor)
    BY <1>1, <2>1, TickIsDue DEF Count
  <2>3. PitElapsedNanosecondsForTick(e + i, divisor) \in Nat
    BY <1>1, <2>1, ElapsedIs
  <2>4. DueTime(e + i) = schedule.epoch + PitElapsedNanosecondsForTick(e + i, divisor)
    BY DEF DueTime
  <2> QED
    BY <1>1, <2>2, <2>3, <2>4
<1>9. /\ lastDue' \in Int /\ lastDue <= lastDue' /\ lastDue' <= now
      /\ \A i \in 1..a : DueTime(e + i) <= lastDue'
  <2> HIDE DEF e
  <2>1. CASE a = 0
    BY <1>2, <1>3, <1>4, <2>1 DEF e
  <2>2. CASE a # 0
    <3>1. a \in 1..a /\ e + a \in Nat /\ DueTime(e + a) \in Nat /\ lastDue' = DueTime(e + a)
      <4>1. a \in 1..a /\ e + a \in Nat
        BY <1>1, <2>2
      <4> QED
        BY <1>1, <1>4, <2>2, <4>1
    <3>2. lastDue < DueTime(e + a) /\ DueTime(e + a) <= now
      BY <1>7, <1>8, <3>1 DEF e
    <3>3. ASSUME NEW i \in 1..a
          PROVE  DueTime(e + i) <= DueTime(e + a)
      <4>1. i = a \/ (e + i < e + a /\ e + i \in Nat)
        BY <1>1
      <4>2. i = a \/ DueTime(e + i) < DueTime(e + a)
        BY <1>6, <3>1, <4>1
      <4>3. DueTime(e + i) \in Nat
        BY <1>1
      <4> QED
        BY <3>1, <4>2, <4>3
    <3> QED
      BY <1>2, <3>1, <3>2, <3>3
  <2> QED
    BY <2>1, <2>2
<1>10. lastDue' < DueTime(c + 1)
  <2>1. c + 1 \in Nat /\ e + 1 \in Nat /\ e + a \in Nat
    BY <1>1
  <2>2. DueTime(c + 1) \in Nat /\ DueTime(e + 1) \in Nat /\ DueTime(e + a) \in Nat
    BY <1>1, <2>1
  <2>3. CASE a = 0
    <3>1. c = e \/ e + 1 < c + 1
      BY <1>1
    <3>2. c = e \/ DueTime(e + 1) < DueTime(c + 1)
      BY <1>6, <2>1, <3>1
    <3> HIDE DEF e
    <3> QED
      BY <1>2, <1>3, <1>4, <2>2, <2>3, <3>2 DEF e
  <2>4. CASE a # 0
    <3>1. e + a < c + 1
      BY <1>1
    <3>2. DueTime(e + a) < DueTime(c + 1)
      BY <1>6, <2>1, <3>1
    <3> QED
      BY <1>4, <2>4, <3>2
  <2> QED
    BY <2>3, <2>4
<1> HIDE DEF e
<1>11. ASSUME NEW i \in DOMAIN d
       PROVE  \/ i \in DOMAIN due /\ d[i] = due[i]
              \/ i \notin DOMAIN due /\ i - L \in 1..a /\ d[i] = DueTime(e + (i - L))
  <2>1. CASE i <= L
    BY <1>2, <1>4, <1>5, <2>1
  <2>2. CASE ~(i <= L)
    <3>1. i - L \in 1..a /\ L + (i - L) = i /\ i \notin DOMAIN due
      BY <1>2, <1>5, <2>2
    <3> QED
      BY <1>4, <3>1
  <2> QED
    BY <2>1, <2>2
<1>12. ASSUME NEW i \in DOMAIN d
       PROVE  d[i] <= lastDue' /\ (i \in DOMAIN due \/ lastDue < d[i])
  <2>1. CASE i \in DOMAIN due /\ d[i] = due[i]
    BY <1>2, <1>3, <1>9, <2>1
  <2>2. CASE i - L \in 1..a /\ d[i] = DueTime(e + (i - L))
    BY <1>7, <1>9, <2>2 DEF e
  <2> QED
    BY <1>11, <2>1, <2>2
<1>13. ASSUME NEW i \in DOMAIN d, NEW j \in DOMAIN d, i < j
       PROVE  d[i] < d[j]
  <2>1. CASE j \in DOMAIN due
    <3>1. i \in DOMAIN due
      BY <1>2, <1>5, <1>13, <2>1
    <3> QED
      BY <1>3, <1>11, <1>13, <2>1, <3>1
  <2>2. CASE j \notin DOMAIN due /\ i \in DOMAIN due
    <3>1. d[i] = due[i] /\ due[i] <= lastDue /\ due[i] \in Nat
      BY <1>2, <1>3, <1>11, <2>2
    <3>2. lastDue < d[j] /\ d[j] \in Nat
      BY <1>4, <1>5, <1>12, <2>2, ElementOfSeq
    <3> QED
      BY <1>2, <3>1, <3>2
  <2>3. CASE j \notin DOMAIN due /\ i \notin DOMAIN due
    <3>1. /\ i - L \in 1..a /\ d[i] = DueTime(e + (i - L))
          /\ j - L \in 1..a /\ d[j] = DueTime(e + (j - L))
      BY <1>11, <2>3
    <3>2. e + (i - L) < e + (j - L) /\ e + (i - L) \in Nat /\ e + (j - L) \in Nat
      <4>1. e \in Nat /\ L \in Nat /\ i \in Int /\ j \in Int
        BY <1>1, <1>2, <1>5
      <4> QED
        BY <1>13, <3>1, <4>1
    <3> QED
      BY <1>6, <3>1, <3>2
  <2> QED
    BY <2>1, <2>2, <2>3
<1> QED
  BY <1>9, <1>10, <1>11, <1>12, <1>13 DEF d

LEMMA TickStep ==
    ASSUME Types, TickInv, [Next]_vars
    PROVE  TickInv'
<1>1. /\ TickTypes /\ GuestTypes /\ TickTypes' /\ GuestTypes'
  BY TickTypesStep, GuestTypesStep DEF Types
<1>2. /\ now \in Nat /\ generation \in Nat /\ lastDue \in Int
      /\ schedule.generation \in Nat /\ schedule.epoch \in Nat
  BY <1>1 DEF TickTypes
<1>3. ASSUME Thins(replay', replay), UNCHANGED <<due, lastDue>>
      PROVE  \A n \in DOMAIN replay' :
                replay'[n].ts <= lastDue' /\ \A i \in DOMAIN due' : replay'[n].ts < due'[i]
  BY <1>3 DEF TickInv, Thins
<1>4. CASE UNCHANGED <<pitVars, due, lastDue>> /\ ~Inject
  <2>1. Thins(replay', replay)
    BY <1>4, ReplaySteps
  <2>2. \A n \in DOMAIN replay' :
           replay'[n].ts <= lastDue' /\ \A i \in DOMAIN due' : replay'[n].ts < due'[i]
    BY <1>3, <1>4, <2>1
  <2>3. /\ (schedule.generation <= generation /\ lastDue <= now)'
        /\ (~Restarts => lastDue < DueTime(schedule.emitted + 1))'
        /\ (\A i, j \in DOMAIN due : i < j => due[i] < due[j])'
        /\ (\A i \in DOMAIN due : due[i] <= lastDue)'
    BY <1>4 DEF TickInv, Restarts, DueTime, pitVars
  <2> QED
    BY <2>2, <2>3 DEF TickInv
<1>5. CASE TimePasses /\ UNCHANGED <<due, lastDue, replay>>
  <2>1. now' = now + 1 /\ UNCHANGED <<generation, divisor, schedule>>
    BY <1>5 DEF TimePasses
  <2>2. lastDue' <= now'
    BY <1>2, <1>5, <2>1 DEF TickInv
  <2>3. (~Restarts => lastDue < DueTime(schedule.emitted + 1))'
    BY <1>5, <2>1 DEF TickInv, Restarts, DueTime
  <2> QED
    BY <1>5, <2>1, <2>2, <2>3 DEF TickInv
<1>6. CASE \E d \in Divisors : PublishDivisor(d) /\ UNCHANGED <<due, lastDue, replay>>
  <2>1. generation' = generation + 1 /\ UNCHANGED <<now, schedule>>
    BY <1>6 DEF PublishDivisor
  <2>2. schedule'.generation < generation'
    BY <1>2, <2>1 DEF TickInv
  <2>3. Restarts' /\ schedule'.generation <= generation'
    BY <1>2, <2>1, <2>2 DEF Restarts
  <2> QED
    BY <1>6, <2>1, <2>3 DEF TickInv
<1>7. CASE ClearTimerTicks
  <2>1. due' = <<>> /\ replay' = <<>> /\ lastDue' = lastDue /\ UNCHANGED pitVars
    BY <1>7 DEF ClearTimerTicks
  <2>2. DOMAIN due' = {} /\ DOMAIN replay' = {}
    BY <2>1
  <2>3. /\ (schedule.generation <= generation /\ lastDue <= now)'
        /\ (~Restarts => lastDue < DueTime(schedule.emitted + 1))'
    BY <2>1 DEF TickInv, Restarts, DueTime, pitVars
  <2> QED
    BY <2>2, <2>3 DEF TickInv
<1>8. CASE Inject
  <2>1. due # <<>> /\ due' = Tail(due) /\ lastDue' = lastDue /\ replay' = BegunFrames(sp)
    BY <1>8, InjectIs
  <2>2. UNCHANGED pitVars
    BY <1>8 DEF Inject
  <2>3. /\ (schedule.generation <= generation /\ lastDue <= now)'
        /\ (~Restarts => lastDue < DueTime(schedule.emitted + 1))'
    BY <2>1, <2>2 DEF TickInv, Restarts, DueTime, pitVars
  <2>4. /\ Len(due) \in Nat \ {0} /\ DOMAIN due = 1..Len(due) /\ Head(due) = due[1]
        /\ DOMAIN due' = 1..(Len(due) - 1)
        /\ \A i \in DOMAIN due' : due'[i] = due[i + 1]
    <3>1. due \in Seq(Nat) /\ due' \in Seq(Nat)
      BY <1>1 DEF TickTypes
    <3>2. Len(due) \in Nat \ {0} /\ DOMAIN due = 1..Len(due) /\ Head(due) = due[1]
      BY <2>1, <3>1, EmptySeq, LenProperties
    <3>3. Len(due') = Len(due) - 1 /\ \A i \in 1..Len(due') : due'[i] = due[i + 1]
      BY <2>1, <3>1, HeadTailProperties
    <3>4. DOMAIN due' = 1..Len(due')
      BY <3>1, LenProperties
    <3> QED
      BY <3>2, <3>3, <3>4
  <2>5. \A i \in DOMAIN due' : i + 1 \in DOMAIN due /\ 1 \in DOMAIN due /\ 1 < i + 1 /\ i \in Nat
    BY <2>4
  <2>6. \A i, j \in DOMAIN due' : i < j => due'[i] < due'[j]
    <3>1. \A i, j \in DOMAIN due' : i < j => i + 1 < j + 1
      BY <2>4
    <3> QED
      BY <2>4, <2>5, <3>1 DEF TickInv
  <2>7. \A i \in DOMAIN due' : due'[i] <= lastDue' /\ due[1] < due'[i]
    BY <2>1, <2>4, <2>5 DEF TickInv
  <2>8. ASSUME NEW n \in DOMAIN replay'
        PROVE  replay'[n].ts <= lastDue' /\ \A i \in DOMAIN due' : replay'[n].ts < due'[i]
    <3>1. CASE replay'[n] = NewFrame
      <4>1. replay'[n].ts = due[1] /\ 1 \in DOMAIN due
        BY <2>4, <3>1 DEF NewFrame
      <4> QED
        BY <2>1, <2>7, <4>1 DEF TickInv
    <3>2. CASE \E k \in DOMAIN LiveFrames(sp) : replay'[n] = LiveFrames(sp)[k]
      <4>1. Thins(LiveFrames(sp), replay)
        BY <1>1, LiveIs DEF GuestTypes
      <4>2. PICK k \in DOMAIN replay : replay'[n] = replay[k]
        BY <3>2, <4>1 DEF Thins
      <4> QED
        BY <2>1, <2>4, <2>5, <4>2 DEF TickInv
    <3> QED
      BY <2>1, <3>1, <3>2, BegunIs
  <2> QED
    BY <2>3, <2>6, <2>7, <2>8 DEF TickInv
<1>9. CASE ArmDueTimerTicks
  <2>1. UNCHANGED <<now, generation, divisor, replay>>
    BY <1>9 DEF ArmDueTimerTicks, PollSchedule
  <2>2. CASE Restarts
    <3>1. /\ UNCHANGED <<due, lastDue>>
          /\ schedule' = [initialized |-> TRUE, generation |-> generation, epoch |-> now,
                          emitted |-> 0]
      BY <1>9, <2>2, PollIs
    <3>2. schedule'.generation = generation /\ schedule'.epoch = now /\ schedule'.emitted = 0
      BY <3>1
    <3>3. lastDue' < (DueTime(schedule.emitted + 1))'
      <4> DEFINE E(k) == PitElapsedNanosecondsForTick(k, divisor)
      <4>1. E(0) \in Nat /\ E(1) \in Nat /\ E(0) < E(0 + 1)
        BY ScheduleTypes, ElapsedIs, TicksApart
      <4>2. (DueTime(schedule.emitted + 1))' = now + E(0 + 1)
        BY <2>1, <3>2 DEF DueTime
      <4> HIDE DEF E
      <4>3. lastDue <= now
        BY DEF TickInv
      <4> QED
        BY <1>2, <3>1, <4>1, <4>2, <4>3
    <3>4. schedule'.generation <= generation'
      BY <1>2, <2>1, <3>2
    <3> QED
      BY <2>1, <3>1, <3>3, <3>4 DEF TickInv
  <2>3. CASE ~Restarts
    <3>1. PICK a \in Nat, c \in Nat :
             /\ schedule' = [schedule EXCEPT !.emitted = c]
             /\ schedule.emitted + a <= c /\ (c = schedule.emitted \/ c = Count)
             /\ Queues(a)
      BY <1>9, <2>3, PollIs
    <3>2. /\ lastDue' \in Int /\ lastDue <= lastDue' /\ lastDue' <= now
          /\ lastDue' < DueTime(c + 1)
          /\ \A i, j \in DOMAIN due' : i < j => due'[i] < due'[j]
          /\ \A i \in DOMAIN due' : due'[i] <= lastDue' /\ (i \in DOMAIN due \/ lastDue < due'[i])
          /\ \A i \in DOMAIN due' : i \in DOMAIN due => due'[i] = due[i]
      BY <2>3, <3>1, QueueStep
    <3>3. /\ schedule'.generation = schedule.generation /\ schedule'.epoch = schedule.epoch
          /\ schedule'.emitted = c
      BY <1>1, <3>1 DEF TickTypes
    <3>4. lastDue' < (DueTime(schedule.emitted + 1))'
      BY <2>1, <3>2, <3>3 DEF DueTime
    <3>5. ASSUME NEW n \in DOMAIN replay'
          PROVE  replay'[n].ts <= lastDue' /\ \A i \in DOMAIN due' : replay'[n].ts < due'[i]
      <4>1. /\ n \in DOMAIN replay /\ replay'[n] = replay[n] /\ replay[n].ts \in Nat
            /\ replay[n].ts <= lastDue /\ \A i \in DOMAIN due : replay[n].ts < due[i]
        BY <1>1, <2>1, ReplayParts DEF TickInv
      <4>2. replay[n].ts <= lastDue'
        BY <1>2, <3>2, <4>1
      <4>3. ASSUME NEW i \in DOMAIN due'
            PROVE  replay[n].ts < due'[i]
        <5>1. due'[i] \in Nat
          BY <1>1, ElementOfSeq, LenProperties DEF TickTypes
        <5>2. CASE i \in DOMAIN due
          BY <3>2, <4>1, <5>2
        <5>3. CASE lastDue < due'[i]
          BY <1>2, <4>1, <5>1, <5>3
        <5> QED
          BY <3>2, <5>2, <5>3
      <4> QED
        BY <4>1, <4>2, <4>3
    <3> QED
      BY <2>1, <3>2, <3>3, <3>4, <3>5 DEF TickInv
  <2> QED
    BY <2>2, <2>3
<1> QED
  BY <1>4, <1>5, <1>6, <1>7, <1>8, <1>9, TickSteps

LEMMA TickInvariant == Spec => [](Types /\ TickInv)
<1>1. Init => TickInv
  <2> SUFFICES ASSUME Init PROVE TickInv
    OBVIOUS
  <2>1. /\ schedule.generation = 0 /\ generation = 1 /\ lastDue = -1 /\ now = 0
        /\ schedule.initialized = FALSE /\ DOMAIN due = {} /\ DOMAIN replay = {}
    BY DEF Init, PitInit
  <2> QED
    BY <2>1 DEF TickInv, Restarts
<1>2. Types /\ TickInv /\ [Next]_vars => TickInv'
  BY TickStep
<1> QED
  BY <1>1, <1>2, TimelineTypes, PTL DEF Spec

(* Ticks reach the timeline in the order they were due, none before its    *)
(* time, and the deadline the host waits for is the instant from which a   *)
(* poll finds the tick, for every clock rate, every divisor and every      *)
(* sequence of them (PitIrqSchedule::Poll, NanosecondsUntilNextTick,       *)
(* EnqueueTimerTick).                                                      *)
THEOREM TicksComeOnTime == Spec => []TicksOnTime
<1>1. Types /\ TickInv => TicksOnTime
  <2> SUFFICES ASSUME Types, TickInv PROVE TicksOnTime
    OBVIOUS
  <2>1. DeadlineIsTheTick
    <3> SUFFICES ASSUME NEW t \in schedule.epoch..MaxNow
                 PROVE  t >= DueTime(schedule.emitted + 1)
                          <=> PitTickCountForElapsed(t - schedule.epoch, divisor) > schedule.emitted
      BY DEF DeadlineIsTheTick
    <3> DEFINE n == schedule.emitted
               e == t - schedule.epoch
               E == PitElapsedNanosecondsForTick(n + 1, divisor)
               C == PitTickCountForElapsed(e, divisor)
    <3>1. n \in Nat /\ n + 1 \in Nat /\ schedule.epoch \in Nat /\ divisor \in Nat \ {0}
      BY ScheduleTypes
    <3>2. MaxNow \in Nat
      BY PitAssumption
    <3>3. e \in Nat /\ t \in Nat
      BY <3>1, <3>2
    <3>4. E \in Nat /\ C \in Nat /\ (e >= E <=> C >= n + 1)
      <4> HIDE DEF e
      <4> QED
        BY <3>1, <3>3, ElapsedIs, CountIs, TickIsDue
    <3>5. DueTime(n + 1) = schedule.epoch + E
      BY DEF DueTime
    <3> HIDE DEF E, C
    <3>6. t >= schedule.epoch + E <=> C > n
      BY <3>1, <3>3, <3>4
    <3> QED
      BY <3>5, <3>6 DEF C
  <2>2. Len(due) \in Nat /\ DOMAIN due = 1..Len(due) /\ \A i \in DOMAIN due : due[i] \in Nat
    BY DueParts DEF Types
  <2>3. /\ lastDue <= now /\ lastDue \in Int /\ now \in Nat
        /\ \A i \in DOMAIN due : due[i] <= lastDue
        /\ \A n \in DOMAIN replay : replay[n].ts <= lastDue /\ replay[n].ts \in Nat
    BY ReplayParts DEF Types, TickTypes, TickInv
  <2>4. \A t \in Wanted : t <= now /\ t <= lastDue
    BY <2>2, <2>3 DEF Wanted
  <2>5. ASSUME due # <<>>, NEW i \in DOMAIN replay
        PROVE  replay[i].ts < Head(due)
    <3>1. due \in Seq(Nat)
      BY DEF Types, TickTypes
    <3>2. 1 \in DOMAIN due /\ Head(due) = due[1]
      BY <2>2, <2>5, <3>1, EmptySeq
    <3> QED
      BY <3>2 DEF TickInv
  <2> QED
    BY <2>1, <2>4, <2>5 DEF TicksOnTime, TickInv
<1> QED
  BY <1>1, TickInvariant, PTL

-----------------------------------------------------------------------------
(* The frames of the timeline. *)

(* The frame of a standing handler lies where the handler's does. *)
LEMMA ListedOwned ==
    ASSUME GuestTypes, StackInv, ReplayInv, NEW i \in DOMAIN frames, NEW n \in DOMAIN replay,
           replay[n].begin = frames[i].serial
    PROVE  Owns(frames[i], replay[n])
<1>1. frames[i].serial \notin unseen
  BY DEF ReplayInv
<1>2. PICK j \in DOMAIN frames : Owns(frames[j], replay[n])
  BY <1>1 DEF ReplayInv
<1>3. frames[i].serial = frames[j].serial
  BY <1>2 DEF Owns
<1>4. /\ i \in Nat /\ j \in Nat /\ frames[i].serial \in Nat /\ frames[j].serial \in Nat
  BY FrameParts
<1>5. ~(i < j) /\ ~(j < i)
  BY <1>3, <1>4 DEF StackInv
<1>6. i = j
  BY <1>4, <1>5
<1> QED
  BY <1>2, <1>6

(* A step that takes frames from the timeline, of the handlers left        *)
(* standing stale ones at most and outer ones first.                       *)
LEMMA ReplayThinned ==
    ASSUME Types, StackInv, ReplayInv, GuestTypes', Thins(replay', replay), begins' = begins,
           \A i \in DOMAIN frames' : i \in DOMAIN frames /\ frames'[i] = frames[i],
           \A i \in DOMAIN frames' : frames'[i].serial \notin unseen',
           \A s \in unseen' : s \in Nat /\ s <= begins,
           \A n \in DOMAIN replay' :
              \/ replay'[n].begin \in unseen'
              \/ \E i \in DOMAIN frames' : Owns(frames'[i], replay'[n]),
           \A i \in DOMAIN frames' : \A n \in DOMAIN replay :
              Owns(frames'[i], replay[n]) /\ begins - frames'[i].serial <= StaleBegins
                => \E m \in DOMAIN replay' : replay'[m] = replay[n],
           \A i, j \in DOMAIN frames' : \A n, k \in DOMAIN replay :
              i < j /\ Owns(frames'[i], replay[n]) /\ Owns(frames'[j], replay[k])
                /\ (\E m \in DOMAIN replay' : replay'[m] = replay[n])
                => \E m \in DOMAIN replay' : replay'[m] = replay[k]
    PROVE  ReplayInv'
<1>1. GuestTypes /\ begins \in Nat
  BY DEF Types, GuestTypes
<1>2. Rising(replay') /\ \A n \in DOMAIN replay' : replay'[n].begin <= begins'
  <2>1. Rising(replay')
    BY ThinsRising DEF ReplayInv
  <2>2. \A n \in DOMAIN replay' : replay'[n].begin <= begins'
    BY DEF ReplayInv, Thins
  <2> QED
    BY <2>1, <2>2
<1>3. ASSUME NEW i \in DOMAIN frames', begins - frames'[i].serial <= StaleBegins,
             Listed(frames'[i])
      PROVE  (Listed(frames[i]))'
  <2>1. i \in DOMAIN frames /\ frames'[i] = frames[i]
    OBVIOUS
  <2>2. PICK n \in DOMAIN replay : replay[n].begin = frames[i].serial
    BY <1>3, <2>1 DEF Listed
  <2>3. Owns(frames[i], replay[n])
    BY <1>1, <2>1, <2>2, ListedOwned
  <2>4. PICK m \in DOMAIN replay' : replay'[m] = replay[n]
    BY <1>3, <2>1, <2>3
  <2> QED
    BY <2>1, <2>2, <2>4 DEF Listed
<1>4. ASSUME NEW i \in DOMAIN frames', NEW j \in DOMAIN frames', i < j, (Listed(frames[i]))'
      PROVE  (Listed(frames[j]))'
  <2>1. /\ i \in DOMAIN frames /\ j \in DOMAIN frames
        /\ frames'[i] = frames[i] /\ frames'[j] = frames[j]
    OBVIOUS
  <2>2. PICK m \in DOMAIN replay' : replay'[m].begin = frames[i].serial
    BY <1>4, <2>1 DEF Listed
  <2>3. PICK n \in DOMAIN replay : replay'[m] = replay[n]
    BY DEF Thins
  <2>4. Listed(frames[i])
    BY <2>2, <2>3 DEF Listed
  <2>5. PICK k \in DOMAIN replay : replay[k].begin = frames[j].serial
    BY <1>4, <2>1, <2>4 DEF ReplayInv, Listed
  <2>6. Owns(frames[i], replay[n]) /\ Owns(frames[j], replay[k])
    BY <1>1, <2>1, <2>2, <2>3, <2>5, ListedOwned
  <2>7. PICK l \in DOMAIN replay' : replay'[l] = replay[k]
    BY <1>4, <2>1, <2>3, <2>6
  <2> QED
    BY <2>1, <2>5, <2>7 DEF Listed
<1>5. ASSUME NEW i \in DOMAIN frames', begins - frames'[i].serial <= StaleBegins,
             begins - frames'[i].serial < DueCapacity
      PROVE  (Listed(frames[i]))'
  <2>1. Listed(frames'[i])
    BY <1>5 DEF ReplayInv
  <2> QED
    BY <1>3, <1>5, <2>1
<1> QED
  BY <1>2, <1>4, <1>5 DEF ReplayInv

(* A step that takes no frame of a handler left standing. *)
LEMMA ReplayKeepsStanding ==
    ASSUME Types, StackInv, ReplayInv, GuestTypes', Thins(replay', replay), begins' = begins,
           \A i \in DOMAIN frames' : i \in DOMAIN frames /\ frames'[i] = frames[i],
           \A i \in DOMAIN frames' : frames'[i].serial \notin unseen',
           \A s \in unseen' : s \in Nat /\ s <= begins,
           \A n \in DOMAIN replay' :
              \/ replay'[n].begin \in unseen'
              \/ \E i \in DOMAIN frames' : Owns(frames'[i], replay'[n]),
           \A i \in DOMAIN frames' : \A n \in DOMAIN replay :
              Owns(frames'[i], replay[n]) => \E m \in DOMAIN replay' : replay'[m] = replay[n]
    PROVE  ReplayInv'
<1>1. \A i \in DOMAIN frames' : \A n \in DOMAIN replay :
         Owns(frames'[i], replay[n]) /\ begins - frames'[i].serial <= StaleBegins
           => \E m \in DOMAIN replay' : replay'[m] = replay[n]
  OBVIOUS
<1>2. \A i, j \in DOMAIN frames' : \A n, k \in DOMAIN replay :
         i < j /\ Owns(frames'[i], replay[n]) /\ Owns(frames'[j], replay[k])
           /\ (\E m \in DOMAIN replay' : replay'[m] = replay[n])
           => \E m \in DOMAIN replay' : replay'[m] = replay[k]
  OBVIOUS
<1> QED
  BY <1>1, <1>2, ReplayThinned

(* The frame at esp goes with what is above it. *)
LEMMA ReplayEnds ==
    ASSUME Types, StackInv, ReplayInv, GuestTypes', NEW esp \in Nat,
           replay' = EndTimerInterrupt(esp), begins' = begins, unseen' = unseen,
           \A i \in DOMAIN frames' :
              i \in DOMAIN frames /\ frames'[i] = frames[i] /\ frames[i].esp < esp,
           \A i \in DOMAIN frames : frames[i].esp < esp => i \in DOMAIN frames',
           \A i \in DOMAIN frames : frames[i].esp <= esp
    PROVE  ReplayInv'
<1>1. GuestTypes /\ replay \in Seq(ReplayFrame) /\ Rising(replay)
  BY DEF Types, GuestTypes, ReplayInv
<1>2. /\ Thins(replay', replay)
      /\ \A n \in DOMAIN replay' : replay'[n].esp # esp
      /\ \A n \in DOMAIN replay : replay[n].esp < esp => \E m \in DOMAIN replay' : replay'[m] = replay[n]
  BY <1>1, EndIs
<1>3. /\ \A i \in DOMAIN frames' : frames'[i].serial \notin unseen'
      /\ \A s \in unseen' : s \in Nat /\ s <= begins
  BY DEF ReplayInv
<1>4. \A i \in DOMAIN frames' : \A n \in DOMAIN replay :
         Owns(frames'[i], replay[n]) => \E m \in DOMAIN replay' : replay'[m] = replay[n]
  BY <1>2 DEF Owns
<1>5. ASSUME NEW n \in DOMAIN replay', replay'[n].begin \notin unseen'
      PROVE  \E i \in DOMAIN frames' : Owns(frames'[i], replay'[n])
  <2>1. PICK k \in DOMAIN replay : replay'[n] = replay[k]
    BY <1>2 DEF Thins
  <2>2. PICK i \in DOMAIN frames : Owns(frames[i], replay[k])
    BY <1>5, <2>1 DEF ReplayInv
  <2>3. frames[i].esp # esp /\ frames[i].esp \in Nat
    BY <1>1, <1>2, <2>1, <2>2, FrameParts DEF Owns
  <2>4. frames[i].esp < esp
    BY <2>3
  <2>5. i \in DOMAIN frames' /\ frames'[i] = frames[i]
    BY <2>4
  <2> QED
    BY <2>1, <2>2, <2>5
<1>6. \A n \in DOMAIN replay' :
         \/ replay'[n].begin \in unseen'
         \/ \E i \in DOMAIN frames' : Owns(frames'[i], replay'[n])
  BY <1>5
<1>7. \A i \in DOMAIN frames' : i \in DOMAIN frames /\ frames'[i] = frames[i]
  OBVIOUS
<1> HIDE DEF Owns
<1> QED
  BY <1>2, <1>3, <1>4, <1>6, <1>7, ReplayKeepsStanding

(* Handlers leave and nobody sees it. *)
LEMMA ReplayUnseen ==
    ASSUME Types, StackInv, ReplayInv, GuestTypes', NEW n \in DOMAIN frames,
           frames' = SubSeq(frames, 1, n - 1), replay' = replay, begins' = begins,
           GoUnseen({frames[i].serial : i \in n..Len(frames)})
    PROVE  ReplayInv'
<1>1. GuestTypes /\ Len(frames) \in Nat /\ DOMAIN frames = 1..Len(frames)
  BY FrameParts DEF Types
<1>2. /\ \A i \in DOMAIN frames' : i \in DOMAIN frames /\ i < n /\ frames'[i] = frames[i]
      /\ \A i \in DOMAIN frames : i < n => i \in DOMAIN frames'
  BY <1>1, Unwinds
<1>3. Thins(replay', replay)
  BY DEF Thins
<1>4. ASSUME NEW i \in DOMAIN frames'
      PROVE  frames'[i].serial \notin unseen'
  <2>1. frames[i].serial \notin unseen /\ i \in DOMAIN frames /\ i < n
    BY <1>2 DEF ReplayInv
  <2>2. ASSUME NEW j \in n..Len(frames)
        PROVE  frames[i].serial # frames[j].serial
    <3>1. j \in DOMAIN frames /\ i < j
      BY <1>1, <2>1
    <3>2. frames[i].serial < frames[j].serial /\ frames[i].serial \in Nat /\ frames[j].serial \in Nat
      BY <1>1, <2>1, <3>1, FrameParts DEF StackInv
    <3> QED
      BY <3>2
  <2>3. frames[i].serial \notin unseen \cup {frames[j].serial : j \in n..Len(frames)}
    BY <2>1, <2>2
  <2>4. frames[i].serial \notin unseen'
    BY <2>3 DEF GoUnseen
  <2> QED
    BY <1>2, <2>4
<1>5. ASSUME NEW k \in DOMAIN replay
      PROVE  \/ replay[k].begin \in unseen'
             \/ \E i \in DOMAIN frames' : Owns(frames'[i], replay[k])
  <2>1. CASE replay[k].begin \in unseen
    BY <2>1 DEF GoUnseen
  <2>2. CASE \E i \in DOMAIN frames : Owns(frames[i], replay[k])
    <3>1. PICK i \in DOMAIN frames : Owns(frames[i], replay[k])
      BY <2>2
    <3>2. CASE i < n
      BY <1>2, <3>1, <3>2
    <3>3. CASE ~(i < n)
      <4>1. i \in n..Len(frames) /\ replay[k].begin = frames[i].serial
        BY <1>1, <3>1, <3>3 DEF Owns
      <4> QED
        BY <4>1 DEF GoUnseen
    <3> QED
      BY <3>2, <3>3
  <2> QED
    BY <2>1, <2>2 DEF ReplayInv
<1>6. \A i \in DOMAIN frames' : \A k \in DOMAIN replay :
         Owns(frames'[i], replay[k]) => \E m \in DOMAIN replay' : replay'[m] = replay[k]
  OBVIOUS
<1>7. \A k \in DOMAIN replay' :
         \/ replay'[k].begin \in unseen'
         \/ \E i \in DOMAIN frames' : Owns(frames'[i], replay'[k])
  BY <1>5
<1>8. \A i \in DOMAIN frames' : i \in DOMAIN frames /\ frames'[i] = frames[i]
  BY <1>2
<1>9. \A s \in unseen' : s \in Nat /\ s <= begins
  BY <1>1, ReplayParts DEF GoUnseen, ReplayInv
<1> QED
  BY <1>3, <1>4, <1>6, <1>7, <1>8, <1>9, ReplayKeepsStanding

(* The frame of a standing handler that is not stale survives a look at    *)
(* the timeline.                                                           *)
LEMMA StandingLive ==
    ASSUME Types, StackInv, ReplayInv, NEW i \in DOMAIN frames, Listed(frames[i]),
           begins - frames[i].serial <= StaleBegins
    PROVE  \E k \in DOMAIN LiveFrames(sp) : Owns(frames[i], LiveFrames(sp)[k])
<1>1. GuestTypes /\ replay \in Seq(ReplayFrame) /\ sp \in Nat /\ Rising(replay)
  BY DEF Types, GuestTypes, ReplayInv
<1>2. PICK n \in DOMAIN replay : replay[n].begin = frames[i].serial
  BY DEF Listed
<1>3. Owns(frames[i], replay[n])
  BY <1>1, <1>2, ListedOwned
<1>4. replay[n].esp <= sp /\ begins - replay[n].begin <= StaleBegins
  BY <1>3 DEF Owns, StackInv
<1>5. PICK k \in DOMAIN LiveFrames(sp) : LiveFrames(sp)[k] = replay[n]
  BY <1>1, <1>4, LiveIs
<1> QED
  BY <1>3, <1>5

LEMMA ReplayRead ==
    ASSUME Types, StackInv, ReplayInv, GuestTypes', ReadJammaPort8
    PROVE  ReplayInv'
<1>1. /\ GuestTypes /\ replay \in Seq(ReplayFrame) /\ sp \in Nat /\ Rising(replay)
      /\ begins \in Nat /\ StaleBegins \in Nat
  BY TimelineAssumption DEF Types, GuestTypes, ReplayInv
<1>2. replay' = LiveFrames(sp) /\ UNCHANGED <<begins, frames, unseen>>
  BY DEF ReadJammaPort8, guestVars
<1>3. /\ Thins(replay', replay)
      /\ \A m \in DOMAIN replay' : begins - replay'[m].begin <= StaleBegins
      /\ \A n \in DOMAIN replay :
            replay[n].esp <= sp /\ begins - replay[n].begin <= StaleBegins
              => \E m \in DOMAIN replay' : replay'[m] = replay[n]
  BY <1>1, <1>2, LiveIs
<1>4. \A i \in DOMAIN frames : \A n \in DOMAIN replay :
         Owns(frames[i], replay[n]) /\ begins - frames[i].serial <= StaleBegins
           => \E m \in DOMAIN replay' : replay'[m] = replay[n]
  BY <1>3 DEF Owns, StackInv
<1>5. ASSUME NEW i \in DOMAIN frames, NEW j \in DOMAIN frames,
             NEW n \in DOMAIN replay, NEW k \in DOMAIN replay,
             i < j, Owns(frames[i], replay[n]), Owns(frames[j], replay[k]),
             NEW m \in DOMAIN replay', replay'[m] = replay[n]
      PROVE  \E l \in DOMAIN replay' : replay'[l] = replay[k]
  <2>1. begins - frames[i].serial <= StaleBegins
    BY <1>3, <1>5 DEF Owns
  <2>2. /\ frames[i].serial < frames[j].serial
        /\ frames[i].serial \in Nat /\ frames[j].serial \in Nat
    BY <1>1, <1>5, FrameParts DEF StackInv
  <2>3. begins - frames[j].serial <= StaleBegins
    BY <1>1, <2>1, <2>2
  <2> QED
    BY <1>4, <1>5, <2>3
<1>6. /\ \A i \in DOMAIN frames : frames[i].serial \notin unseen
      /\ \A s \in unseen : s \in Nat /\ s <= begins
  BY DEF ReplayInv
<1>7. \A n \in DOMAIN replay' :
         replay'[n].begin \in unseen \/ \E i \in DOMAIN frames : Owns(frames[i], replay'[n])
  BY <1>3 DEF ReplayInv, Thins
<1> QED
  BY <1>2, <1>3, <1>4, <1>5, <1>6, <1>7, ReplayThinned

LEMMA ReplayBegins ==
    ASSUME Types, StackInv, ReplayInv, Inject
    PROVE  ReplayInv'
<1> DEFINE live == LiveFrames(sp)
           r == BegunFrames(sp)
<1>1. /\ GuestTypes /\ replay \in Seq(ReplayFrame) /\ sp \in Nat /\ Rising(replay)
      /\ begins \in Nat /\ StaleBegins \in Nat /\ DueCapacity \in Nat
      /\ \A n \in DOMAIN replay : replay[n].begin <= begins
  BY TimelineAssumption DEF Types, GuestTypes, ReplayInv
<1>2. /\ due # <<>> /\ begins' = begins + 1 /\ replay' = r /\ unseen' = unseen
  BY InjectIs
<1>3. /\ DOMAIN frames' = 1..(Len(frames) + 1) /\ Len(frames) \in Nat
      /\ \A i \in DOMAIN frames' :
            \/ i \in DOMAIN frames /\ frames'[i] = frames[i] /\ i < Len(frames) + 1
            \/ i = Len(frames) + 1 /\ frames'[i] = NewStanding
      /\ DOMAIN frames = 1..Len(frames)
  BY <1>1, Winds, FrameParts
<1>4. /\ \E m \in DOMAIN r : r[m] = NewFrame
      /\ \A m \in DOMAIN r : r[m] = NewFrame \/ \E k \in DOMAIN live : r[m] = live[k]
      /\ Rising(r)
      /\ \A k \in DOMAIN live :
            \/ \E m \in DOMAIN r : r[m] = live[k]
            \/ /\ \A l \in DOMAIN live : live[k].begin <= live[l].begin
               /\ begins + 1 - live[k].begin >= DueCapacity
  BY <1>1, <1>2, BegunIs
<1>5. /\ Thins(live, replay)
      /\ \A k \in DOMAIN live : begins - live[k].begin <= StaleBegins
  BY <1>1, LiveIs
<1>6. /\ NewStanding.serial = begins + 1 /\ NewFrame.begin = begins + 1
      /\ Owns(NewStanding, NewFrame)
  BY DEF NewStanding, NewFrame, Owns
<1> HIDE DEF live, r
<1>7. \A i \in DOMAIN frames : frames[i].serial <= begins /\ frames[i].serial \in Nat
  BY <1>1, FrameParts DEF StackInv
<1>8. \A k \in DOMAIN live : \E n \in DOMAIN replay : live[k] = replay[n]
  BY <1>5 DEF Thins
<1>9. \A m \in DOMAIN r : r[m].begin <= begins + 1
  <2>1. \A k \in DOMAIN live : live[k].begin <= begins /\ live[k].begin \in Nat
    BY <1>1, <1>8, ReplayParts
  <2> QED
    BY <1>1, <1>4, <1>6, <2>1
<1>10. /\ \A s \in unseen : s \in Nat /\ s <= begins + 1
       /\ \A i \in DOMAIN frames' : frames'[i].serial \notin unseen
  <2>1. \A s \in unseen : s \in Nat /\ s <= begins
    BY DEF ReplayInv
  <2>2. begins + 1 \notin unseen /\ \A s \in unseen : s \in Nat /\ s <= begins + 1
    BY <1>1, <2>1
  <2>3. \A i \in DOMAIN frames : frames[i].serial \notin unseen
    BY DEF ReplayInv
  <2> QED
    BY <1>3, <1>6, <2>2, <2>3
<1>11. ASSUME NEW m \in DOMAIN r
       PROVE  r[m].begin \in unseen \/ \E i \in DOMAIN frames' : Owns(frames'[i], r[m])
  <2>1. CASE r[m] = NewFrame
    <3>1. Len(frames) + 1 \in DOMAIN frames' /\ Len(frames) + 1 \notin DOMAIN frames
      BY <1>3
    <3>2. frames'[Len(frames) + 1] = NewStanding
      BY <1>3, <3>1
    <3> QED
      BY <1>6, <2>1, <3>1, <3>2
  <2>2. CASE \E k \in DOMAIN live : r[m] = live[k]
    <3>1. PICK n \in DOMAIN replay : r[m] = replay[n]
      BY <1>8, <2>2
    <3>2. CASE replay[n].begin \in unseen
      BY <3>1, <3>2
    <3>3. CASE \E i \in DOMAIN frames : Owns(frames[i], replay[n])
      <4>1. PICK i \in DOMAIN frames : Owns(frames[i], replay[n])
        BY <3>3
      <4>2. i \in DOMAIN frames' /\ frames'[i] = frames[i]
        BY <1>3
      <4> QED
        BY <3>1, <4>1, <4>2
    <3> QED
      BY <3>2, <3>3 DEF ReplayInv
  <2> QED
    BY <1>4, <2>1, <2>2
<1>12. (\E m \in DOMAIN r : r[m].begin = NewStanding.serial)
  BY <1>4, <1>6
<1>13. ASSUME NEW i \in DOMAIN frames', NEW j \in DOMAIN frames', i < j,
              \E m \in DOMAIN r : r[m].begin = frames'[i].serial
       PROVE  \E m \in DOMAIN r : r[m].begin = frames'[j].serial
  <2>1. CASE frames'[j] = NewStanding
    BY <1>12, <2>1
  <2>2. CASE j \in DOMAIN frames /\ frames'[j] = frames[j] /\ j < Len(frames) + 1
    <3>1. i \in DOMAIN frames /\ frames'[i] = frames[i]
      <4>1. i # Len(frames) + 1
        BY <1>3, <1>13, <2>2
      <4> QED
        BY <1>3, <4>1
    <3>2. PICK m \in DOMAIN r : r[m].begin = frames[i].serial
      BY <1>13, <3>1
    <3>3. r[m] # NewFrame
      <4>1. frames[i].serial # begins + 1
        BY <1>1, <1>7, <3>1
      <4> QED
        BY <1>6, <3>2, <4>1
    <3>4. PICK k \in DOMAIN live : r[m] = live[k]
      BY <1>4, <3>3
    <3>5. begins - frames[i].serial <= StaleBegins
      BY <1>5, <3>2, <3>4
    <3>6. frames[i].serial < frames[j].serial /\ frames[j].serial \in Nat /\ frames[i].serial \in Nat
      BY <1>7, <1>13, <2>2, <3>1 DEF StackInv
    <3>7. begins - frames[j].serial <= StaleBegins
      BY <1>1, <3>5, <3>6
    <3>8. Listed(frames[j])
      <4>1. Listed(frames[i])
        BY <1>8, <3>2, <3>4 DEF Listed
      <4> QED
        BY <1>13, <2>2, <3>1, <4>1 DEF ReplayInv
    <3>9. PICK l \in DOMAIN live : Owns(frames[j], live[l])
      BY <2>2, <3>7, <3>8, StandingLive DEF live
    <3>10. live[l].begin = frames[j].serial /\ live[k].begin = frames[i].serial
      BY <3>2, <3>4, <3>9 DEF Owns
    <3>11. ~(live[l].begin <= live[k].begin)
      BY <3>6, <3>10
    <3>12. PICK q \in DOMAIN r : r[q] = live[l]
      BY <1>4, <3>11
    <3> QED
      BY <2>2, <3>10, <3>12
  <2> QED
    BY <1>3, <2>1, <2>2
<1>14. ASSUME NEW i \in DOMAIN frames', (begins + 1) - frames'[i].serial <= StaleBegins,
              (begins + 1) - frames'[i].serial < DueCapacity
       PROVE  \E m \in DOMAIN r : r[m].begin = frames'[i].serial
  <2>1. CASE frames'[i] = NewStanding
    BY <1>12, <2>1
  <2>2. CASE i \in DOMAIN frames /\ frames'[i] = frames[i]
    <3>1. /\ begins - frames[i].serial <= StaleBegins /\ begins - frames[i].serial < DueCapacity
          /\ begins + 1 - frames[i].serial < DueCapacity
      BY <1>1, <1>7, <1>14, <2>2
    <3>2. Listed(frames[i])
      BY <2>2, <3>1 DEF ReplayInv
    <3>3. PICK l \in DOMAIN live : Owns(frames[i], live[l])
      BY <2>2, <3>1, <3>2, StandingLive DEF live
    <3>4. live[l].begin = frames[i].serial
      BY <3>3 DEF Owns
    <3>5. ~(begins + 1 - live[l].begin >= DueCapacity)
      BY <1>1, <1>7, <2>2, <3>1, <3>4
    <3>6. PICK q \in DOMAIN r : r[q] = live[l]
      BY <1>4, <3>5
    <3> QED
      BY <2>2, <3>4, <3>6
  <2> QED
    BY <1>3, <2>1, <2>2
<1> QED
  BY <1>2, <1>4, <1>9, <1>10, <1>11, <1>13, <1>14, Zenon DEF ReplayInv, Listed

LEMMA ReplayStep ==
    ASSUME Types, StackInv, PadInv, ReplayInv, [Next]_vars
    PROVE  ReplayInv'
<1>1. GuestTypes /\ GuestTypes' /\ sp \in Nat
  BY GuestTypesStep DEF Types, GuestTypes
<1>2. CASE \/ Quiet \/ HookVector
           \/ \E depth \in Standing..(Standing + 1) : GuestMovesStack(depth)
  <2>1. UNCHANGED <<replay, begins, frames, unseen>>
    BY <1>2 DEF Quiet, HookVector, GuestMovesStack, tickVars
  <2> QED
    BY <2>1 DEF ReplayInv, Listed
<1>3. CASE ClearTimerTicks
  <2>1. replay' = <<>> /\ ~hooked /\ UNCHANGED <<begins, frames, unseen>>
    BY <1>3 DEF ClearTimerTicks, guestVars
  <2>2. frames = <<>>
    BY <2>1 DEF StackInv
  <2>3. DOMAIN replay' = {} /\ DOMAIN frames' = {}
    BY <2>1, <2>2
  <2> QED
    BY <2>1, <2>3 DEF ReplayInv, Rising
<1>4. CASE ReadJammaPort8
  BY <1>1, <1>4, ReplayRead
<1>5. CASE Inject
  BY <1>5, ReplayBegins
<1>6. CASE HandlerReturns
  <2> DEFINE f == Last(frames)
             n == Len(frames)
  <2>1. /\ frames # <<>> /\ frames' = Front(frames) /\ begins' = begins
        /\ \/ replay' = EndTimerInterrupt(f.esp) /\ unseen' = unseen
           \/ /\ f.padded /\ unseen' = unseen
              /\ replay' = EndTimerInterrupt(pad[PopFound(f.esp)].esp)
           \/ GoUnseen({f.serial}) /\ replay' = replay
    BY <1>6, ReturnIs
  <2>2. /\ n \in DOMAIN frames /\ f = frames[n] /\ frames' = SubSeq(frames, 1, n - 1)
        /\ n \in Nat /\ DOMAIN frames = 1..n
    BY <1>1, <2>1, FrontIs, FrameParts DEF GuestTypes
  <2>3. f \in Frame /\ f.esp \in Nat
    BY <1>1, <2>2, FrameParts
  <2>4. CASE GoUnseen({f.serial}) /\ replay' = replay
    <3>1. {frames[i].serial : i \in n..n} = {f.serial}
      <4>1. n..n = {n}
        BY <2>2
      <4> QED
        BY <2>2, <4>1
    <3> QED
      BY <1>1, <2>1, <2>2, <2>4, <3>1, ReplayUnseen
  <2>5. CASE replay' = EndTimerInterrupt(f.esp) /\ unseen' = unseen
    <3>1. /\ \A i \in DOMAIN frames' : i \in DOMAIN frames /\ i < n /\ frames'[i] = frames[i]
          /\ \A i \in DOMAIN frames : i < n => i \in DOMAIN frames'
      BY <1>1, <2>2, Unwinds
    <3>2. \A i \in DOMAIN frames : (i < n /\ frames[i].esp < f.esp) \/ i = n
      <4>1. \A i \in DOMAIN frames : i < n \/ i = n
        BY <2>2
      <4> QED
        BY <2>2, <4>1 DEF StackInv
    <3>3. \A i \in DOMAIN frames' :
             i \in DOMAIN frames /\ frames'[i] = frames[i] /\ frames[i].esp < f.esp
      <4>1. \A i \in DOMAIN frames' : i # n
        BY <2>2, <3>1
      <4> QED
        BY <3>1, <3>2, <4>1
    <3>4. \A i \in DOMAIN frames : frames[i].esp < f.esp => i \in DOMAIN frames'
      BY <2>2, <2>3, <3>1, <3>2
    <3>5. \A i \in DOMAIN frames : frames[i].esp <= f.esp
      BY <1>1, <2>2, <2>3, <3>2, FrameParts
    <3> QED
      BY <1>1, <2>1, <2>3, <2>5, <3>3, <3>4, <3>5, ReplayEnds
  <2>6. CASE /\ f.padded /\ unseen' = unseen
             /\ replay' = EndTimerInterrupt(pad[PopFound(f.esp)].esp)
    <3>1. Home(pad, f) /\ PadRising(pad) /\ pad \in Seq(Record)
      BY <1>1, <2>2, <2>6 DEF PadInv, GuestTypes
    <3>2. pad[PopFound(f.esp)].esp = f.esp
      BY <2>3, <3>1, HomeFound
    <3> QED
      BY <2>5, <2>6, <3>2
  <2> QED
    BY <2>1, <2>4, <2>5, <2>6
<1>7. CASE OtherIret
  <2>1. /\ sp > Standing /\ replay' = EndTimerInterrupt(sp)
        /\ UNCHANGED <<begins, frames, unseen>>
    BY <1>7 DEF OtherIret
  <2>2. \A i \in DOMAIN frames : frames[i].esp < sp
    <3> SUFFICES ASSUME NEW i \in DOMAIN frames PROVE frames[i].esp < sp
      OBVIOUS
    <3>1. i \in 1..Len(frames) /\ Len(frames) \in Nat /\ frames # <<>>
      BY <1>1, FrameParts
    <3>2. Standing = frames[Len(frames)].esp /\ Len(frames) \in DOMAIN frames /\ Standing \in Nat
      BY <1>1, <3>1, StandingIs
    <3>3. frames[i].esp \in Nat
      BY <1>1, FrameParts
    <3>4. i = Len(frames) \/ frames[i].esp < frames[Len(frames)].esp
      <4>1. i = Len(frames) \/ i < Len(frames)
        BY <3>1
      <4> QED
        BY <3>2, <4>1 DEF StackInv
    <3> QED
      BY <1>1, <2>1, <3>2, <3>3, <3>4
  <2>3. \A i \in DOMAIN frames : frames[i].esp <= sp
    BY DEF StackInv
  <2> QED
    BY <1>1, <2>1, <2>2, <2>3, ReplayEnds
<1>8. CASE \E n \in DOMAIN frames : Abandon(n)
  <2>1. PICK n \in DOMAIN frames : Abandon(n)
    BY <1>8
  <2>2. /\ frames' = SubSeq(frames, 1, n - 1) /\ replay' = replay /\ begins' = begins
        /\ GoUnseen({frames[i].serial : i \in n..Len(frames)})
    BY <2>1 DEF Abandon, tickVars
  <2> QED
    BY <1>1, <2>2, ReplayUnseen
<1> QED
  BY <1>2, <1>3, <1>4, <1>5, <1>6, <1>7, <1>8, GuestSteps

(* A read is answered from the tick of the innermost handler that stands   *)
(* or of one nobody saw go, outside every handler from neither, and a      *)
(* handler not yet stale nor pushed out of the full list gets its own      *)
(* tick, for every capacity, every execution model and every way handlers  *)
(* nest, return and are left (TryReplayPressedMask, BeginTimerInterrupt,   *)
(* EndTimerInterrupt).                                                     *)
THEOREM ReadsAreOfOwnTick == Spec => []ReadsOwnTick
<1>1. Init => ReplayInv
  <2> SUFFICES ASSUME Init PROVE ReplayInv
    OBVIOUS
  <2>1. DOMAIN replay = {} /\ DOMAIN frames = {} /\ unseen = {}
    BY DEF Init
  <2> QED
    BY <2>1 DEF ReplayInv, Rising
<1>2. Types /\ StackInv /\ PadInv /\ ReplayInv /\ [Next]_vars => ReplayInv'
  BY ReplayStep
<1>3. Types /\ StackInv /\ ReplayInv => ReadsOwnTick
  <2> SUFFICES ASSUME Types, StackInv, ReplayInv PROVE ReadsOwnTick
    OBVIOUS
  <2> DEFINE live == LiveFrames(sp)
             inner == Last(frames)
             ghost == {s \in unseen : begins - s <= StaleBegins}
             own == IF frames = <<>> THEN {} ELSE {inner.serial}
             last == live[Len(live)]
  <2>1. /\ GuestTypes /\ replay \in Seq(ReplayFrame) /\ sp \in Nat /\ Rising(replay)
        /\ begins \in Nat /\ StaleBegins \in Nat
    BY TimelineAssumption DEF Types, GuestTypes, ReplayInv
  <2>2. /\ live \in Seq(ReplayFrame) /\ Thins(live, replay)
        /\ \A k \in DOMAIN live : begins - live[k].begin <= StaleBegins
    BY <2>1, LiveIs
  <2>3. live # <<>> => Len(live) \in DOMAIN live /\ Last(live) = last
    BY <2>2, FrontIs
  <2>4. /\ Len(live) \in Nat /\ DOMAIN live = 1..Len(live)
        /\ \A k \in DOMAIN live : live[k].begin \in Nat /\ live[k].begin <= last.begin
    <3>1. Len(live) \in Nat /\ DOMAIN live = 1..Len(live) /\ Rising(live)
      BY <2>1, <2>2, LenProperties, ThinsRising
    <3>2. ASSUME NEW k \in DOMAIN live
          PROVE  live[k].begin \in Nat /\ live[k].begin <= last.begin
      <4> HIDE DEF live
      <4>1. live[k] \in ReplayFrame /\ last \in ReplayFrame /\ Len(live) \in DOMAIN live
        <5>1. Len(live) \in 1..Len(live)
          BY <3>1
        <5> QED
          BY <2>2, <3>1, <5>1, ElementOfSeq
      <4>2. k = Len(live) \/ k < Len(live)
        BY <3>1
      <4>3. k = Len(live) \/ live[k].begin < last.begin
        BY <3>1, <4>1, <4>2 DEF Rising
      <4>4. live[k].begin \in Nat /\ last.begin \in Nat
        BY <4>1 DEF ReplayFrame
      <4> QED
        BY <4>3, <4>4
    <3> QED
      BY <3>1, <3>2
  <2>5. frames # <<>> =>
          /\ Len(frames) \in DOMAIN frames /\ inner = frames[Len(frames)]
          /\ inner.serial \in Nat
    BY <2>1, StandingIs, FrameParts
  <2>6. \A i \in DOMAIN frames : i = Len(frames) \/ i < Len(frames)
    BY <2>1, FrameParts
  <2> HIDE DEF live, inner, ghost
  <2>7. ASSUME live # <<>>
        PROVE  last.begin \in own \cup ghost /\ (last.begin \in own => last.ts = inner.ts)
    <3>1. Len(live) \in DOMAIN live /\ begins - last.begin <= StaleBegins /\ last.begin \in Nat
      BY <2>2, <2>3, <2>4, <2>7
    <3>2. PICK n \in DOMAIN replay : last = replay[n]
      BY <2>2, <3>1 DEF Thins
    <3>3. CASE last.begin \in unseen
      <4>1. last.begin \in ghost
        BY <3>1, <3>3 DEF ghost
      <4>2. last.begin \notin own
        <5>1. frames # <<>> => inner.serial \notin unseen
          BY <2>5 DEF ReplayInv
        <5> QED
          BY <3>3, <5>1
      <4> QED
        BY <4>1, <4>2
    <3>4. CASE \E i \in DOMAIN frames : Owns(frames[i], last)
      <4>1. PICK i \in DOMAIN frames : Owns(frames[i], last)
        BY <3>4
      <4>2. frames # <<>>
        BY <2>1, FrameParts
      <4>3. CASE i = Len(frames)
        <5>1. last.begin = inner.serial /\ last.ts = inner.ts
          BY <2>5, <4>1, <4>2, <4>3 DEF Owns
        <5> QED
          BY <4>2, <5>1
      <4>4. CASE i < Len(frames)
        <5>1. /\ frames[i].serial < inner.serial /\ frames[i].serial \in Nat
          BY <2>1, <2>5, <4>2, <4>4, FrameParts DEF StackInv
        <5>2. Listed(frames[Len(frames)])
          <6>1. Listed(frames[i])
            BY <3>2, <4>1 DEF Listed, Owns
          <6> QED
            BY <2>5, <4>2, <4>4, <6>1 DEF ReplayInv
        <5>3. begins - inner.serial <= StaleBegins
          <6>1. begins - frames[i].serial <= StaleBegins
            BY <3>1, <4>1 DEF Owns
          <6> QED
            BY <2>1, <2>5, <4>2, <5>1, <6>1
        <5>4. PICK k \in DOMAIN live : Owns(inner, live[k])
          BY <2>5, <4>2, <5>2, <5>3, StandingLive DEF live
        <5>5. inner.serial <= last.begin /\ last.begin = frames[i].serial
          BY <2>4, <4>1, <5>4 DEF Owns
        <5> QED
          BY <2>5, <4>2, <5>1, <5>5
      <4> QED
        BY <2>6, <4>3, <4>4
    <3> QED
      BY <3>2, <3>3, <3>4 DEF ReplayInv
  <2>8. ASSUME own # {}, begins - inner.serial <= StaleBegins,
               begins - inner.serial < DueCapacity, \A s \in ghost : s < inner.serial
        PROVE  live # <<>> /\ Last(live).begin = inner.serial
    <3>1. frames # <<>>
      BY <2>8
    <3>2. Listed(frames[Len(frames)])
      BY <2>5, <2>8, <3>1 DEF ReplayInv
    <3>3. PICK k \in DOMAIN live : Owns(inner, live[k])
      BY <2>5, <2>8, <3>1, <3>2, StandingLive DEF live
    <3>4. live # <<>>
      BY <2>4, <3>3
    <3>5. inner.serial <= last.begin /\ last.begin \in Nat
      BY <2>3, <2>4, <3>3, <3>4 DEF Owns
    <3>6. last.begin = inner.serial \/ last.begin < inner.serial
      BY <2>7, <2>8, <3>1, <3>4
    <3> QED
      BY <2>3, <2>5, <3>1, <3>4, <3>5, <3>6
  <2>9. /\ live # <<>> => Last(live).begin \in own \cup ghost
        /\ live # <<>> /\ Last(live).begin \in own => Last(live).ts = inner.ts
    BY <2>3, <2>7
  <2> QED
    BY <2>8, <2>9, Zenon DEF ReadsOwnTick, live, inner, ghost
<1> QED
  BY <1>1, <1>2, <1>3, StackInvariant, PTL DEF Spec

-----------------------------------------------------------------------------
(* The history of the keys. *)

Change == [ts : Nat, mask : SUBSET Keys]

KeyTypes ==
    /\ history \in Seq(Change) /\ edges \in Seq(Change) /\ floor \in Change
    /\ latest \in SUBSET Keys /\ overflowed \in BOOLEAN

(* By the time b: the same change, at the same time where that matters. *)
Agrees(x, y, b) == x.mask = y.mask /\ (x.ts = y.ts \/ (x.ts <= b /\ y.ts <= b))

Ordered(s) == \A i, j \in DOMAIN s : i < j => s[i].ts <= s[j].ts

(* The history h is the end of the changes e, its floor f the last one     *)
(* before, and what is forgotten lies before b, before which nobody asks,  *)
(* or after an overflow before the floor.  The history puts a change that  *)
(* comes late after the ones it still has, which may be fewer than there   *)
(* were: the two times differ then, but both lie before b.                 *)
Remembers(h, e, f, o, b) ==
    LET gone == Len(e) - Len(h) IN
    /\ gone >= 0 /\ Ordered(h) /\ Ordered(e)
    /\ \A i \in DOMAIN h : Agrees(h[i], e[gone + i], b)
    /\ f.mask = IF gone = 0 THEN {} ELSE e[gone].mask
    /\ gone > 0 => e[gone].ts <= b \/ (o /\ e[gone].ts <= f.ts)

Low == Cutoff(due, replay, lastDue)

(* What an empty history has forgotten lies before b whether it overflowed *)
(* or not.                                                                 *)
EmptyIsOld(h, e, b) == h = <<>> /\ e # <<>> => e[Len(e)].ts <= b

KeyInv ==
    /\ Remembers(history, edges, floor, overflowed, Low)
    /\ EmptyIsOld(history, edges, Low)

LEMMA MinIs ==
    ASSUME NEW T \in SUBSET Nat, T # {}
    PROVE  Min(T) \in T /\ \A m \in T : Min(T) <= m
<1>1. \E n \in T : \A m \in T : n <= m
  BY LeastNatural
<1>2. Min(T) \in T /\ \A m \in T : Min(T) <= m
  BY <1>1, Zenon DEF Min
<1> QED
  BY <1>2

LEMMA LaterOfTwo ==
    ASSUME NEW m \in Nat, NEW n \in Nat
    PROVE  Max({m, n}) = IF m <= n THEN n ELSE m
<1>1. {m, n} \in SUBSET Nat /\ {m, n} # {} /\ m + n \in Nat /\ \A k \in {m, n} : k <= m + n
  OBVIOUS
<1>2. Max({m, n}) \in {m, n} /\ \A k \in {m, n} : k <= Max({m, n})
  BY <1>1, MaxIs
<1> QED
  BY <1>2

(* The cutoff is the earliest time wanted or, when there is none, the last *)
(* tick's.                                                                 *)
LEMMA CutoffIs ==
    ASSUME NEW d \in Seq(Nat), NEW r \in Seq(ReplayFrame), NEW l \in Int
    PROVE  /\ Cutoff(d, r, l) \in Int
           /\ \/ Cutoff(d, r, l) = l /\ d = <<>> /\ DOMAIN r = {}
              \/ d # <<>> /\ Cutoff(d, r, l) = Head(d)
              \/ \E n \in DOMAIN r : Cutoff(d, r, l) = r[n].ts
           /\ d # <<>> => Cutoff(d, r, l) <= Head(d)
           /\ \A n \in DOMAIN r : Cutoff(d, r, l) <= r[n].ts
<1> DEFINE H == {Head(d) : x \in IF d = <<>> THEN {} ELSE {1}}
           R == {r[n].ts : n \in DOMAIN r}
           W == H \cup R
           c == Cutoff(d, r, l)
<1>1. c = IF W = {} THEN l ELSE Min(W)
  BY DEF Cutoff
<1>2. \A n \in DOMAIN r : r[n].ts \in Nat
  <2> SUFFICES ASSUME NEW n \in DOMAIN r PROVE r[n].ts \in Nat
    OBVIOUS
  <2>1. r[n] \in ReplayFrame
    BY LenProperties, ElementOfSeq
  <2> QED
    BY <2>1 DEF ReplayFrame
<1>3. (d = <<>> => H = {}) /\ (d # <<>> => H = {Head(d)} /\ Head(d) \in Nat)
  <2>1. d # <<>> => Head(d) \in Nat
    BY HeadTailProperties
  <2> QED
    BY <2>1
<1>4. W \in SUBSET Nat
  BY <1>2, <1>3
<1> HIDE DEF c, H
<1>5. CASE W = {}
  <2>1. d = <<>> /\ DOMAIN r = {}
    BY <1>3, <1>5
  <2> QED
    BY <1>1, <1>5, <2>1 DEF c
<1>6. CASE W # {}
  <2> HIDE DEF W
  <2>1. c \in W /\ \A m \in W : c <= m
    BY <1>1, <1>4, <1>6, MinIs
  <2>2. c \in Int
    BY <1>4, <2>1
  <2> USE DEF W
  <2>3. d # <<>> => c <= Head(d)
    BY <1>3, <2>1
  <2>4. \A n \in DOMAIN r : c <= r[n].ts
    BY <2>1
  <2>5. (d # <<>> /\ c = Head(d)) \/ \E n \in DOMAIN r : c = r[n].ts
    BY <1>3, <2>1
  <2> QED
    BY <2>2, <2>3, <2>4, <2>5 DEF c
<1> QED
  BY <1>5, <1>6

(* Nobody asks for a time before the cutoff. *)
LEMMA LowIs ==
    ASSUME Types, TickInv
    PROVE  Low \in Int /\ Low <= lastDue /\ \A t \in Wanted : Low <= t
<1>1. due \in Seq(Nat) /\ replay \in Seq(ReplayFrame) /\ lastDue \in Int
  BY DEF Types, TickTypes, GuestTypes
<1>2. /\ Low \in Int
      /\ \/ Low = lastDue \/ (due # <<>> /\ Low = Head(due))
         \/ \E n \in DOMAIN replay : Low = replay[n].ts
      /\ due # <<>> => Low <= Head(due)
      /\ \A n \in DOMAIN replay : Low <= replay[n].ts
  BY <1>1, CutoffIs DEF Low
<1> HIDE DEF Low
<1>3. due # <<>> => 1 \in DOMAIN due /\ Head(due) = due[1]
  BY <1>1, EmptySeq, LenProperties
<1>4. Low <= lastDue
  BY <1>1, <1>2, <1>3 DEF TickInv
<1>5. ASSUME NEW i \in DOMAIN due
      PROVE  Low <= due[i]
  <2>1. due # <<>> /\ i \in 1..Len(due) /\ Len(due) \in Nat /\ due[i] \in Nat
    BY <1>1, LenProperties, ElementOfSeq
  <2>2. Low <= due[1] /\ 1 \in DOMAIN due /\ due[1] \in Nat
    BY <1>1, <1>2, <1>3, <2>1, LenProperties, ElementOfSeq
  <2>3. i = 1 \/ due[1] < due[i]
    <3>1. i = 1 \/ 1 < i
      BY <2>1
    <3> QED
      BY <2>2, <3>1 DEF TickInv
  <2> QED
    BY <1>2, <2>1, <2>2, <2>3
<1> QED
  BY <1>2, <1>4, <1>5 DEF Wanted

(* Nor does anybody come to: what is wanted next was wanted or is due      *)
(* after everything that was.                                              *)
LEMMA WantedSteps ==
    ASSUME Types, TickInv, [Next]_vars
    PROVE  /\ lastDue' \in Int /\ lastDue <= lastDue'
           /\ \A i \in DOMAIN due' : due'[i] \in Wanted \/ lastDue < due'[i]
           /\ \A n \in DOMAIN replay' : replay'[n].ts \in Wanted
<1>1. /\ TickTypes /\ GuestTypes /\ TickTypes' /\ due \in Seq(Nat) /\ due' \in Seq(Nat)
      /\ lastDue \in Int /\ lastDue' \in Int
  BY TickTypesStep DEF Types, TickTypes
<1>2. /\ \A i \in DOMAIN due : due[i] \in Wanted
      /\ \A n \in DOMAIN replay : replay[n].ts \in Wanted
  BY DEF Wanted
<1>3. \A n \in DOMAIN replay' : replay'[n].ts \in Wanted
  <2>1. CASE Thins(replay', replay)
    BY <1>2, <2>1 DEF Thins
  <2>2. CASE Inject
    <3>1. due # <<>> /\ replay' = BegunFrames(sp)
      BY <2>2, InjectIs
    <3>2. Thins(LiveFrames(sp), replay)
      BY <1>1, LiveIs DEF GuestTypes
    <3>3. NewFrame.ts \in Wanted
      <4>1. 1 \in DOMAIN due /\ Head(due) = due[1]
        BY <1>1, <3>1, EmptySeq, LenProperties
      <4> QED
        BY <1>2, <4>1 DEF NewFrame
    <3>4. \A n \in DOMAIN replay' : replay'[n] = NewFrame
             \/ \E k \in DOMAIN LiveFrames(sp) : replay'[n] = LiveFrames(sp)[k]
      BY <3>1, BegunIs
    <3>5. \A k \in DOMAIN LiveFrames(sp) : LiveFrames(sp)[k].ts \in Wanted
      BY <1>2, <3>2 DEF Thins
    <3> QED
      BY <3>3, <3>4, <3>5
  <2> QED
    BY <2>1, <2>2, ReplaySteps
<1>4. CASE UNCHANGED <<due, lastDue>>
  BY <1>1, <1>2, <1>3, <1>4
<1>5. CASE ClearTimerTicks
  <2>1. due' = <<>> /\ lastDue' = lastDue /\ DOMAIN <<>> = {}
    BY <1>5 DEF ClearTimerTicks
  <2> QED
    BY <1>1, <1>3, <2>1
<1>6. CASE Inject
  <2>1. due # <<>> /\ due' = Tail(due) /\ lastDue' = lastDue
    BY <1>6, InjectIs
  <2>2. \A i \in DOMAIN due' : \E k \in DOMAIN due : due'[i] = due[k]
    BY <1>1, <2>1, TailThins
  <2> QED
    BY <1>1, <1>2, <1>3, <2>1, <2>2
<1>7. CASE ArmDueTimerTicks
  <2>1. CASE Restarts
    BY <1>4, <1>7, <2>1, PollIs
  <2>2. CASE ~Restarts
    <3>1. PICK a \in Nat, c \in Nat :
             /\ schedule.emitted + a <= c /\ (c = schedule.emitted \/ c = Count)
             /\ Queues(a)
      BY <1>7, <2>2, PollIs
    <3>2. /\ lastDue <= lastDue'
          /\ \A i \in DOMAIN due' : i \in DOMAIN due \/ lastDue < due'[i]
          /\ \A i \in DOMAIN due' : i \in DOMAIN due => due'[i] = due[i]
      BY <2>2, <3>1, QueueStep
    <3> QED
      BY <1>1, <1>2, <1>3, <3>2
  <2> QED
    BY <2>1, <2>2
<1> QED
  BY <1>4, <1>5, <1>6, <1>7, TickSteps

LEMMA LowRises ==
    ASSUME Types, TickInv, [Next]_vars
    PROVE  Low' \in Int /\ Low <= Low'
<1>1. due' \in Seq(Nat) /\ replay' \in Seq(ReplayFrame) /\ lastDue' \in Int /\ lastDue \in Int
  BY TickTypesStep, GuestTypesStep DEF Types, TickTypes, GuestTypes
<1>2. Low \in Int /\ Low <= lastDue /\ \A t \in Wanted : Low <= t
  BY LowIs
<1>3. /\ Low' \in Int
      /\ \/ Low' = lastDue' \/ (due' # <<>> /\ Low' = Head(due'))
         \/ \E n \in DOMAIN replay' : Low' = replay'[n].ts
  BY <1>1, CutoffIs DEF Low
<1> HIDE DEF Low
<1>4. CASE Low' = lastDue'
  BY <1>1, <1>2, <1>3, <1>4, WantedSteps
<1>5. CASE due' # <<>> /\ Low' = Head(due')
  <2>1. 1 \in DOMAIN due' /\ Low' = due'[1]
    BY <1>1, <1>5, EmptySeq, LenProperties
  <2>2. due'[1] \in Wanted \/ lastDue < due'[1]
    BY <2>1, WantedSteps
  <2> QED
    BY <1>1, <1>2, <1>3, <2>1, <2>2
<1>6. CASE \E n \in DOMAIN replay' : Low' = replay'[n].ts
  <2>1. Low' \in Wanted
    BY <1>6, WantedSteps
  <2> QED
    BY <1>2, <1>3, <2>1
<1> QED
  BY <1>3, <1>4, <1>5, <1>6

(* The parts of a list of changes. *)
LEMMA ChangeParts ==
    ASSUME NEW s \in Seq(Change)
    PROVE  /\ Len(s) \in Nat /\ DOMAIN s = 1..Len(s) /\ (s = <<>> <=> Len(s) = 0)
           /\ \A i \in DOMAIN s : s[i] \in Change /\ s[i].ts \in Nat
<1>1. Len(s) \in Nat /\ DOMAIN s = 1..Len(s) /\ (s = <<>> <=> Len(s) = 0)
  <2>1. Len(s) \in Nat /\ DOMAIN s = 1..Len(s)
    BY LenProperties
  <2>2. s = <<>> => Len(s) = 0
    BY EmptySeq
  <2>3. s # <<>> => Len(s) # 0
    BY EmptySeq
  <2> QED
    BY <2>1, <2>2, <2>3
<1>2. ASSUME NEW i \in DOMAIN s
      PROVE  s[i] \in Change /\ s[i].ts \in Nat
  <2>1. s[i] \in Change
    BY <1>1, ElementOfSeq
  <2> QED
    BY <2>1 DEF Change
<1> QED
  BY <1>1, <1>2

(* How many entries at the front lie before c. *)
LEMMA RemovableIs ==
    ASSUME history \in Seq(Change), NEW c \in Int
    PROVE  /\ Removable(c) \in 0..Len(history)
           /\ \A i \in 1..Removable(c) : i \in DOMAIN history /\ history[i].ts <= c
<1> DEFINE P == {n \in DOMAIN history : \A i \in 1..n : history[i].ts <= c}
           T == {0} \cup P
           m == Max(T)
<1>1. Len(history) \in Nat /\ DOMAIN history = 1..Len(history)
  BY ChangeParts
<1>2. m \in T /\ \A n \in T : n <= m
  <2>1. T \in SUBSET Nat /\ T # {} /\ \A n \in T : n <= Len(history)
    BY <1>1
  <2> HIDE DEF T
  <2> QED
    BY <1>1, <2>1, MaxIs
<1> HIDE DEF m
<1>3. m \in 0..Len(history) /\ \A i \in 1..m : history[i].ts <= c
  <2>1. CASE m = 0
    BY <1>1, <2>1
  <2>2. CASE m \in P
    BY <1>1, <2>2
  <2> QED
    BY <1>2, <2>1, <2>2
<1>4. P = 1..m
  <2>1. ASSUME NEW n \in P PROVE n \in 1..m
    <3>1. n \in T /\ n \in 1..Len(history)
      BY <1>1
    <3>2. n <= m
      BY <1>2, <3>1
    <3> QED
      BY <1>1, <1>3, <3>1, <3>2
  <2>2. ASSUME NEW n \in 1..m PROVE n \in P
    <3>1. n \in DOMAIN history
      BY <1>1, <1>3
    <3>2. \A i \in 1..n : i \in 1..m
      BY <1>1, <1>3
    <3> QED
      BY <1>3, <3>1, <3>2
  <2> QED
    BY <2>1, <2>2
<1>5. Removable(c) = m
  <2>1. Removable(c) = Cardinality(P)
    BY DEF Removable
  <2> HIDE DEF P
  <2>2. Cardinality(1..m) = m
    BY <1>1, <1>3, FS_Interval
  <2> QED
    BY <1>4, <2>1, <2>2
<1> QED
  BY <1>1, <1>3, <1>5

(* What pruning leaves. *)
LEMMA PrunedIs ==
    ASSUME history \in Seq(Change), NEW c \in Int
    PROVE  /\ PrunedHistory(c) \in Seq(Change)
           /\ Len(PrunedHistory(c)) = Len(history) - Removable(c)
           /\ \A i \in DOMAIN PrunedHistory(c) :
                 /\ Removable(c) + i \in DOMAIN history
                 /\ PrunedHistory(c)[i] = history[Removable(c) + i]
<1> DEFINE m == Removable(c)
           h == PrunedHistory(c)
<1>1. Len(history) \in Nat /\ DOMAIN history = 1..Len(history)
  BY ChangeParts
<1>2. m \in 0..Len(history)
  BY RemovableIs
<1>3. h = SubSeq(history, m + 1, Len(history))
  BY DEF PrunedHistory
<1> HIDE DEF m, h
<1>4. \A i \in (m + 1)..Len(history) : i \in 1..Len(history) /\ history[i] \in Change
  BY <1>1, <1>2, ChangeParts
<1>5. /\ h \in Seq(Change)
      /\ Len(h) = IF m + 1 <= Len(history) THEN Len(history) - (m + 1) + 1 ELSE 0
      /\ \A i \in 1..(Len(history) - (m + 1) + 1) : h[i] = history[(m + 1) + i - 1]
  BY <1>1, <1>2, <1>3, <1>4, SubSeqProperties
<1>6. Len(h) = Len(history) - m
  <2>1. Len(h) = IF m + 1 <= Len(history) THEN Len(history) - (m + 1) + 1 ELSE 0
    BY <1>5
  <2>2. CASE m + 1 <= Len(history)
    <3>1. Len(h) = Len(history) - (m + 1) + 1
      BY <2>1, <2>2
    <3> QED
      BY <1>1, <1>2, <3>1
  <2>3. CASE ~(m + 1 <= Len(history))
    <3>1. m = Len(history)
      <4>1. m \in Int /\ Len(history) \in Int /\ m <= Len(history)
        BY <1>1, <1>2
      <4> QED
        BY <2>3, <4>1
    <3>2. Len(h) = 0
      BY <2>1, <2>3
    <3> QED
      BY <1>1, <3>1, <3>2
  <2> QED
    BY <2>2, <2>3
<1>7. DOMAIN h = 1..(Len(history) - m)
  BY <1>5, <1>6, LenProperties
<1>8. ASSUME NEW i \in DOMAIN h
      PROVE  m + i \in DOMAIN history /\ h[i] = history[m + i]
  <2>1. m + i \in DOMAIN history /\ i \in 1..(Len(history) - (m + 1) + 1) /\ (m + 1) + i - 1 = m + i
    BY <1>1, <1>2, <1>7
  <2> QED
    BY <1>5, <2>1
<1> QED
  BY <1>5, <1>6, <1>8 DEF m, h

(* Positions in two lists of which one is the end of the other. *)
LEMMA Offsets ==
    ASSUME NEW x \in Nat, NEW y \in Nat, y - x >= 0
    PROVE  /\ y - x \in Nat /\ (y - x # 0 => y - x \in 1..y) /\ (y - x) + (x + 1) = y + 1
           /\ \A i \in 1..x : (y - x) + i \in 1..y
           /\ \A m \in 0..x : y - (x - m) = (y - x) + m /\ (m # 0 => (y - x) + m \in 1..y)
OBVIOUS

(* A later b forgives more. *)
LEMMA RemembersLater ==
    ASSUME NEW h \in Seq(Change), NEW e \in Seq(Change), NEW f, NEW o,
           NEW a \in Int, NEW b \in Int, a <= b, Remembers(h, e, f, o, a), EmptyIsOld(h, e, a)
    PROVE  Remembers(h, e, f, o, b) /\ EmptyIsOld(h, e, b)
<1> DEFINE g == Len(e) - Len(h)
<1>1. /\ g >= 0 /\ Ordered(h) /\ Ordered(e)
      /\ \A i \in DOMAIN h : Agrees(h[i], e[g + i], a)
      /\ f.mask = IF g = 0 THEN {} ELSE e[g].mask
      /\ g > 0 => e[g].ts <= a \/ (o /\ e[g].ts <= f.ts)
  BY DEF Remembers
<1>2. /\ Len(h) \in Nat /\ Len(e) \in Nat /\ DOMAIN h = 1..Len(h) /\ DOMAIN e = 1..Len(e)
      /\ \A i \in DOMAIN h : h[i].ts \in Nat
      /\ \A i \in DOMAIN e : e[i].ts \in Nat
      /\ e # <<>> => Len(e) # 0
  BY ChangeParts
<1>3. Len(h) \in Nat /\ Len(e) \in Nat /\ Len(e) - Len(h) >= 0
  BY <1>1, <1>2
<1>4. \A i \in DOMAIN h : g + i \in DOMAIN e
  BY <1>2, <1>3, Offsets
<1>5. g > 0 => g \in DOMAIN e
  BY <1>2, <1>3, Offsets
<1> HIDE DEF g
<1>6. \A i \in DOMAIN h : Agrees(h[i], e[g + i], b)
  BY <1>1, <1>2, <1>4 DEF Agrees
<1>7. g > 0 => e[g].ts <= b \/ (o /\ e[g].ts <= f.ts)
  BY <1>1, <1>2, <1>5
<1>8. Remembers(h, e, f, o, b)
  BY <1>1, <1>6, <1>7 DEF Remembers, g
<1>9. EmptyIsOld(h, e, b)
  <2>1. e # <<>> => Len(e) \in DOMAIN e
    BY <1>2
  <2> QED
    BY <1>2, <2>1 DEF EmptyIsOld
<1> QED
  BY <1>8, <1>9

(* What is pruned lies before b. *)
LEMMA RemembersPruned ==
    ASSUME NEW h \in Seq(Change), NEW e \in Seq(Change), NEW f \in Change, NEW o, NEW b \in Int,
           Remembers(h, e, f, o, b), EmptyIsOld(h, e, b),
           NEW m \in 0..Len(h), \A i \in 1..m : h[i].ts <= b,
           NEW p \in Seq(Change), Len(p) = Len(h) - m,
           \A i \in DOMAIN p : m + i \in DOMAIN h /\ p[i] = h[m + i]
    PROVE  LET q == IF m = 0 THEN f ELSE h[m]
           IN  q \in Change /\ Remembers(p, e, q, o, b) /\ EmptyIsOld(p, e, b)
<1> DEFINE g == Len(e) - Len(h)
           k == Len(e) - Len(p)
           q == IF m = 0 THEN f ELSE h[m]
<1>1. /\ g >= 0 /\ Ordered(h) /\ Ordered(e)
      /\ \A i \in DOMAIN h : Agrees(h[i], e[g + i], b)
      /\ f.mask = IF g = 0 THEN {} ELSE e[g].mask
      /\ g > 0 => e[g].ts <= b \/ (o /\ e[g].ts <= f.ts)
  BY DEF Remembers
<1>2. /\ Len(h) \in Nat /\ Len(e) \in Nat /\ DOMAIN h = 1..Len(h) /\ DOMAIN e = 1..Len(e)
      /\ \A i \in DOMAIN h : h[i] \in Change /\ h[i].ts \in Nat
      /\ \A i \in DOMAIN e : e[i].ts \in Nat
      /\ (e = <<>> <=> Len(e) = 0) /\ (h = <<>> <=> Len(h) = 0)
      /\ (p = <<>> <=> Len(p) = 0) /\ DOMAIN p = 1..Len(p)
  BY ChangeParts
<1>3. m \in Nat /\ m <= Len(h)
  BY <1>2
<1>4. Len(h) \in Nat /\ Len(e) \in Nat /\ Len(e) - Len(h) >= 0
  BY <1>1, <1>2
<1>5. k = g + m /\ g \in Nat /\ k \in Nat /\ k >= 0
  <2>1. k = g + m /\ g \in Nat
    BY <1>4, Offsets
  <2> HIDE DEF k, g
  <2> QED
    BY <1>3, <2>1
<1>6. m # 0 => m \in DOMAIN h /\ m \in 1..m /\ k \in DOMAIN e
  <2>1. m # 0 => g + m \in 1..Len(e)
    BY <1>4, Offsets
  <2>2. m # 0 => m \in 1..Len(h) /\ m \in 1..m
    BY <1>3
  <2> HIDE DEF k, g
  <2> QED
    BY <1>2, <1>5, <2>1, <2>2
<1>7. \A i \in DOMAIN p : g + (m + i) = k + i
  <2>1. \A i \in DOMAIN p : i \in Int
    BY <1>2
  <2> HIDE DEF k, g
  <2> QED
    BY <1>3, <1>5, <2>1
<1> HIDE DEF g, k
<1>8. Ordered(p)
  <2>1. \A i, j \in DOMAIN p : i < j => m + i < m + j
    BY <1>2, <1>3
  <2> QED
    BY <1>1, <2>1 DEF Ordered
<1>9. ASSUME NEW i \in DOMAIN p
      PROVE  Agrees(p[i], e[k + i], b)
  <2>1. Agrees(h[m + i], e[g + (m + i)], b)
    BY <1>1
  <2> QED
    BY <1>7, <2>1
<1>10. m # 0 => h[m].mask = e[k].mask /\ e[k].ts <= b
  <2>1. m # 0 => Agrees(h[m], e[g + m], b) /\ h[m].ts <= b
    BY <1>1, <1>6
  <2>2. m # 0 => h[m].mask = e[k].mask /\ (h[m].ts = e[k].ts \/ e[k].ts <= b) /\ h[m].ts <= b
    BY <1>5, <2>1 DEF Agrees
  <2> QED
    BY <2>2
<1>11. q.mask = IF k = 0 THEN {} ELSE e[k].mask
  <2>1. CASE m = 0
    BY <1>1, <1>5, <2>1
  <2>2. CASE m # 0
    <3>1. k # 0
      BY <1>3, <1>5, <2>2
    <3> QED
      BY <1>10, <2>2, <3>1
  <2> QED
    BY <2>1, <2>2
<1>12. k > 0 => e[k].ts <= b \/ (o /\ e[k].ts <= q.ts)
  <2>1. CASE m = 0
    <3>1. k = g
      BY <1>5, <2>1
    <3> QED
      BY <1>1, <2>1, <3>1
  <2>2. CASE m # 0
    BY <1>10, <2>2
  <2> QED
    BY <2>1, <2>2
<1>13. EmptyIsOld(p, e, b)
  <2> SUFFICES ASSUME p = <<>>, e # <<>> PROVE e[Len(e)].ts <= b
    BY DEF EmptyIsOld
  <2>1. k = Len(e)
    <3>1. Len(p) = 0
      BY <1>2
    <3>2. Len(e) \in Nat /\ k = Len(e) - Len(p)
      BY <1>4 DEF k
    <3> QED
      BY <3>1, <3>2
  <2>2. CASE m = 0
    <3>1. h = <<>>
      BY <1>2, <2>2
    <3> QED
      BY <3>1 DEF EmptyIsOld
  <2>3. CASE m # 0
    BY <1>10, <2>1, <2>3
  <2> QED
    BY <2>2, <2>3
<1>14. q \in Change
  BY <1>2, <1>6
<1>15. Remembers(p, e, q, o, b)
  BY <1>1, <1>5, <1>8, <1>9, <1>11, <1>12 DEF Remembers, k
<1> QED
  BY <1>13, <1>14, <1>15

(* A full history gives up its oldest entry. *)
LEMMA RemembersOverflowing ==
    ASSUME NEW h \in Seq(Change), NEW e \in Seq(Change), NEW f \in Change, NEW o, NEW b \in Int,
           Remembers(h, e, f, o, b), h # <<>>
    PROVE  Head(h) \in Change /\ Tail(h) \in Seq(Change)
           /\ Remembers(Tail(h), e, Head(h), TRUE, b)
<1> DEFINE g == Len(e) - Len(h)
           p == Tail(h)
           k == Len(e) - Len(p)
           q == Head(h)
<1>1. /\ g >= 0 /\ Ordered(h) /\ Ordered(e)
      /\ \A i \in DOMAIN h : Agrees(h[i], e[g + i], b)
  BY DEF Remembers
<1>2. /\ Len(h) \in Nat /\ Len(e) \in Nat /\ DOMAIN h = 1..Len(h) /\ DOMAIN e = 1..Len(e)
      /\ \A i \in DOMAIN h : h[i] \in Change /\ h[i].ts \in Nat
      /\ \A i \in DOMAIN e : e[i].ts \in Nat
      /\ Len(h) # 0
  BY ChangeParts
<1>3. /\ q \in Change /\ p \in Seq(Change) /\ Len(p) = Len(h) - 1 /\ q = h[1]
      /\ \A i \in 1..Len(p) : p[i] = h[i + 1]
  BY HeadTailProperties
<1> HIDE DEF p, q
<1>4. DOMAIN p = 1..Len(p)
  BY <1>3, LenProperties
<1>5. k = g + 1 /\ g \in Nat /\ 1 \in DOMAIN h /\ k \in DOMAIN e
  BY <1>1, <1>2, <1>3
<1>6. \A i \in DOMAIN p : i + 1 \in DOMAIN h /\ g + (i + 1) = k + i /\ p[i] = h[i + 1]
  <2>1. Len(h) \in Nat /\ Len(p) = Len(h) - 1
    BY <1>2, <1>3
  <2>2. \A i \in 1..Len(p) : i + 1 \in 1..Len(h) /\ i \in Int
    BY <2>1
  <2> HIDE DEF k, g
  <2>3. \A i \in 1..Len(p) : g + (i + 1) = k + i
    BY <1>5, <2>2
  <2> QED
    BY <1>2, <1>3, <1>4, <2>2, <2>3
<1>7. \A i, j \in DOMAIN p : i < j => i + 1 < j + 1
  BY <1>2, <1>3, <1>4
<1> HIDE DEF g, k
<1>8. Ordered(p)
  BY <1>1, <1>6, <1>7 DEF Ordered
<1>9. ASSUME NEW i \in DOMAIN p
      PROVE  Agrees(p[i], e[k + i], b)
  <2>1. Agrees(h[i + 1], e[g + (i + 1)], b)
    BY <1>1, <1>6
  <2> QED
    BY <1>6, <2>1
<1>10. Agrees(q, e[k], b)
  <2>1. Agrees(h[1], e[g + 1], b)
    BY <1>1, <1>5
  <2> QED
    BY <1>3, <1>5, <2>1
<1>11. q.mask = e[k].mask /\ (e[k].ts <= b \/ e[k].ts <= q.ts)
  <2>1. e[k].ts \in Nat
    BY <1>2, <1>5
  <2> QED
    BY <1>10, <2>1 DEF Agrees
<1>12. k >= 0 /\ k # 0
  BY <1>5
<1>13. Remembers(p, e, q, TRUE, b)
  BY <1>1, <1>8, <1>9, <1>11, <1>12 DEF Remembers, k
<1> QED
  BY <1>3, <1>13 DEF p, q

(* A new change at the end of both. *)
LEMMA RemembersAnother ==
    ASSUME NEW h \in Seq(Change), NEW e \in Seq(Change), NEW f, NEW o, NEW b \in Int,
           Remembers(h, e, f, o, b), NEW x \in Change, NEW y \in Change, Agrees(x, y, b),
           \A i \in DOMAIN h : h[i].ts <= x.ts, \A i \in DOMAIN e : e[i].ts <= y.ts
    PROVE  /\ Append(h, x) \in Seq(Change) /\ Append(e, y) \in Seq(Change)
           /\ Remembers(Append(h, x), Append(e, y), f, o, b)
           /\ EmptyIsOld(Append(h, x), Append(e, y), b)
<1> DEFINE g == Len(e) - Len(h)
           p == Append(h, x)
           d == Append(e, y)
<1>1. /\ g >= 0 /\ Ordered(h) /\ Ordered(e)
      /\ \A i \in DOMAIN h : Agrees(h[i], e[g + i], b)
      /\ f.mask = IF g = 0 THEN {} ELSE e[g].mask
      /\ g > 0 => e[g].ts <= b \/ (o /\ e[g].ts <= f.ts)
  BY DEF Remembers
<1>2. /\ Len(h) \in Nat /\ Len(e) \in Nat /\ DOMAIN h = 1..Len(h) /\ DOMAIN e = 1..Len(e)
  BY ChangeParts
<1>3. /\ p \in Seq(Change) /\ Len(p) = Len(h) + 1 /\ p[Len(h) + 1] = x
      /\ \A i \in 1..Len(h) : p[i] = h[i]
      /\ d \in Seq(Change) /\ Len(d) = Len(e) + 1 /\ d[Len(e) + 1] = y
      /\ \A i \in 1..Len(e) : d[i] = e[i]
  BY AppendIs
<1> HIDE DEF p, d
<1>4. DOMAIN p = 1..(Len(h) + 1) /\ DOMAIN d = 1..(Len(e) + 1)
  BY <1>3, LenProperties
<1>5. Len(d) - Len(p) = g
  BY <1>2, <1>3
<1>6. Len(h) \in Nat /\ Len(e) \in Nat /\ Len(e) - Len(h) >= 0
  BY <1>1, <1>2
<1>7. g \in Nat /\ (g # 0 => g \in DOMAIN e) /\ g + (Len(h) + 1) = Len(e) + 1
  BY <1>2, <1>6, Offsets
<1>8. \A i \in DOMAIN h : g + i \in DOMAIN e
  BY <1>2, <1>6, Offsets
<1> HIDE DEF g
<1>9. Ordered(p)
  <2> SUFFICES ASSUME NEW i \in DOMAIN p, NEW j \in DOMAIN p, i < j
               PROVE  p[i].ts <= p[j].ts
    BY DEF Ordered
  <2>1. i \in DOMAIN h /\ (j \in DOMAIN h \/ j = Len(h) + 1)
    BY <1>2, <1>4
  <2> QED
    BY <1>1, <1>2, <1>3, <2>1 DEF Ordered
<1>10. Ordered(d)
  <2> SUFFICES ASSUME NEW i \in DOMAIN d, NEW j \in DOMAIN d, i < j
               PROVE  d[i].ts <= d[j].ts
    BY DEF Ordered
  <2>1. i \in DOMAIN e /\ (j \in DOMAIN e \/ j = Len(e) + 1)
    BY <1>2, <1>4
  <2> QED
    BY <1>1, <1>2, <1>3, <2>1 DEF Ordered
<1>11. ASSUME NEW i \in DOMAIN p
       PROVE  Agrees(p[i], d[g + i], b)
  <2>1. i \in DOMAIN h \/ i = Len(h) + 1
    BY <1>2, <1>4
  <2>2. CASE i \in DOMAIN h
    <3>1. p[i] = h[i] /\ d[g + i] = e[g + i]
      BY <1>2, <1>3, <1>8, <2>2
    <3> QED
      BY <1>1, <2>2, <3>1
  <2>3. CASE i = Len(h) + 1
    <3>1. p[i] = x /\ d[g + i] = y
      BY <1>3, <1>7, <2>3
    <3> QED
      BY <3>1
  <2> QED
    BY <2>1, <2>2, <2>3
<1>12. g # 0 => d[g] = e[g]
  BY <1>2, <1>3, <1>7
<1>13. /\ f.mask = IF g = 0 THEN {} ELSE d[g].mask
       /\ g > 0 => d[g].ts <= b \/ (o /\ d[g].ts <= f.ts)
  BY <1>1, <1>12
<1>14. Remembers(p, d, f, o, b)
  BY <1>1, <1>5, <1>9, <1>10, <1>11, <1>13 DEF Remembers
<1>15. p # <<>>
  BY <1>2, <1>3, ChangeParts
<1>16. EmptyIsOld(p, d, b)
  BY <1>15 DEF EmptyIsOld
<1> QED
  BY <1>3, <1>14, <1>16 DEF p, d

(* A list in time order ends with its latest change. *)
LEMMA LastIsLatest ==
    ASSUME NEW s \in Seq(Change), Ordered(s), NEW t \in Nat
    PROVE  LET stamp == IF s = <<>> THEN t ELSE Max({t, Last(s).ts}) IN
           /\ stamp \in Nat /\ \A i \in DOMAIN s : s[i].ts <= stamp
           /\ s = <<>> => stamp = t
           /\ s # <<>> => /\ Len(s) \in DOMAIN s /\ s[Len(s)].ts \in Nat
                          /\ stamp = IF t <= s[Len(s)].ts THEN s[Len(s)].ts ELSE t
<1> DEFINE stamp == IF s = <<>> THEN t ELSE Max({t, Last(s).ts})
           l == s[Len(s)].ts
<1>1. /\ Len(s) \in Nat /\ DOMAIN s = 1..Len(s) /\ (s = <<>> <=> Len(s) = 0)
      /\ \A i \in DOMAIN s : s[i].ts \in Nat
  BY ChangeParts
<1>2. CASE s = <<>>
  <2>1. stamp = t /\ DOMAIN s = {}
    BY <1>1, <1>2
  <2> QED
    BY <1>2, <2>1
<1>3. CASE s # <<>>
  <2>1. Len(s) \in DOMAIN s /\ Last(s) = s[Len(s)]
    BY <1>3, FrontIs
  <2>2. l \in Nat
    BY <1>1, <2>1
  <2>3. stamp = Max({t, l})
    BY <1>3, <2>1
  <2> HIDE DEF stamp, l
  <2>4. stamp = IF t <= l THEN l ELSE t
    BY <2>2, <2>3, LaterOfTwo
  <2>5. stamp \in Nat /\ l <= stamp
    BY <2>2, <2>4
  <2>6. ASSUME NEW i \in DOMAIN s
        PROVE  s[i].ts <= l
    <3>1. i = Len(s) \/ i < Len(s)
      BY <1>1
    <3> QED
      BY <2>1, <2>2, <3>1 DEF Ordered, l
  <2>7. \A i \in DOMAIN s : s[i].ts <= stamp
    BY <1>1, <2>2, <2>5, <2>6
  <2> QED
    BY <1>3, <2>1, <2>2, <2>4, <2>5, <2>7 DEF stamp, l
<1> QED
  BY <1>2, <1>3

(* The later of two times, of which the second may differ before b only. *)
LEMMA LaterAgree ==
    ASSUME NEW t \in Nat, NEW m \in Nat, NEW n \in Nat, NEW b \in Int,
           m = n \/ (m <= b /\ n <= b)
    PROVE  LET x == IF t <= m THEN m ELSE t
               y == IF t <= n THEN n ELSE t
           IN  x = y \/ (x <= b /\ y <= b)
OBVIOUS

(* A late change gets a time of its own from the history and one from all  *)
(* the changes; where they differ it does not matter.                      *)
LEMMA StampsAgree ==
    ASSUME NEW h \in Seq(Change), NEW e \in Seq(Change), NEW f, NEW o, NEW b \in Int,
           Remembers(h, e, f, o, b), EmptyIsOld(h, e, b), NEW t \in Nat
    PROVE  LET x == IF h = <<>> THEN t ELSE Max({t, Last(h).ts})
               y == IF e = <<>> THEN t ELSE Max({t, Last(e).ts})
           IN  /\ x \in Nat /\ y \in Nat /\ (x = y \/ (x <= b /\ y <= b))
               /\ \A i \in DOMAIN h : h[i].ts <= x
               /\ \A i \in DOMAIN e : e[i].ts <= y
<1> DEFINE x == IF h = <<>> THEN t ELSE Max({t, Last(h).ts})
           y == IF e = <<>> THEN t ELSE Max({t, Last(e).ts})
           g == Len(e) - Len(h)
<1>1. g >= 0 /\ Ordered(h) /\ Ordered(e) /\ \A i \in DOMAIN h : Agrees(h[i], e[g + i], b)
  BY DEF Remembers
<1>2. /\ Len(h) \in Nat /\ Len(e) \in Nat
      /\ (h = <<>> <=> Len(h) = 0) /\ (e = <<>> <=> Len(e) = 0)
  BY ChangeParts
<1>3. /\ x \in Nat /\ \A i \in DOMAIN h : h[i].ts <= x
      /\ h = <<>> => x = t
      /\ h # <<>> => /\ Len(h) \in DOMAIN h /\ h[Len(h)].ts \in Nat
                     /\ x = IF t <= h[Len(h)].ts THEN h[Len(h)].ts ELSE t
  BY <1>1, LastIsLatest
<1>4. /\ y \in Nat /\ \A i \in DOMAIN e : e[i].ts <= y
      /\ e = <<>> => y = t
      /\ e # <<>> => /\ Len(e) \in DOMAIN e /\ e[Len(e)].ts \in Nat
                     /\ y = IF t <= e[Len(e)].ts THEN e[Len(e)].ts ELSE t
  BY <1>1, LastIsLatest
<1> HIDE DEF x, y
<1>5. CASE e = <<>>
  <2>1. h = <<>>
    <3>1. Len(h) \in Nat /\ Len(e) = 0 /\ Len(e) - Len(h) >= 0
      BY <1>1, <1>2, <1>5
    <3>2. Len(h) = 0
      BY <3>1
    <3> QED
      BY <1>2, <3>2
  <2> QED
    BY <1>3, <1>4, <1>5, <2>1 DEF x, y
<1>6. CASE e # <<>> /\ h = <<>>
  <2>1. e[Len(e)].ts <= b
    BY <1>6 DEF EmptyIsOld
  <2>2. x = y \/ (x <= b /\ y <= b)
    BY <1>3, <1>4, <1>6, <2>1
  <2> QED
    BY <1>3, <1>4, <2>2 DEF x, y
<1>7. CASE e # <<>> /\ h # <<>>
  <2>1. g + Len(h) = Len(e)
    BY <1>2
  <2>2. Agrees(h[Len(h)], e[Len(e)], b)
    BY <1>1, <1>3, <1>7, <2>1
  <2>3. h[Len(h)].ts = e[Len(e)].ts \/ (h[Len(h)].ts <= b /\ e[Len(e)].ts <= b)
    BY <2>2 DEF Agrees
  <2>4. x = y \/ (x <= b /\ y <= b)
    BY <1>3, <1>4, <1>7, <2>3, LaterAgree
  <2> QED
    BY <1>3, <1>4, <2>4 DEF x, y
<1> QED
  BY <1>5, <1>6, <1>7

(* The steps, as far as the keys are concerned. *)
LEMMA KeySteps ==
    ASSUME [Next]_vars
    PROVE  \/ UNCHANGED keyVars
           \/ Prunes
           \/ \E t \in 0..now :
                 \/ RecordState(t, {})
                 \/ \E key \in Keys : RecordState(t, latest \cup {key}) \/ RecordState(t, latest \ {key})
<1>1. CASE \/ UNCHANGED vars \/ (TimePasses /\ UNCHANGED <<keyVars, tickVars, guestVars>>)
           \/ \E d \in Divisors : ProgramTimer(d)
           \/ HookVector \/ (\E depth \in Standing..(Standing + 1) : GuestMovesStack(depth))
           \/ \E n \in DOMAIN frames : Abandon(n)
  BY <1>1, Zenon DEF vars, ProgramTimer, HookVector, GuestMovesStack, Abandon
<1>2. CASE \E t \in {u \in 0..now : now - u <= MaxLate} :
             \/ \E key \in Keys, pressed \in BOOLEAN : RecordKeyEdge(t, key, pressed)
             \/ RecordAllReleased(t)
  <2>1. PICK t \in 0..now :
           \/ \E key \in Keys, pressed \in BOOLEAN : RecordKeyEdge(t, key, pressed)
           \/ RecordAllReleased(t)
    BY <1>2, Zenon
  <2>2. CASE RecordAllReleased(t)
    BY <2>2, Zenon DEF RecordAllReleased
  <2>3. CASE \E key \in Keys, pressed \in BOOLEAN : RecordKeyEdge(t, key, pressed)
    <3>1. PICK key \in Keys, pressed \in BOOLEAN :
             RecordState(t, IF pressed THEN latest \cup {key} ELSE latest \ {key})
      BY <2>3, Zenon DEF RecordKeyEdge
    <3>2. CASE pressed
      BY <3>1, <3>2, Zenon
    <3>3. CASE ~pressed
      BY <3>1, <3>3, Zenon
    <3> QED
      BY <3>2, <3>3
  <2> QED
    BY <2>1, <2>2, <2>3
<1>3. CASE ArmDueTimerTicks
  BY <1>3, Zenon DEF ArmDueTimerTicks
<1>4. CASE ClearTimerTicks \/ ReadJammaPort8 \/ Inject
  BY <1>4, Zenon DEF ClearTimerTicks, ReadJammaPort8, Inject
<1>5. CASE HandlerReturns \/ OtherIret
  BY <1>5, Zenon DEF HandlerReturns, OtherIret
<1> QED
  BY <1>1, <1>2, <1>3, <1>4, <1>5, Zenon DEF Next

(* Pruning up to a time nobody asks before forgets nothing that matters. *)
LEMMA PruneRemembers ==
    ASSUME KeyTypes, NEW b \in Int, Remembers(history, edges, floor, overflowed, b),
           EmptyIsOld(history, edges, b)
    PROVE  /\ PrunedHistory(b) \in Seq(Change) /\ PrunedFloor(b) \in Change
           /\ Remembers(PrunedHistory(b), edges, PrunedFloor(b), overflowed, b)
           /\ EmptyIsOld(PrunedHistory(b), edges, b)
           /\ \A i \in DOMAIN PrunedHistory(b) :
                 \E k \in DOMAIN history : PrunedHistory(b)[i] = history[k]
<1> DEFINE m == Removable(b)
           p == PrunedHistory(b)
           q == IF m = 0 THEN floor ELSE history[m]
<1>1. history \in Seq(Change) /\ edges \in Seq(Change) /\ floor \in Change
  BY DEF KeyTypes
<1>2. m \in 0..Len(history) /\ \A i \in 1..m : history[i].ts <= b
  BY <1>1, RemovableIs
<1>3. /\ p \in Seq(Change) /\ Len(p) = Len(history) - m
      /\ \A i \in DOMAIN p : m + i \in DOMAIN history /\ p[i] = history[m + i]
  BY <1>1, PrunedIs
<1>4. PrunedFloor(b) = q
  BY DEF PrunedFloor
<1> HIDE DEF m, p
<1>5. q \in Change /\ Remembers(p, edges, q, overflowed, b) /\ EmptyIsOld(p, edges, b)
  BY <1>1, <1>2, <1>3, RemembersPruned
<1>6. \A i \in DOMAIN p : \E k \in DOMAIN history : p[i] = history[k]
  BY <1>3
<1> HIDE DEF q
<1> QED
  BY <1>3, <1>4, <1>5, <1>6 DEF p

(* A change recorded. *)
LEMMA RecordRemembers ==
    ASSUME KeyTypes, KeyInv, Low \in Int, NEW t \in Nat, NEW mask \in SUBSET Keys,
           RecordState(t, mask)
    PROVE  KeyTypes' /\ KeyInv'
<1> DEFINE x == IF history = <<>> THEN t ELSE Max({t, Last(history).ts})
           y == IF edges = <<>> THEN t ELSE Max({t, Last(edges).ts})
           kept == PrunedHistory(Low)
           full == Len(kept) = HistoryCapacity
           p == IF full THEN Tail(kept) ELSE kept
           f == IF full THEN Head(kept) ELSE PrunedFloor(Low)
           cx == [ts |-> x, mask |-> mask]
           cy == [ts |-> y, mask |-> mask]
<1>1. /\ history' = Append(p, cx) /\ floor' = f /\ latest' = mask /\ edges' = Append(edges, cy)
      /\ overflowed' = (overflowed \/ full) /\ UNCHANGED tickVars
  BY Zenon DEF RecordState, Low
<1>2. Low' = Low
  BY <1>1, Zenon DEF Low, tickVars
<1> DEFINE b == Low
<1> HIDE DEF b
<1>3. /\ history \in Seq(Change) /\ edges \in Seq(Change) /\ overflowed \in BOOLEAN
      /\ Remembers(history, edges, floor, overflowed, b) /\ EmptyIsOld(history, edges, b)
      /\ b \in Int
  BY DEF KeyTypes, KeyInv, b
<1>4. /\ x \in Nat /\ y \in Nat /\ (x = y \/ (x <= b /\ y <= b))
      /\ \A i \in DOMAIN history : history[i].ts <= x
      /\ \A i \in DOMAIN edges : edges[i].ts <= y
  BY <1>3, StampsAgree
<1> HIDE DEF x, y
<1>5. cx \in Change /\ cy \in Change /\ Agrees(cx, cy, b) /\ cx.ts = x /\ cy.ts = y
  BY <1>4 DEF Change, Agrees
<1>6. /\ kept \in Seq(Change) /\ PrunedFloor(Low) \in Change
      /\ Remembers(kept, edges, PrunedFloor(Low), overflowed, b)
      /\ \A i \in DOMAIN kept : \E k \in DOMAIN history : kept[i] = history[k]
  BY <1>3, PruneRemembers DEF b
<1> HIDE DEF kept, cx, cy
<1>7. /\ p \in Seq(Change) /\ f \in Change
      /\ Remembers(p, edges, f, overflowed', b) /\ overflowed' \in BOOLEAN
      /\ \A i \in DOMAIN p : \E k \in DOMAIN history : p[i] = history[k]
  <2>1. CASE full
    <3>1. kept # <<>>
      <4>1. Len(kept) # 0
        BY <2>1, TimelineAssumption
      <4> QED
        BY <1>6, <4>1, ChangeParts
    <3>2. /\ Head(kept) \in Change /\ Tail(kept) \in Seq(Change)
          /\ Remembers(Tail(kept), edges, Head(kept), TRUE, b)
      BY <1>3, <1>6, <3>1, RemembersOverflowing
    <3>3. overflowed' = TRUE
      BY <1>1, <2>1
    <3>4. \A i \in DOMAIN Tail(kept) : \E k \in DOMAIN kept : Tail(kept)[i] = kept[k]
      BY <1>6, <3>1, TailThins
    <3>5. \A i \in DOMAIN Tail(kept) : \E k \in DOMAIN history : Tail(kept)[i] = history[k]
      BY <1>6, <3>4
    <3> QED
      BY <2>1, <3>2, <3>3, <3>5
  <2>2. CASE ~full
    <3>1. overflowed' = overflowed
      BY <1>1, <1>3, <2>2
    <3> QED
      BY <1>3, <1>6, <2>2, <3>1
  <2> QED
    BY <2>1, <2>2
<1> HIDE DEF p, f
<1>8. \A i \in DOMAIN p : p[i].ts <= cx.ts
  BY <1>4, <1>5, <1>7
<1>9. \A i \in DOMAIN edges : edges[i].ts <= cy.ts
  BY <1>4, <1>5
<1>10. /\ Append(p, cx) \in Seq(Change) /\ Append(edges, cy) \in Seq(Change)
       /\ Remembers(Append(p, cx), Append(edges, cy), f, overflowed', b)
       /\ EmptyIsOld(Append(p, cx), Append(edges, cy), b)
  BY <1>3, <1>5, <1>7, <1>8, <1>9, RemembersAnother
<1>11. KeyTypes'
  BY <1>1, <1>7, <1>10 DEF KeyTypes
<1>12. KeyInv'
  BY <1>1, <1>2, <1>10 DEF KeyInv, b
<1> QED
  BY <1>11, <1>12

LEMMA KeyStep ==
    ASSUME Types, TickInv, KeyTypes, KeyInv, [Next]_vars
    PROVE  KeyTypes' /\ KeyInv'
<1>1. Low \in Int /\ Low' \in Int /\ Low <= Low'
  BY LowIs, LowRises
<1>2. /\ Remembers(history, edges, floor, overflowed, Low')
      /\ EmptyIsOld(history, edges, Low')
  <2>1. history \in Seq(Change) /\ edges \in Seq(Change)
    BY DEF KeyTypes
  <2>2. Remembers(history, edges, floor, overflowed, Low) /\ EmptyIsOld(history, edges, Low)
    BY DEF KeyInv
  <2> QED
    BY <1>1, <2>1, <2>2, RemembersLater
<1>3. CASE UNCHANGED keyVars
  <2>1. UNCHANGED <<history, floor, latest, edges, overflowed>>
    BY <1>3 DEF keyVars
  <2> QED
    BY <1>2, <2>1 DEF KeyTypes, KeyInv
<1>4. CASE Prunes
  <2>1. /\ history' = PrunedHistory(Low') /\ floor' = PrunedFloor(Low')
        /\ UNCHANGED <<latest, edges, overflowed>>
    BY <1>4, Zenon DEF Prunes, Low
  <2>2. /\ PrunedHistory(Low') \in Seq(Change) /\ PrunedFloor(Low') \in Change
        /\ Remembers(PrunedHistory(Low'), edges, PrunedFloor(Low'), overflowed, Low')
        /\ EmptyIsOld(PrunedHistory(Low'), edges, Low')
    BY <1>1, <1>2, PruneRemembers
  <2> QED
    BY <2>1, <2>2 DEF KeyTypes, KeyInv
<1>5. CASE \E t \in 0..now :
                 \/ RecordState(t, {})
                 \/ \E key \in Keys : RecordState(t, latest \cup {key}) \/ RecordState(t, latest \ {key})
  <2>1. PICK t \in 0..now :
                 \/ RecordState(t, {})
                 \/ \E key \in Keys : RecordState(t, latest \cup {key}) \/ RecordState(t, latest \ {key})
    BY <1>5
  <2>2. t \in Nat
    BY DEF Types, TickTypes
  <2>3. {} \in SUBSET Keys /\ \A key \in Keys : latest \cup {key} \in SUBSET Keys
                                                 /\ latest \ {key} \in SUBSET Keys
    BY DEF KeyTypes
  <2> QED
    BY <1>1, <2>1, <2>2, <2>3, RecordRemembers, Zenon
<1> QED
  BY <1>3, <1>4, <1>5, KeySteps, Zenon

(* In a list in time order, what lies before t is an initial part. *)
LEMMA InitialPart ==
    ASSUME NEW s \in Seq(Change), Ordered(s), NEW t \in Nat
    PROVE  LET upto == {n \in DOMAIN s : \A i \in 1..n : s[i].ts <= t}
           IN  \A n \in DOMAIN s : n \in upto <=> s[n].ts <= t
<1>1. /\ Len(s) \in Nat /\ DOMAIN s = 1..Len(s) /\ \A i \in DOMAIN s : s[i].ts \in Nat
  BY ChangeParts
<1>2. ASSUME NEW n \in DOMAIN s, s[n].ts <= t, NEW i \in 1..n
      PROVE  s[i].ts <= t
  <2>1. i \in DOMAIN s /\ (i = n \/ i < n)
    BY <1>1
  <2>2. s[i].ts <= s[n].ts
    BY <1>1, <2>1 DEF Ordered
  <2> QED
    BY <1>1, <1>2, <2>1, <2>2
<1>3. \A n \in DOMAIN s : n \in 1..n
  BY <1>1
<1> QED
  BY <1>2, <1>3

(* The history gives the keys at a time from b on as all the changes would. *)
LEMMA RemembersExactly ==
    ASSUME NEW h \in Seq(Change), NEW e \in Seq(Change), NEW f \in Change, NEW o, NEW b \in Int,
           Remembers(h, e, f, o, b), NEW t \in Nat, b <= t
    PROVE  LET u == {n \in DOMAIN h : \A i \in 1..n : h[i].ts <= t}
               v == {n \in DOMAIN e : e[n].ts <= t}
           IN  \/ (IF u = {} THEN f.mask ELSE h[Max(u)].mask)
                    = (IF v = {} THEN {} ELSE e[Max(v)].mask)
               \/ (o /\ t < f.ts)
<1> DEFINE g == Len(e) - Len(h)
           u == {n \in DOMAIN h : \A i \in 1..n : h[i].ts <= t}
           v == {n \in DOMAIN e : e[n].ts <= t}
<1>1. /\ g >= 0 /\ Ordered(h) /\ Ordered(e)
      /\ \A i \in DOMAIN h : Agrees(h[i], e[g + i], b)
      /\ f.mask = IF g = 0 THEN {} ELSE e[g].mask
      /\ g > 0 => e[g].ts <= b \/ (o /\ e[g].ts <= f.ts)
  BY DEF Remembers
<1>2. /\ Len(h) \in Nat /\ Len(e) \in Nat /\ DOMAIN h = 1..Len(h) /\ DOMAIN e = 1..Len(e)
      /\ \A i \in DOMAIN h : h[i].ts \in Nat
      /\ \A i \in DOMAIN e : e[i].ts \in Nat
  BY ChangeParts
<1>3. Len(h) \in Nat /\ Len(e) \in Nat /\ Len(e) - Len(h) >= 0
  BY <1>1, <1>2
<1>4. g \in Nat /\ (g # 0 => g \in DOMAIN e) /\ \A i \in DOMAIN h : g + i \in DOMAIN e
  BY <1>2, <1>3, Offsets
<1>5. \A n \in DOMAIN e : n > g => n - g \in DOMAIN h /\ g + (n - g) = n
  BY <1>2, <1>3
<1> HIDE DEF g
<1>6. \A i \in DOMAIN h : h[i].ts <= t <=> e[g + i].ts <= t
  <2> SUFFICES ASSUME NEW i \in DOMAIN h PROVE h[i].ts <= t <=> e[g + i].ts <= t
    OBVIOUS
  <2>1. h[i].ts \in Nat /\ e[g + i].ts \in Nat
    BY <1>2, <1>4
  <2>2. h[i].ts = e[g + i].ts \/ (h[i].ts <= b /\ e[g + i].ts <= b)
    BY <1>1 DEF Agrees
  <2> QED
    BY <2>1, <2>2
<1>7. \A n \in DOMAIN h : n \in u <=> h[n].ts <= t
  BY <1>1, InitialPart
<1>8. u \in SUBSET DOMAIN h /\ v \in SUBSET DOMAIN e /\ \A n \in DOMAIN e : n \in v <=> e[n].ts <= t
  OBVIOUS
<1> HIDE DEF u, v
<1>9. \A n \in v : n > g => n - g \in u
  <2> SUFFICES ASSUME NEW n \in v, n > g PROVE n - g \in u
    OBVIOUS
  <2>1. n \in DOMAIN e /\ e[n].ts <= t
    BY <1>8
  <2>2. n - g \in DOMAIN h /\ g + (n - g) = n
    BY <1>5, <2>1
  <2>3. h[n - g].ts <= t
    BY <1>6, <2>1, <2>2
  <2> QED
    BY <1>7, <2>2, <2>3
<1>10. /\ u \in SUBSET Nat /\ v \in SUBSET Nat
       /\ \A n \in u : n <= Len(h)
       /\ \A n \in v : n <= Len(e)
  BY <1>2, <1>8
<1>11. u # {} => Max(u) \in u /\ \A n \in u : n <= Max(u)
  BY <1>3, <1>10, MaxIs
<1>12. v # {} => Max(v) \in v /\ \A n \in v : n <= Max(v)
  BY <1>3, <1>10, MaxIs
<1>13. CASE u # {}
  <2> DEFINE m == Max(u)
             k == Max(v)
  <2>1. m \in u /\ m \in DOMAIN h /\ m \in Nat /\ m > 0 /\ \A n \in u : n <= m
    BY <1>2, <1>8, <1>11, <1>13
  <2>2. g + m \in v
    BY <1>4, <1>6, <1>7, <1>8, <2>1
  <2>3. k \in v /\ g + m <= k /\ k \in Nat
    BY <1>10, <1>12, <2>2
  <2> HIDE DEF m, k
  <2>4. k > g
    BY <1>4, <2>1, <2>3
  <2>5. k - g <= m
    BY <1>9, <2>1, <2>3, <2>4
  <2>6. k = g + m
    BY <1>4, <2>1, <2>3, <2>5
  <2>7. h[m].mask = e[k].mask
    BY <1>1, <2>1, <2>6 DEF Agrees
  <2>8. v # {}
    BY <2>2
  <2> QED
    BY <1>13, <2>7, <2>8 DEF m, k, u, v
<1>14. CASE u = {} /\ g = 0
  <2>1. v = {}
    <3>1. \A n \in v : n > 0
      BY <1>2, <1>8
    <3> QED
      BY <1>9, <1>14, <3>1
  <2>2. f.mask = {}
    BY <1>1, <1>14
  <2> QED
    BY <1>14, <2>1, <2>2 DEF u, v
<1>15. CASE u = {} /\ g # 0 /\ e[g].ts <= t
  <2> DEFINE k == Max(v)
  <2>1. g \in v
    BY <1>4, <1>8, <1>15
  <2>2. k \in v /\ g <= k /\ k \in Nat
    BY <1>10, <1>12, <2>1
  <2> HIDE DEF k
  <2>3. k = g
    <3>1. ~(k > g)
      BY <1>9, <1>15, <2>2
    <3> QED
      BY <1>4, <2>2, <3>1
  <2>4. f.mask = e[k].mask /\ v # {}
    BY <1>1, <1>15, <2>1, <2>3
  <2> QED
    BY <1>15, <2>4 DEF k, u, v
<1>16. CASE g # 0 /\ ~(e[g].ts <= t)
  <2>1. g > 0 /\ e[g].ts \in Nat /\ f.ts \in Nat
    <3>1. g > 0
      BY <1>4, <1>16
    <3>2. e[g].ts \in Nat
      BY <1>2, <1>4, <1>16
    <3>3. f.ts \in Nat
      BY DEF Change
    <3> QED
      BY <3>1, <3>2, <3>3
  <2>2. o /\ e[g].ts <= f.ts
    BY <1>1, <1>16, <2>1
  <2>3. t < f.ts
    BY <1>16, <2>1, <2>2
  <2> QED
    BY <2>2, <2>3
<1> QED
  BY <1>13, <1>14, <1>15, <1>16

(* What pruning forgets is never asked for, whatever the capacities, for   *)
(* every order of key changes, ticks, interrupts and returns: the keys a   *)
(* handler reads are those of its tick, unless the history overflowed and  *)
(* the tick lies before its floor (PruneHistoryLocked, StateAtLocked,      *)
(* RecordKeyEdge).                                                         *)
THEOREM ReplayIsExact == Spec => []ReplayExact
<1>1. Init => KeyTypes /\ KeyInv
  <2> SUFFICES ASSUME Init PROVE KeyTypes /\ KeyInv
    OBVIOUS
  <2>1. /\ history = <<>> /\ floor = [ts |-> 0, mask |-> {}] /\ latest = {}
        /\ edges = <<>> /\ overflowed = FALSE
    BY DEF Init
  <2>2. <<>> \in Seq(Change) /\ Len(<<>>) = 0 /\ DOMAIN <<>> = {}
    BY EmptySeq
  <2>3. KeyTypes
    BY <2>1, <2>2 DEF KeyTypes, Change
  <2>4. KeyInv
    BY <2>1, <2>2 DEF KeyInv, Remembers, EmptyIsOld, Ordered
  <2> QED
    BY <2>3, <2>4
<1>2. Types /\ TickInv /\ KeyTypes /\ KeyInv /\ [Next]_vars => KeyTypes' /\ KeyInv'
  BY KeyStep
<1>3. Types /\ TickInv /\ KeyTypes /\ KeyInv => ReplayExact
  <2> SUFFICES ASSUME Types, TickInv, KeyTypes, KeyInv, NEW t \in Wanted
               PROVE  StateAt(t) = TrueMaskAt(t) \/ (overflowed /\ t < floor.ts)
    BY DEF ReplayExact
  <2>1. Low \in Int /\ Low <= t
    BY LowIs
  <2>2. t \in Nat
    BY DueParts, ReplayParts DEF Wanted, Types
  <2>3. /\ history \in Seq(Change) /\ edges \in Seq(Change) /\ floor \in Change
        /\ Remembers(history, edges, floor, overflowed, Low)
    BY DEF KeyTypes, KeyInv
  <2> HIDE DEF Low
  <2> QED
    BY <2>1, <2>2, <2>3, RemembersExactly DEF StateAt, TrueMaskAt
<1> QED
  BY <1>1, <1>2, <1>3, TickInvariant, PTL DEF Spec

=============================================================================
