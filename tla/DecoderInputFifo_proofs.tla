----------------------- MODULE DecoderInputFifo_proofs -----------------------
(***************************************************************************)
(* The encoded-audio FIFO keeps its books for every capacity and every     *)
(* pattern of calls.  What has to be added to the properties to make them  *)
(* inductive is how much of a reservation is still open at each step of a  *)
(* push.                                                                   *)
(***************************************************************************)
EXTENDS DecoderInputFifo, SequenceTheorems, TLAPS

(* How far a push has come decides what it still has reserved. *)
ReservationOpen ==
    /\ step = "idle" => reserved = 0
    /\ step \in {"load", "copy"} => reserved <= Len(input)

(* The inductive invariant. *)
FifoInv ==
    /\ TypeOK /\ InflightExact /\ InflightBounded
    /\ GrantedPushFits /\ ConsumeNeverFails
    /\ ReservationOpen

-----------------------------------------------------------------------------
(* The first n bytes of a sequence, and what is left of it. *)
LEMMA SplitSeq ==
    ASSUME NEW S, NEW s \in Seq(S), NEW n \in 0..Len(s)
    PROVE  /\ SubSeq(s, 1, n) \in Seq(S)
           /\ Len(SubSeq(s, 1, n)) = n
           /\ SubSeq(s, n + 1, Len(s)) \in Seq(S)
           /\ Len(SubSeq(s, n + 1, Len(s))) = Len(s) - n
<1>1. Len(s) \in Nat /\ n \in Nat /\ n <= Len(s)
  BY LenProperties
<1>2. \A i \in 1..Len(s) : s[i] \in S
  BY ElementOfSeq
<1>3. \A i \in 1..n : s[i] \in S
  BY <1>1, <1>2
<1>4. \A i \in (n + 1)..Len(s) : s[i] \in S
  BY <1>1, <1>2
<1>5. SubSeq(s, 1, n) \in Seq(S) /\ Len(SubSeq(s, 1, n)) = IF 1 <= n THEN n - 1 + 1 ELSE 0
  BY <1>1, <1>3, SubSeqProperties
<1>6. /\ SubSeq(s, n + 1, Len(s)) \in Seq(S)
      /\ Len(SubSeq(s, n + 1, Len(s)))
           = IF n + 1 <= Len(s) THEN Len(s) - (n + 1) + 1 ELSE 0
  BY <1>1, <1>4, SubSeqProperties
<1> QED
  BY <1>1, <1>5, <1>6

(* Reserve never grants more than was asked for or than the limit leaves. *)
LEMMA GrantBounds ==
    ASSUME inflight \in Nat, NEW requested \in Nat, NEW limit \in Nat
    PROVE  /\ Grant(requested, limit) \in 0..requested
           /\ Grant(requested, limit) # 0 => inflight + Grant(requested, limit) <= limit
BY DEF Grant, Min

(* A span is a sequence of bytes. *)
LEMMA SpanIsSeq == \A span \in Span : span \in Seq(Byte)
BY FifoAssumption DEF Span

(* The state the constructor leaves satisfies the invariant. *)
LEMMA InitInv == Init => FifoInv
<1> SUFFICES ASSUME Init
             PROVE  FifoInv
  OBVIOUS
<1>1. TypeOK /\ ConsumeNeverFails
  BY EmptySeq DEF Init, TypeOK, ConsumeNeverFails
<1>2. InflightExact /\ InflightBounded
  BY EmptySeq, FifoAssumption DEF Init, InflightExact, InflightBounded
<1>3. GrantedPushFits /\ ReservationOpen
  BY DEF Init, GrantedPushFits, ReservationOpen
<1> QED
  BY <1>1, <1>2, <1>3 DEF FifoInv

(* Any reservation, of a byte or of a batch, keeps the invariant. *)
LEMMA ReserveInv ==
    ASSUME FifoInv, NEW span \in Seq(Byte), NEW limit \in Nat, limit <= Physical,
           Reserve(span, limit)
    PROVE  FifoInv'
<1> DEFINE granted == Grant(Len(span), limit)
<1>1. inflight \in Nat /\ Len(span) \in Nat
  BY LenProperties DEF FifoInv, TypeOK
<1>2. granted \in 0..Len(span) /\ inflight + granted <= limit
  BY <1>1, GrantBounds DEF Reserve
<1>3. reserved = 0
  BY DEF FifoInv, ReservationOpen, Reserve
<1>4. /\ inflight' = inflight + granted /\ reserved' = granted /\ input' = span
      /\ step' = "load" /\ ring' = ring /\ held' = held
      /\ accepted' = accepted /\ failed' = failed
  BY DEF Reserve
<1> HIDE DEF granted
<1>5. Physical \in Nat
  BY FifoAssumption
<1>6. Len(ring) \in Nat /\ Len(held) \in Nat
  BY LenProperties DEF FifoInv, TypeOK
<1> QED
  BY <1>1, <1>2, <1>3, <1>4, <1>5, <1>6
     DEF FifoInv, TypeOK, InflightExact, InflightBounded, GrantedPushFits,
         ConsumeNeverFails, ReservationOpen

(* Every step keeps the invariant. *)
LEMMA NextInv == FifoInv /\ [Next]_vars => FifoInv'
<1> SUFFICES ASSUME FifoInv, [Next]_vars
             PROVE  FifoInv'
  OBVIOUS
<1> USE FifoAssumption
<1>0. /\ Len(ring) \in Nat /\ Len(held) \in Nat /\ Len(input) \in Nat
      /\ inflight \in Nat /\ reserved \in Nat /\ accepted \in Nat
      /\ ring \in Seq(Byte) /\ held \in Seq(Byte) /\ input \in Seq(Byte)
  BY LenProperties DEF FifoInv, TypeOK
<1>1. ASSUME NEW byte \in Byte, PushByte(byte)
      PROVE  FifoInv'
  <2>1. <<byte>> \in Seq(Byte)
    OBVIOUS
  <2>2. Physical \in Nat /\ Physical <= Physical
    OBVIOUS
  <2>3. Reserve(<<byte>>, Physical)
    BY <1>1 DEF PushByte
  <2> QED
    BY <2>1, <2>2, <2>3, ReserveInv
<1>2. ASSUME NEW span \in Span, PushBatch(span)
      PROVE  FifoInv'
  BY <1>2, SpanIsSeq, ReserveInv DEF PushBatch
<1>3. CASE RingPushLoad
  <2>1. PICK unseen \in 0..Len(held) :
           accepted' = Min(Physical - Min(Len(ring) + unseen, Physical), reserved)
    BY <1>3 DEF RingPushLoad
  <2>2. Len(ring) + unseen + reserved <= Physical
    BY <1>0 DEF FifoInv, InflightExact, InflightBounded
  <2>3. accepted' = reserved
    BY <1>0, <2>1, <2>2 DEF Min
  <2> QED
    BY <1>0, <1>3, <2>3
       DEF RingPushLoad, FifoInv, TypeOK, InflightExact, InflightBounded,
           GrantedPushFits, ConsumeNeverFails, ReservationOpen
<1>4. CASE RingPushPublish
  <2>1. accepted = reserved /\ accepted \in 0..Len(input)
    BY <1>0, <1>4 DEF RingPushPublish, FifoInv, GrantedPushFits, ReservationOpen
  <2>2. SubSeq(input, 1, accepted) \in Seq(Byte) /\ Len(SubSeq(input, 1, accepted)) = accepted
    BY <1>0, <2>1, SplitSeq
  <2>3. ring' \in Seq(Byte) /\ Len(ring') = Len(ring) + accepted
    BY <1>0, <1>4, <2>2, ConcatProperties DEF RingPushPublish
  <2>4. TypeOK' /\ ConsumeNeverFails'
    BY <1>0, <1>4, <2>1, <2>3 DEF RingPushPublish, FifoInv, TypeOK, ConsumeNeverFails
  <2>5. InflightExact' /\ InflightBounded'
    <3>1. inflight' = inflight /\ reserved' = reserved - accepted /\ held' = held
      BY <1>4 DEF RingPushPublish
    <3> QED
      BY <1>0, <2>1, <2>3, <3>1 DEF FifoInv, InflightExact, InflightBounded
  <2>6. GrantedPushFits' /\ ReservationOpen'
    BY <1>0, <1>4, <2>1 DEF RingPushPublish, GrantedPushFits, ReservationOpen
  <2> QED
    BY <2>4, <2>5, <2>6 DEF FifoInv
<1>5. CASE PushReturn
  BY <1>0, <1>5
     DEF PushReturn, FifoInv, TypeOK, InflightExact, InflightBounded,
         GrantedPushFits, ConsumeNeverFails, ReservationOpen
<1>6. ASSUME NEW n \in 1..Len(ring), Pop(n)
      PROVE  FifoInv'
  <2>1. /\ SubSeq(ring, 1, n) \in Seq(Byte) /\ Len(SubSeq(ring, 1, n)) = n
        /\ ring' \in Seq(Byte) /\ Len(ring') = Len(ring) - n
    BY <1>0, <1>6, SplitSeq DEF Pop
  <2>2. held' \in Seq(Byte) /\ Len(held') = Len(held) + n
    BY <1>0, <1>6, <2>1, ConcatProperties DEF Pop
  <2>3. TypeOK' /\ ConsumeNeverFails'
    BY <1>6, <2>1, <2>2 DEF Pop, FifoInv, TypeOK, ConsumeNeverFails
  <2>4. InflightExact' /\ InflightBounded'
    <3>1. inflight' = inflight /\ reserved' = reserved
      BY <1>6 DEF Pop
    <3> QED
      BY <1>0, <2>1, <2>2, <3>1 DEF FifoInv, InflightExact, InflightBounded
  <2>5. GrantedPushFits' /\ ReservationOpen'
    BY <1>6 DEF Pop, FifoInv, GrantedPushFits, ReservationOpen
  <2> QED
    BY <2>3, <2>4, <2>5 DEF FifoInv
<1>7. ASSUME NEW n \in 1..Len(held), Consume(n)
      PROVE  FifoInv'
  <2>1. held' \in Seq(Byte) /\ Len(held') = Len(held) - n
    BY <1>0, <1>7, SplitSeq DEF Consume
  <2>2. n <= inflight
    BY <1>0 DEF FifoInv, InflightExact
  <2>3. inflight' = inflight - n /\ failed' = failed
    BY <1>7, <2>2 DEF Consume
  <2>4. TypeOK' /\ ConsumeNeverFails'
    BY <1>0, <1>7, <2>1, <2>2, <2>3 DEF Consume, FifoInv, TypeOK, ConsumeNeverFails
  <2>5. InflightExact' /\ InflightBounded'
    <3>1. ring' = ring /\ reserved' = reserved
      BY <1>7 DEF Consume
    <3> QED
      BY <1>0, <2>1, <2>2, <2>3, <3>1 DEF FifoInv, InflightExact, InflightBounded
  <2>6. GrantedPushFits' /\ ReservationOpen'
    BY <1>7 DEF Consume, FifoInv, GrantedPushFits, ReservationOpen
  <2> QED
    BY <2>4, <2>5, <2>6 DEF FifoInv
<1>8. CASE Reset
  BY <1>0, <1>8, EmptySeq
     DEF Reset, FifoInv, TypeOK, InflightExact, InflightBounded,
         GrantedPushFits, ConsumeNeverFails, ReservationOpen
<1>9. CASE UNCHANGED vars
  BY <1>9
     DEF vars, FifoInv, TypeOK, InflightExact, InflightBounded,
         GrantedPushFits, ConsumeNeverFails, ReservationOpen
<1> QED
  BY <1>1, <1>2, <1>3, <1>4, <1>5, <1>6, <1>7, <1>8, <1>9 DEF Next

-----------------------------------------------------------------------------
(* The inductive invariant holds in every reachable state. *)
THEOREM FifoInvariant == Spec => []FifoInv
BY InitInv, NextInv, PTL DEF Spec

(* Every variable of the FIFO keeps its type: the unsigned in-flight count *)
(* never goes below zero.                                                  *)
THEOREM TypeCorrect == Spec => []TypeOK
<1>1. FifoInv => TypeOK
  BY DEF FifoInv
<1> QED
  BY <1>1, FifoInvariant, PTL

(* The in-flight count is the bytes reserved, queued and held, whatever    *)
(* the capacities and however the two threads interleave (Reserve,         *)
(* Release, Consume).                                                      *)
THEOREM InflightIsExact == Spec => []InflightExact
<1>1. FifoInv => InflightExact
  BY DEF FifoInv
<1> QED
  BY <1>1, FifoInvariant, PTL

(* The ring is never overrun (PushByte). *)
THEOREM InflightIsBounded == Spec => []InflightBounded
<1>1. FifoInv => InflightBounded
  BY DEF FifoInv
<1> QED
  BY <1>1, FifoInvariant, PTL

(* Bytes that were granted room always find it in the ring, also when the  *)
(* producer sees an old read position (PushByte, PushBatch).               *)
THEOREM GrantsAreKept == Spec => []GrantedPushFits
<1>1. FifoInv => GrantedPushFits
  BY DEF FifoInv
<1> QED
  BY <1>1, FifoInvariant, PTL

(* Consume never refuses what the decoder reports (Consume). *)
THEOREM ConsumeSucceeds == Spec => []ConsumeNeverFails
<1>1. FifoInv => ConsumeNeverFails
  BY DEF FifoInv
<1> QED
  BY <1>1, FifoInvariant, PTL

=============================================================================
