----------------------- MODULE Piu10Mp3AudioOut_proofs -----------------------
(***************************************************************************)
(* The decoder uses its FIFO as the FIFO's specification allows, so what   *)
(* DecoderInputFifo_proofs shows holds here too; on top of that, the song  *)
(* reaches the decoder unbroken.  Both hold for every song, every capacity *)
(* and every batch size.                                                   *)
(***************************************************************************)
EXTENDS Piu10Mp3AudioOut, DecoderInputFifo_proofs

(* s is the part of the song that starts at first. *)
Consecutive(s, first) == \A i \in 1..Len(s) : s[i] = first + i - 1

(* A guest outside its writes has no push open.  Until the bytes of a      *)
(* write are published the span starts at the guest's cursor, and the push *)
(* has something to publish.                                               *)
WriteMatchesPush ==
    /\ next \in Nat \ {0}
    /\ call = "none" => step = "idle"
    /\ step \in {"load", "copy"} =>
          /\ reserved # 0
          /\ call = "byte" => Len(input) = 1
          /\ Consecutive(input, next)

(* StreamUnbroken, told of the ring and of the held bytes apart. *)
PartsUnbroken ==
    ~dropped =>
        /\ Consecutive(ring, next - Len(ring))
        /\ Consecutive(held, next - Len(ring) - Len(held))

(* The inductive invariant. *)
Mp3Inv == FifoInv /\ WriteMatchesPush /\ PartsUnbroken

-----------------------------------------------------------------------------
(* Two parts of the song that meet make one. *)
LEMMA ConsecutiveConcat ==
    ASSUME NEW S, NEW s \in Seq(S), NEW t \in Seq(S), NEW first \in Int,
           Consecutive(s, first), Consecutive(t, first + Len(s))
    PROVE  Consecutive(s \o t, first)
<1>1. Len(s) \in Nat /\ Len(t) \in Nat
  BY LenProperties
<1>2. /\ Len(s \o t) = Len(s) + Len(t)
      /\ \A i \in 1..(Len(s) + Len(t)) :
            (s \o t)[i] = IF i <= Len(s) THEN s[i] ELSE t[i - Len(s)]
  BY ConcatProperties
<1>3. ASSUME NEW i \in 1..(Len(s) + Len(t))
      PROVE  (s \o t)[i] = first + i - 1
  <2>1. CASE i <= Len(s)
    BY <1>1, <1>2, <1>3, <2>1 DEF Consecutive
  <2>2. CASE i > Len(s)
    <3>1. i - Len(s) \in 1..Len(t)
      BY <1>1, <1>3, <2>2
    <3>2. t[i - Len(s)] = first + Len(s) + (i - Len(s)) - 1
      BY <3>1 DEF Consecutive
    <3>3. (s \o t)[i] = t[i - Len(s)]
      BY <1>1, <1>2, <1>3, <2>2
    <3> QED
      BY <1>1, <1>3, <3>2, <3>3
  <2> QED
    BY <1>1, <1>3, <2>1, <2>2
<1> QED
  BY <1>2, <1>3 DEF Consecutive

(* A part of the song split in two. *)
LEMMA ConsecutiveSplit ==
    ASSUME NEW S, NEW s \in Seq(S), NEW n \in 0..Len(s), NEW first \in Int,
           Consecutive(s, first)
    PROVE  /\ Consecutive(SubSeq(s, 1, n), first)
           /\ Consecutive(SubSeq(s, n + 1, Len(s)), first + n)
<1>1. Len(s) \in Nat /\ n \in Nat
  BY LenProperties
<1>2. \A i \in 1..Len(s) : s[i] \in S /\ s[i] = first + i - 1
  BY ElementOfSeq DEF Consecutive
<1>3. Consecutive(SubSeq(s, 1, n), first)
  <2>1. \A i \in 1..n : s[i] \in S
    BY <1>1, <1>2
  <2>2. \A i \in 1..(n - 1 + 1) : SubSeq(s, 1, n)[i] = s[1 + i - 1]
    BY <1>1, <2>1, SubSeqProperties
  <2>3. Len(SubSeq(s, 1, n)) = n
    BY SplitSeq
  <2>4. ASSUME NEW i \in 1..n
        PROVE  SubSeq(s, 1, n)[i] = first + i - 1
    BY <1>1, <1>2, <2>2, <2>4
  <2> QED
    BY <2>3, <2>4 DEF Consecutive
<1>4. Consecutive(SubSeq(s, n + 1, Len(s)), first + n)
  <2>1. \A i \in (n + 1)..Len(s) : s[i] \in S
    BY <1>1, <1>2
  <2>2. \A i \in 1..(Len(s) - (n + 1) + 1) :
           SubSeq(s, n + 1, Len(s))[i] = s[n + 1 + i - 1]
    BY <1>1, <2>1, SubSeqProperties
  <2>3. Len(SubSeq(s, n + 1, Len(s))) = Len(s) - n
    BY SplitSeq
  <2>4. ASSUME NEW i \in 1..(Len(s) - n)
        PROVE  SubSeq(s, n + 1, Len(s))[i] = first + n + i - 1
    <3>1. n + 1 + i - 1 \in 1..Len(s) /\ i \in 1..(Len(s) - (n + 1) + 1)
      BY <1>1, <2>4
    <3>2. SubSeq(s, n + 1, Len(s))[i] = s[n + 1 + i - 1]
      BY <2>2, <3>1
    <3>3. s[n + 1 + i - 1] = first + (n + 1 + i - 1) - 1
      BY <1>2, <3>1
    <3> QED
      BY <1>1, <2>4, <3>2, <3>3
  <2> QED
    BY <2>3, <2>4 DEF Consecutive
<1> QED
  BY <1>3, <1>4

(* The facts about types that every step uses. *)
LEMMA Mp3Types ==
    ASSUME Mp3Inv
    PROVE  /\ Len(ring) \in Nat /\ Len(held) \in Nat /\ Len(input) \in Nat
           /\ ring \in Seq(Byte) /\ held \in Seq(Byte) /\ input \in Seq(Byte)
           /\ inflight \in Nat /\ reserved \in Nat /\ accepted \in Nat
           /\ next \in Nat \ {0}
BY LenProperties DEF Mp3Inv, FifoInv, TypeOK, WriteMatchesPush

(* A span of the song from the cursor on is one the FIFO accepts. *)
LEMMA SongSpan ==
    ASSUME next \in Nat \ {0}, NEW n \in 1..MaxBatch, next + n - 1 <= Len(Song)
    PROVE  [i \in 1..n |-> next + i - 1] \in Span
<1>1. Len(Song) \in Nat /\ MaxBatch \in Nat
  BY Mp3Assumption, FifoAssumption, LenProperties
<1>2. \A i \in 1..n : next + i - 1 \in Byte
  BY <1>1, Mp3Assumption
<1>3. [i \in 1..n |-> next + i - 1] \in [1..n -> Byte]
  BY <1>2
<1> QED
  BY <1>3 DEF Span

(* Every step of the decoder is a step of the FIFO or leaves it alone. *)
LEMMA StepUsesFifo == Mp3Inv /\ [Mp3Next]_mp3Vars => [Next]_vars
<1> SUFFICES ASSUME Mp3Inv, [Mp3Next]_mp3Vars
             PROVE  [Next]_vars
  OBVIOUS
<1>1. CASE WriteByte
  <2>1. next \in Byte
    <3>1. Len(Song) \in Nat
      BY Mp3Assumption, LenProperties
    <3> QED
      BY <1>1, <3>1, Mp3Types, Mp3Assumption DEF WriteByte
  <2> QED
    BY <1>1, <2>1 DEF WriteByte, Next
<1>2. ASSUME NEW n \in 1..MaxBatch, WriteBytes(n)
      PROVE  [Next]_vars
  <2>1. [i \in 1..n |-> next + i - 1] \in Span
    BY <1>2, SongSpan, Mp3Types DEF WriteBytes
  <2> QED
    BY <1>2, <2>1 DEF WriteBytes, Next
<1>3. CASE WriteByteDropped \/ Close \/ WaitTimesOut \/ DevicePlays \/ Finished
  BY <1>3 DEF WriteByteDropped, Close, WaitTimesOut, DevicePlays, Finished, mp3Vars
<1>4. CASE InWrite
  BY <1>4 DEF InWrite, PushLoads, PushPublishes, WriteReturns, Next
<1>5. CASE RunTurn \/ RunAfter \/ RunBlocks \/ RunWakes \/ DecodeStops
  BY <1>5 DEF RunTurn, RunAfter, RunBlocks, RunWakes, DecodeStops
<1>6. CASE RunPop
  <2>1. CASE ring = <<>>
    BY <1>6, <2>1 DEF RunPop
  <2>2. CASE ring # <<>>
    <3> DEFINE count == Min(DrainBytes, Len(ring))
    <3>1. Pop(count)
      BY <1>6, <2>2 DEF RunPop
    <3>2. count \in 1..Len(ring)
      BY <3>1 DEF Pop
    <3> HIDE DEF count
    <3> QED
      BY <3>1, <3>2 DEF Next
  <2> QED
    BY <2>1, <2>2
<1>7. ASSUME NEW n, ConsumeDecoded(n)
      PROVE  [Next]_vars
  <2>1. Consume(n) /\ n \in 1..Len(held)
    BY <1>7 DEF ConsumeDecoded, Consume
  <2> QED
    BY <2>1 DEF Next
<1>8. CASE DecodeSkips
  BY <1>7, <1>8 DEF DecodeSkips
<1>9. ASSUME NEW n \in 0..FrameBytes, DecodeFrame(n)
      PROVE  [Next]_vars
  BY <1>7, <1>9 DEF DecodeFrame
<1>10. CASE UNCHANGED mp3Vars
  BY <1>10 DEF mp3Vars
<1> QED
  BY <1>1, <1>2, <1>3, <1>4, <1>5, <1>6, <1>8, <1>9, <1>10
     DEF Mp3Next, Write, Worker, Decode

-----------------------------------------------------------------------------
(* A write that starts puts the song from the cursor on into the span. *)
LEMMA WriteStarts ==
    ASSUME Mp3Inv, NEW n \in Nat \ {0}, NEW span, span = [i \in 1..n |-> next + i - 1],
           NEW limit \in Nat, Reserve(span, limit),
           UNCHANGED <<next, dropped>>, call' # "none", call' = "byte" => n = 1
    PROVE  WriteMatchesPush' /\ PartsUnbroken'
<1>1. Len(span) = n
  OBVIOUS
<1>2. Grant(Len(span), limit) # 0
  BY DEF Reserve
<1>3. reserved' # 0 /\ input' = span /\ ring' = ring /\ held' = held
  BY <1>2 DEF Reserve
<1>4. Consecutive(span, next)
  BY <1>1 DEF Consecutive
<1>5. WriteMatchesPush'
  BY <1>1, <1>3, <1>4, Mp3Types DEF WriteMatchesPush
<1>6. PartsUnbroken'
  BY <1>3 DEF Mp3Inv, PartsUnbroken
<1> QED
  BY <1>5, <1>6

(* A publish appends the part of the song that the cursor moves over. *)
LEMMA PublishExtends ==
    ASSUME Mp3Inv, PushPublishes
    PROVE  WriteMatchesPush' /\ PartsUnbroken'
<1> DEFINE taken == SubSeq(input, 1, accepted)
<1>1. /\ step = "copy" /\ step' = "return"
      /\ held' = held /\ dropped' = dropped /\ call' = call
      /\ ring' = ring \o taken
      /\ next' = next + (IF call = "byte" THEN 1 ELSE accepted)
  BY DEF PushPublishes, RingPushPublish
<1>2. /\ accepted \in 1..Len(input) /\ (call = "byte" => accepted = 1)
      /\ Consecutive(input, next) /\ call # "none"
  <2>1. accepted = reserved /\ reserved <= Len(input)
    BY <1>1 DEF Mp3Inv, FifoInv, GrantedPushFits, ReservationOpen
  <2>2. /\ reserved # 0 /\ (call = "byte" => Len(input) = 1)
        /\ Consecutive(input, next) /\ call # "none"
    BY <1>1 DEF Mp3Inv, WriteMatchesPush
  <2>3. reserved \in Nat /\ Len(input) \in Nat
    BY Mp3Types
  <2>4. accepted \in 1..Len(input)
    BY <2>1, <2>2, <2>3
  <2>5. ASSUME call = "byte"
        PROVE  accepted = 1
    <3>1. Len(input) = 1
      BY <2>2, <2>5
    <3> QED
      BY <2>4, <3>1
  <2> QED
    BY <2>2, <2>4, <2>5
<1>3. next' = next + accepted
  BY <1>1, <1>2
<1>4. WriteMatchesPush'
  <2>1. next' \in Nat \ {0}
    BY <1>2, <1>3, Mp3Types
  <2> QED
    BY <1>1, <1>2, <2>1 DEF WriteMatchesPush
<1>5. taken \in Seq(Byte) /\ Len(taken) = accepted /\ Consecutive(taken, next)
  <2>1. accepted \in 0..Len(input) /\ next \in Int /\ input \in Seq(Byte)
    BY <1>2, Mp3Types
  <2> QED
    BY <1>2, <2>1, SplitSeq, ConsecutiveSplit
<1> HIDE DEF taken
<1>6. Len(ring') = Len(ring) + accepted
  BY <1>1, <1>5, Mp3Types, ConcatProperties
<1>7. next' - Len(ring') = next - Len(ring)
  BY <1>2, <1>3, <1>6, Mp3Types
<1>8. ASSUME Consecutive(ring, next - Len(ring))
      PROVE  Consecutive(ring', next' - Len(ring'))
  <2>1. next - Len(ring) \in Int /\ next - Len(ring) + Len(ring) = next
    BY Mp3Types
  <2>2. Consecutive(ring \o taken, next - Len(ring))
    BY <1>5, <1>8, <2>1, Mp3Types, ConsecutiveConcat
  <2> QED
    BY <1>1, <1>7, <2>2
<1>9. PartsUnbroken'
  BY <1>1, <1>7, <1>8 DEF Mp3Inv, PartsUnbroken
<1> QED
  BY <1>4, <1>9

(* A pop moves the front of the ring behind the held bytes. *)
LEMMA PopMoves ==
    ASSUME Mp3Inv, NEW n \in 1..Len(ring), Pop(n), UNCHANGED guestVars
    PROVE  WriteMatchesPush' /\ PartsUnbroken'
<1> DEFINE front == SubSeq(ring, 1, n)
           rest  == SubSeq(ring, n + 1, Len(ring))
<1>1. /\ held' = held \o front /\ ring' = rest
      /\ UNCHANGED <<step, input, reserved, next, call, dropped>>
  BY DEF Pop, guestVars
<1>2. n \in 0..Len(ring) /\ n \in Nat
  BY Mp3Types
<1>3. /\ front \in Seq(Byte) /\ Len(front) = n
      /\ rest \in Seq(Byte) /\ Len(rest) = Len(ring) - n
  BY <1>2, Mp3Types, SplitSeq
<1>4. Consecutive(ring, next - Len(ring)) =>
         /\ Consecutive(front, next - Len(ring))
         /\ Consecutive(rest, next - Len(ring) + n)
  <2>1. next - Len(ring) \in Int
    BY Mp3Types
  <2> QED
    BY <1>2, <2>1, Mp3Types, ConsecutiveSplit
<1> HIDE DEF front, rest
<1>5. Len(held') = Len(held) + n /\ Len(ring') = Len(ring) - n
  BY <1>1, <1>3, Mp3Types, ConcatProperties
<1>6. /\ next' - Len(ring') = next - Len(ring) + n
      /\ next' - Len(ring') - Len(held') = next - Len(ring) - Len(held)
  BY <1>1, <1>2, <1>5, Mp3Types
<1>7. ASSUME ~dropped
      PROVE  /\ Consecutive(ring', next' - Len(ring'))
             /\ Consecutive(held', next' - Len(ring') - Len(held'))
  <2>1. /\ Consecutive(front, next - Len(ring))
        /\ Consecutive(rest, next - Len(ring) + n)
        /\ Consecutive(held, next - Len(ring) - Len(held))
    BY <1>4, <1>7 DEF Mp3Inv, PartsUnbroken
  <2>2. /\ next - Len(ring) - Len(held) \in Int
        /\ next - Len(ring) - Len(held) + Len(held) = next - Len(ring)
    BY Mp3Types
  <2>3. Consecutive(held \o front, next - Len(ring) - Len(held))
    BY <1>3, <2>1, <2>2, Mp3Types, ConsecutiveConcat
  <2> QED
    BY <1>1, <1>6, <2>1, <2>3
<1>8. WriteMatchesPush'
  BY <1>1 DEF Mp3Inv, WriteMatchesPush
<1> QED
  BY <1>1, <1>7, <1>8 DEF PartsUnbroken

(* Decoding drops the front of the held bytes. *)
LEMMA ConsumeDrops ==
    ASSUME Mp3Inv, NEW n \in 1..Len(held), Consume(n), UNCHANGED guestVars
    PROVE  WriteMatchesPush' /\ PartsUnbroken'
<1> DEFINE rest == SubSeq(held, n + 1, Len(held))
<1>1. held' = rest /\ UNCHANGED <<ring, step, input, reserved, next, call, dropped>>
  BY DEF Consume, guestVars
<1>2. n \in 0..Len(held) /\ n \in Nat
  BY Mp3Types
<1>3. rest \in Seq(Byte) /\ Len(rest) = Len(held) - n
  BY <1>2, Mp3Types, SplitSeq
<1>4. Consecutive(held, next - Len(ring) - Len(held)) =>
         Consecutive(rest, next - Len(ring) - Len(held) + n)
  <2>1. next - Len(ring) - Len(held) \in Int
    BY Mp3Types
  <2> QED
    BY <1>2, <2>1, Mp3Types, ConsecutiveSplit
<1> HIDE DEF rest
<1>5. next' - Len(ring') - Len(held') = next - Len(ring) - Len(held) + n
  BY <1>1, <1>2, <1>3, Mp3Types
<1>6. PartsUnbroken'
  BY <1>1, <1>4, <1>5 DEF Mp3Inv, PartsUnbroken
<1>7. WriteMatchesPush'
  BY <1>1 DEF Mp3Inv, WriteMatchesPush
<1> QED
  BY <1>6, <1>7

-----------------------------------------------------------------------------
(* The state Open leaves behind satisfies the invariant. *)
LEMMA Mp3InitInv == Mp3Init => Mp3Inv
<1> SUFFICES ASSUME Mp3Init
             PROVE  Mp3Inv
  OBVIOUS
<1>1. FifoInv
  BY InitInv DEF Mp3Init
<1>2. WriteMatchesPush
  BY DEF Mp3Init, Init, WriteMatchesPush
<1>3. Len(ring) = 0 /\ Len(held) = 0
  BY EmptySeq DEF Mp3Init, Init
<1>4. PartsUnbroken
  BY <1>3 DEF PartsUnbroken, Consecutive
<1> QED
  BY <1>1, <1>2, <1>4 DEF Mp3Inv

(* Every step keeps the invariant. *)
LEMMA Mp3NextInv == Mp3Inv /\ [Mp3Next]_mp3Vars => Mp3Inv'
<1> SUFFICES ASSUME Mp3Inv, [Mp3Next]_mp3Vars
             PROVE  Mp3Inv'
  OBVIOUS
<1>a. FifoInv'
  BY StepUsesFifo, NextInv DEF Mp3Inv
<1> SUFFICES WriteMatchesPush' /\ PartsUnbroken'
  BY <1>a DEF Mp3Inv
<1> USE FifoAssumption
<1>1. CASE WriteByte
  <2>1. <<next>> = [i \in 1..1 |-> next + i - 1]
    BY Mp3Types
  <2>2. Reserve(<<next>>, Physical) /\ UNCHANGED <<next, dropped>> /\ call' # "none"
    BY <1>1 DEF WriteByte, PushByte
  <2>3. Physical \in Nat /\ 1 \in Nat \ {0}
    OBVIOUS
  <2> QED
    BY <2>1, <2>2, <2>3, WriteStarts
<1>2. ASSUME NEW n \in 1..MaxBatch, WriteBytes(n)
      PROVE  WriteMatchesPush' /\ PartsUnbroken'
  <2>1. /\ Reserve([i \in 1..n |-> next + i - 1], Logical)
        /\ UNCHANGED <<next, dropped>> /\ call' = "batch"
    BY <1>2 DEF WriteBytes, PushBatch
  <2>2. n \in Nat \ {0} /\ Logical \in Nat
    OBVIOUS
  <2> QED
    BY <2>1, <2>2, WriteStarts
<1>3. CASE WriteByteDropped
  <2>1. /\ next' \in Nat \ {0} /\ dropped' = TRUE
        /\ call = "none" /\ UNCHANGED <<call, step>>
    BY <1>3, Mp3Types DEF WriteByteDropped, vars
  <2>2. step = "idle"
    BY <2>1 DEF Mp3Inv, WriteMatchesPush
  <2> QED
    BY <2>1, <2>2 DEF WriteMatchesPush, PartsUnbroken
<1>4. CASE PushLoads
  BY <1>4 DEF PushLoads, RingPushLoad, guestVars, Mp3Inv, WriteMatchesPush, PartsUnbroken
<1>5. CASE PushPublishes
  BY <1>5, PublishExtends
<1>6. CASE WriteReturns
  BY <1>6 DEF WriteReturns, PushReturn, Mp3Inv, WriteMatchesPush, PartsUnbroken
<1>7. CASE UNCHANGED <<vars, guestVars>>
  BY <1>7 DEF vars, guestVars, Mp3Inv, WriteMatchesPush, PartsUnbroken
<1>8. CASE Close \/ WaitTimesOut \/ DevicePlays \/ Finished \/ UNCHANGED mp3Vars
  BY <1>7, <1>8 DEF Close, WaitTimesOut, DevicePlays, Finished, mp3Vars
<1>9. CASE RunTurn \/ RunAfter \/ RunBlocks \/ RunWakes \/ DecodeStops
  BY <1>7, <1>9 DEF RunTurn, RunAfter, RunBlocks, RunWakes, DecodeStops
<1>10. CASE RunPop
  <2>1. CASE ring = <<>>
    BY <1>7, <1>10, <2>1 DEF RunPop
  <2>2. CASE ring # <<>>
    <3> DEFINE count == Min(DrainBytes, Len(ring))
    <3>1. Pop(count) /\ UNCHANGED guestVars
      BY <1>10, <2>2 DEF RunPop
    <3>2. count \in 1..Len(ring)
      BY <3>1 DEF Pop
    <3> HIDE DEF count
    <3> QED
      BY <3>1, <3>2, PopMoves
  <2> QED
    BY <2>1, <2>2
<1>11. ASSUME NEW n, ConsumeDecoded(n)
       PROVE  WriteMatchesPush' /\ PartsUnbroken'
  <2>1. n \in 1..Len(held) /\ Consume(n) /\ UNCHANGED guestVars
    BY <1>11 DEF ConsumeDecoded, Consume
  <2> QED
    BY <2>1, ConsumeDrops
<1>12. CASE DecodeSkips
  BY <1>11, <1>12 DEF DecodeSkips
<1>13. ASSUME NEW n \in 0..FrameBytes, DecodeFrame(n)
       PROVE  WriteMatchesPush' /\ PartsUnbroken'
  BY <1>11, <1>13 DEF DecodeFrame
<1> QED
  BY <1>1, <1>2, <1>3, <1>4, <1>5, <1>6, <1>8, <1>9, <1>10, <1>12, <1>13
     DEF Mp3Next, Write, InWrite, Worker, Decode

-----------------------------------------------------------------------------
(* The inductive invariant holds in every reachable state. *)
THEOREM Mp3Invariant == Mp3Spec => []Mp3Inv
BY Mp3InitInv, Mp3NextInv, PTL DEF Mp3Spec

(* The decoder and the guest together implement the FIFO's specification:  *)
(* every step of theirs is one the FIFO allows (WriteByte, WriteBytes,     *)
(* Run).                                                                   *)
THEOREM DecoderUsesFifo == Mp3Spec => UsesFifo
<1>1. Mp3Init => Init
  BY DEF Mp3Init
<1> QED
  BY <1>1, StepUsesFifo, Mp3Invariant, PTL DEF Mp3Spec, UsesFifo, Spec

(* So the decoder never shuts itself down over its own accounting: Consume *)
(* never fails (Run).                                                      *)
THEOREM DecoderNeverMiscounts == Mp3Spec => []ConsumeNeverFails
BY DecoderUsesFifo, ConsumeSucceeds, PTL DEF UsesFifo

(* Unless the guest writes into a full ring, what waits to be decoded is   *)
(* an unbroken piece of the song that ends at the guest's cursor           *)
(* (WriteByte, WriteBytes, Pop, Consume).                                  *)
THEOREM StreamIsUnbroken == Mp3Spec => []StreamUnbroken
<1>1. Mp3Inv => StreamUnbroken
  <2> SUFFICES ASSUME Mp3Inv, ~dropped
               PROVE  \A i \in 1..Len(held \o ring) :
                         (held \o ring)[i] = next - 1 - Len(held \o ring) + i
    BY DEF StreamUnbroken
  <2> DEFINE first == next - Len(ring) - Len(held)
  <2>1. /\ first \in Int /\ first + Len(held) = next - Len(ring)
        /\ held \in Seq(Byte) /\ ring \in Seq(Byte)
    BY Mp3Types
  <2>2. Consecutive(held, first) /\ Consecutive(ring, next - Len(ring))
    BY DEF Mp3Inv, PartsUnbroken
  <2> HIDE DEF first
  <2>3. Consecutive(held \o ring, first)
    BY <2>1, <2>2, ConsecutiveConcat
  <2>4. Len(held \o ring) = Len(held) + Len(ring)
    BY <2>1, ConcatProperties
  <2> DEFINE size == Len(held \o ring)
  <2>5. first = next - size /\ size \in Nat /\ next \in Nat
    BY <2>4, Mp3Types DEF first
  <2> HIDE DEF size
  <2>6. ASSUME NEW i \in 1..size
        PROVE  (held \o ring)[i] = next - 1 - size + i
    <3>1. (held \o ring)[i] = first + i - 1
      BY <2>3, <2>6 DEF Consecutive, size
    <3> QED
      BY <2>5, <3>1
  <2> QED
    BY <2>6 DEF size
<1> QED
  BY <1>1, Mp3Invariant, PTL

-----------------------------------------------------------------------------
(* How far the guest has come: a write in progress stays within the song,  *)
(* and what was received is behind the cursor.                             *)
CursorInv ==
    /\ next \in 1..(Len(Song) + 1) /\ received \in Nat /\ received < next
    /\ step \in {"load", "copy"} => next + Len(input) <= Len(Song) + 1

(* The places of the two threads and what they remember. *)
ThreadsOK ==
    /\ call \in {"none", "byte", "batch"} /\ wasEmpty \in BOOLEAN /\ dropped \in BOOLEAN
    /\ worker \in {"top", "pop", "decode", "after", "blocking", "waiting", "exited"}
    /\ got \in BOOLEAN /\ progressed \in BOOLEAN /\ streamFound \in BOOLEAN
    /\ asleep \in BOOLEAN /\ ready \in BOOLEAN /\ shutdown \in BOOLEAN

(* The device's queue stays below its target. *)
QueueOK == pcm \in 0..PcmTarget

(* The guest's cursor stays within the song. *)
LEMMA CursorNext == Mp3Inv /\ CursorInv /\ [Mp3Next]_mp3Vars => CursorInv'
<1> SUFFICES ASSUME Mp3Inv, CursorInv, [Mp3Next]_mp3Vars
             PROVE  CursorInv'
  OBVIOUS
<1>a. Len(Song) \in Nat /\ next \in Nat /\ received \in Nat /\ Len(input) \in Nat
  BY Mp3Types, Mp3Assumption, LenProperties DEF CursorInv
<1>b. CASE UNCHANGED <<next, received, step, input>>
  BY <1>b DEF CursorInv
<1>1. CASE WriteByte
  <2>1. /\ next <= Len(Song) /\ input' = <<next>> /\ UNCHANGED <<next, received>>
    BY <1>1 DEF WriteByte, PushByte, Reserve
  <2> QED
    BY <1>a, <2>1 DEF CursorInv
<1>2. ASSUME NEW n \in 1..MaxBatch, WriteBytes(n)
      PROVE  CursorInv'
  <2>1. /\ next + n - 1 <= Len(Song) /\ UNCHANGED <<next, received>>
        /\ input' = [i \in 1..n |-> next + i - 1]
    BY <1>2 DEF WriteBytes, PushBatch, Reserve
  <2>2. n \in Nat /\ Len(input') = n
    BY <2>1, FifoAssumption
  <2> QED
    BY <1>a, <2>1, <2>2 DEF CursorInv
<1>3. CASE WriteByteDropped
  <2>1. call = "none" /\ next <= Len(Song) /\ next' = next + 1 /\ UNCHANGED <<received, step>>
    BY <1>3 DEF WriteByteDropped, vars
  <2>2. step = "idle"
    BY <2>1 DEF Mp3Inv, WriteMatchesPush
  <2> QED
    BY <1>a, <2>1, <2>2 DEF CursorInv
<1>4. CASE PushLoads
  BY <1>4 DEF PushLoads, RingPushLoad, guestVars, CursorInv
<1>5. CASE PushPublishes
  <2>1. /\ step = "copy" /\ step' = "return"
        /\ next' = next + (IF call = "byte" THEN 1 ELSE accepted)
        /\ received' = received + accepted
    BY <1>5 DEF PushPublishes, RingPushPublish
  <2>2. accepted = reserved /\ reserved <= Len(input) /\ reserved # 0 /\ reserved \in Nat
    BY <2>1, Mp3Types DEF Mp3Inv, FifoInv, GrantedPushFits, ReservationOpen, WriteMatchesPush
  <2>3. call = "byte" => Len(input) = 1
    BY <2>1 DEF Mp3Inv, WriteMatchesPush
  <2>4. accepted \in 1..Len(input)
    BY <1>a, <2>2
  <2>b. next' = next + accepted
    <3>1. ASSUME call = "byte"
          PROVE  accepted = 1
      <4>1. Len(input) = 1
        BY <2>3, <3>1
      <4> QED
        BY <2>4, <4>1
    <3> QED
      BY <2>1, <3>1
  <2>5. next + Len(input) <= Len(Song) + 1 /\ received < next
    BY <2>1 DEF CursorInv
  <2> QED
    BY <1>a, <2>1, <2>4, <2>b, <2>5 DEF CursorInv
<1>6. CASE WriteReturns
  BY <1>6 DEF WriteReturns, PushReturn, CursorInv
<1>7. CASE Close \/ WaitTimesOut \/ DevicePlays \/ Finished \/ UNCHANGED mp3Vars
  BY <1>b, <1>7 DEF Close, WaitTimesOut, DevicePlays, Finished, mp3Vars, vars, guestVars
<1>8. CASE RunTurn \/ RunAfter \/ RunBlocks \/ RunWakes \/ DecodeStops
  BY <1>b, <1>8 DEF RunTurn, RunAfter, RunBlocks, RunWakes, DecodeStops, vars, guestVars
<1>9. CASE RunPop
  BY <1>b, <1>9 DEF RunPop, Pop, vars, guestVars
<1>10. ASSUME NEW n, ConsumeDecoded(n)
       PROVE  CursorInv'
  BY <1>b, <1>10 DEF ConsumeDecoded, Consume, guestVars
<1>11. CASE DecodeSkips
  BY <1>10, <1>11 DEF DecodeSkips
<1>12. ASSUME NEW n \in 0..FrameBytes, DecodeFrame(n)
       PROVE  CursorInv'
  BY <1>10, <1>12 DEF DecodeFrame
<1> QED
  BY <1>1, <1>2, <1>3, <1>4, <1>5, <1>6, <1>7, <1>8, <1>9, <1>11, <1>12
     DEF Mp3Next, Write, InWrite, Worker, Decode

(* The worker decodes only while less than the target is queued. *)
LEMMA QueueNext == QueueOK /\ [Mp3Next]_mp3Vars => QueueOK'
<1> SUFFICES ASSUME QueueOK, [Mp3Next]_mp3Vars
             PROVE  QueueOK'
  OBVIOUS
<1>a. PcmTarget \in Nat
  BY Mp3Assumption
<1>b. CASE UNCHANGED pcm
  BY <1>b DEF QueueOK
<1>1. CASE WriteByte \/ WriteByteDropped \/ Close \/ Finished \/ UNCHANGED mp3Vars
  BY <1>b, <1>1 DEF WriteByte, WriteByteDropped, Close, Finished, mp3Vars
<1>2. ASSUME NEW n \in 1..MaxBatch, WriteBytes(n)
      PROVE  QueueOK'
  BY <1>b, <1>2 DEF WriteBytes
<1>3. CASE InWrite
  BY <1>b, <1>3 DEF InWrite, PushLoads, PushPublishes, WriteReturns
<1>4. CASE RunTurn \/ RunAfter \/ RunBlocks \/ RunWakes \/ DecodeStops \/ RunPop
  BY <1>b, <1>4 DEF RunTurn, RunAfter, RunBlocks, RunWakes, DecodeStops, RunPop
<1>5. CASE DecodeSkips \/ WaitTimesOut
  BY <1>b, <1>5 DEF DecodeSkips, WaitTimesOut
<1>6. ASSUME NEW n \in 0..FrameBytes, DecodeFrame(n)
      PROVE  QueueOK'
  <2>1. pcm < PcmTarget /\ pcm' \in {pcm, pcm + 1}
    BY <1>6 DEF DecodeFrame, NeedsPcm
  <2> QED
    BY <1>a, <2>1 DEF QueueOK
<1>7. CASE DevicePlays
  <2>1. pcm > 0 /\ pcm' = pcm - 1
    BY <1>7 DEF DevicePlays
  <2> QED
    BY <1>a, <2>1 DEF QueueOK
<1> QED
  BY <1>1, <1>2, <1>3, <1>4, <1>5, <1>6, <1>7 DEF Mp3Next, Write, Worker, Decode

(* Each step leaves the threads at a place of the code. *)
LEMMA ThreadsNext == Mp3Inv /\ ThreadsOK /\ [Mp3Next]_mp3Vars => ThreadsOK'
<1> SUFFICES ASSUME Mp3Inv, ThreadsOK, [Mp3Next]_mp3Vars
             PROVE  ThreadsOK'
  OBVIOUS
<1>a. failed' \in BOOLEAN
  BY Mp3NextInv DEF Mp3Inv, FifoInv, TypeOK
<1> USE DEF ThreadsOK
<1>1. CASE WriteByte
  BY <1>1, Zenon DEF WriteByte, workerVars
<1>2. ASSUME NEW n \in 1..MaxBatch, WriteBytes(n)
      PROVE  ThreadsOK'
  BY <1>2, Zenon DEF WriteBytes, workerVars
<1>3. CASE WriteByteDropped
  BY <1>3, Zenon DEF WriteByteDropped, workerVars
<1>4. CASE PushLoads
  BY <1>4, ZenonT(60) DEF PushLoads, guestVars, workerVars
<1>5. CASE PushPublishes
  <2>1. UNCHANGED <<call, wasEmpty, dropped, workerVars, asleep, ready, shutdown>>
    BY <1>5 DEF PushPublishes
  <2> QED
    BY <2>1, ZenonT(60) DEF workerVars
<1>6. CASE WriteReturns
  <2>1. asleep' \in BOOLEAN
    BY <1>6, Zenon DEF WriteReturns
  <2> QED
    BY <1>6, <2>1, Zenon DEF WriteReturns, workerVars
<1>7. CASE Close \/ WaitTimesOut
  BY <1>7, ZenonT(60) DEF Close, WaitTimesOut, guestVars, workerVars
<1>8. CASE DevicePlays
  BY <1>8, ZenonT(60) DEF DevicePlays, guestVars, workerVars
<1>9. CASE Finished \/ UNCHANGED mp3Vars
  <2>1. UNCHANGED mp3Vars
    BY <1>9 DEF Finished
  <2> QED
    BY <2>1, ZenonT(60) DEF mp3Vars, guestVars, workerVars
<1>10. CASE RunTurn
  <2>1. worker' \in {"exited", "pop"}
    BY <1>10 DEF RunTurn, Goto
  <2> QED
    BY <1>10, <2>1, Zenon DEF RunTurn, guestVars
<1>11. CASE RunPop
  BY <1>11, Zenon DEF RunPop, Goto, guestVars
<1>12. CASE DecodeStops
  BY <1>12, Zenon DEF DecodeStops, Goto, guestVars
<1>13. CASE RunAfter
  <2>1. worker' \in {"top", "blocking"}
    BY <1>13 DEF RunAfter, Goto
  <2> QED
    BY <1>13, <2>1, Zenon DEF RunAfter, guestVars
<1>14. CASE RunBlocks \/ RunWakes
  BY <1>14, Zenon DEF RunBlocks, RunWakes, Goto, guestVars
<1>15. ASSUME NEW n, ConsumeDecoded(n), streamFound' \in BOOLEAN
       PROVE  ThreadsOK'
  <2>1. worker' \in {"after", "decode"}
    BY <1>15 DEF ConsumeDecoded, Goto
  <2>2. progressed' \in BOOLEAN /\ shutdown' \in BOOLEAN
    BY <1>a, <1>15, Zenon DEF ConsumeDecoded
  <2>3. UNCHANGED <<call, wasEmpty, dropped, got, asleep, ready>>
    BY <1>15 DEF ConsumeDecoded, guestVars
  <2> QED
    BY <1>15, <2>1, <2>2, <2>3, Zenon
<1>16. CASE DecodeSkips
  <2>1. streamFound' \in BOOLEAN
    BY <1>16, Zenon DEF DecodeSkips, IsHeader
  <2> QED
    BY <1>15, <1>16, <2>1 DEF DecodeSkips
<1>17. ASSUME NEW n \in 0..FrameBytes, DecodeFrame(n)
       PROVE  ThreadsOK'
  <2>1. streamFound' \in BOOLEAN
    BY <1>17, Zenon DEF DecodeFrame
  <2> QED
    BY <1>15, <1>17, <2>1 DEF DecodeFrame
<1> HIDE DEF ThreadsOK
<1> QED
  BY <1>1, <1>2, <1>3, <1>4, <1>5, <1>6, <1>7, <1>8, <1>9, <1>10, <1>11,
     <1>12, <1>13, <1>14, <1>16, <1>17 DEF Mp3Next, Write, InWrite, Worker, Decode

(* The decoder's state is well formed in every interleaving: the guest     *)
(* never runs past the song, and no more audio is queued than the target   *)
(* (WriteByte, WriteBytes, NeedsPcm).                                      *)
THEOREM DecoderTypes == Mp3Spec => []Mp3TypeOK
<1>1. Mp3Init => CursorInv /\ ThreadsOK /\ QueueOK
  <2> SUFFICES ASSUME Mp3Init
               PROVE  CursorInv /\ ThreadsOK /\ QueueOK
    OBVIOUS
  <2>1. Len(Song) \in Nat /\ PcmTarget \in Nat
    BY Mp3Assumption, LenProperties
  <2>2. CursorInv
    BY <2>1 DEF Mp3Init, Init, CursorInv
  <2>3. QueueOK
    BY <2>1 DEF Mp3Init, QueueOK
  <2>4. ThreadsOK
    BY Zenon DEF Mp3Init, ThreadsOK
  <2> QED
    BY <2>2, <2>3, <2>4
<1>2. /\ Mp3Inv /\ CursorInv /\ ThreadsOK /\ QueueOK /\ [Mp3Next]_mp3Vars
      => CursorInv' /\ ThreadsOK' /\ QueueOK'
  BY CursorNext, ThreadsNext, QueueNext
<1>3. Mp3Inv /\ CursorInv /\ ThreadsOK /\ QueueOK => Mp3TypeOK
  <2> SUFFICES ASSUME Mp3Inv, CursorInv, ThreadsOK, QueueOK
               PROVE  Mp3TypeOK
    OBVIOUS
  <2>1. received \in 0..Len(Song)
    <3>1. Len(Song) \in Nat
      BY Mp3Assumption, LenProperties
    <3> QED
      BY <3>1 DEF CursorInv
  <2> QED
    BY <2>1, Zenon DEF Mp3TypeOK, Mp3Inv, FifoInv, CursorInv, ThreadsOK, QueueOK
<1> QED
  BY <1>1, <1>2, <1>3, Mp3Invariant, PTL DEF Mp3Spec

=============================================================================
