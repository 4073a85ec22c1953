-------------------------- MODULE DecoderInputFifo --------------------------
(***************************************************************************)
(* The encoded-audio FIFO (src/src/sound/decoder_input_fifo.cpp): a byte   *)
(* ring with a count of the bytes in flight, that is reserved by the       *)
(* producer, in the ring, or taken by the decoder and not decoded yet.     *)
(* The guest is told there is demand while that count is below the logical *)
(* capacity of the hardware's FIFO; the ring below it is larger.  One      *)
(* producer (the guest thread) and one consumer (the decoder thread).      *)
(***************************************************************************)
EXTENDS Naturals, Sequences

CONSTANTS
    Byte,
    Logical,   \* logical_capacity_
    Physical,  \* physical_capacity_, the ring's capacity
    MaxBatch   \* bound: the longest span given to PushBatch

(* The constructor's test. *)
ASSUME FifoAssumption ==
    /\ Logical \in Nat /\ Physical \in Nat
    /\ 0 < Logical /\ Logical <= Physical
    /\ MaxBatch \in Nat

VARIABLES
    ring,      \* ring_: the bytes pushed and not popped
    inflight,  \* inflight_
    held,      \* the bytes the decoder popped and has not consumed
    step,      \* the producer's place in PushByte or PushBatch
    input,     \* the span it pushes
    reserved,  \* what Reserve granted and the ring has not taken
    accepted,  \* what the ring's Push decided to take
    failed     \* Consume has returned false

vars == <<ring, inflight, held, step, input, reserved, accepted, failed>>

Min(a, b) == IF a <= b THEN a ELSE b

Span == UNION {[1..n -> Byte] : n \in 1..MaxBatch}

Init ==
    /\ ring = <<>> /\ inflight = 0 /\ held = <<>>
    /\ step = "idle" /\ input = <<>> /\ reserved = 0 /\ accepted = 0
    /\ failed = FALSE

-----------------------------------------------------------------------------
(* Mutant: the limit is tested, but the grant is not cut down to it. *)
GrantUncut(requested, limit) == IF inflight < limit THEN requested ELSE 0

(* What Reserve grants. *)
Grant(requested, limit) ==
    IF inflight < limit THEN Min(requested, limit - inflight) ELSE 0

(* Reserve succeeds: one compare-and-swap. *)
Reserve(span, limit) ==
    /\ step = "idle"
    /\ Grant(Len(span), limit) # 0
    /\ inflight' = inflight + Grant(Len(span), limit)
    /\ reserved' = Grant(Len(span), limit)
    /\ input' = span
    /\ step' = "load"
    /\ UNCHANGED <<ring, held, accepted, failed>>

(* A byte from the port may use the whole ring. *)
PushByte(byte) == Reserve(<<byte>>, Physical)

(* A batch stays below the logical capacity. *)
PushBatch(span) == Reserve(span, Logical)

(* The ring's Push reads the consumer's position.  A pop is sure to be     *)
(* visible once its bytes were consumed, since Reserve synchronises with   *)
(* Consume on the in-flight count; bytes only held may still look unread.  *)
RingPushLoad ==
    /\ step = "load"
    /\ \E unseen \in 0..Len(held) :
          LET used == Len(ring) + unseen IN
          accepted' = Min(Physical - Min(used, Physical), reserved)
    /\ step' = "copy"
    /\ UNCHANGED <<ring, inflight, held, input, reserved, failed>>

(* It publishes the bytes it took. *)
RingPushPublish ==
    /\ step = "copy"
    /\ ring' = ring \o SubSeq(input, 1, accepted)
    /\ reserved' = reserved - accepted
    /\ step' = "return"
    /\ UNCHANGED <<inflight, held, input, accepted, failed>>

(* The push returns; Release gives back what the ring refused, if it did. *)
PushReturn ==
    /\ step = "return"
    /\ inflight' = inflight - reserved
    /\ reserved' = 0
    /\ step' = "idle"
    /\ UNCHANGED <<ring, held, input, accepted, failed>>

(* Mutant: popping already counts as consuming. *)
PopCounts(n) ==
    /\ n \in 1..Len(ring)
    /\ held' = held \o SubSeq(ring, 1, n)
    /\ ring' = SubSeq(ring, n + 1, Len(ring))
    /\ inflight' = inflight - n
    /\ UNCHANGED <<step, input, reserved, accepted, failed>>

(* Pop moves bytes to the decoder; they stay in flight. *)
Pop(n) ==
    /\ n \in 1..Len(ring)
    /\ held' = held \o SubSeq(ring, 1, n)
    /\ ring' = SubSeq(ring, n + 1, Len(ring))
    /\ UNCHANGED <<inflight, step, input, reserved, accepted, failed>>

(* Consume takes n decoded bytes off the count, or fails. *)
Consume(n) ==
    /\ n \in 1..Len(held)
    /\ held' = SubSeq(held, n + 1, Len(held))
    /\ IF n <= inflight
         THEN inflight' = inflight - n /\ UNCHANGED failed
         ELSE failed' = TRUE /\ UNCHANGED inflight
    /\ UNCHANGED <<ring, step, input, reserved, accepted>>

(* Reset, called while neither thread uses the FIFO. *)
Reset ==
    /\ step = "idle"
    /\ ring' = <<>> /\ inflight' = 0 /\ held' = <<>>
    /\ UNCHANGED <<step, input, reserved, accepted, failed>>

Next ==
    \/ \E byte \in Byte : PushByte(byte)
    \/ \E span \in Span : PushBatch(span)
    \/ RingPushLoad \/ RingPushPublish \/ PushReturn
    \/ \E n \in 1..Len(ring) : Pop(n)
    \/ \E n \in 1..Len(held) : Consume(n)
    \/ Reset

Spec == Init /\ [][Next]_vars

-----------------------------------------------------------------------------
(* Properties. *)

(* The FIFO's state stays well formed: the unsigned in-flight count never  *)
(* goes below zero (Release, Consume).                                     *)
TypeOK ==
    /\ ring \in Seq(Byte) /\ held \in Seq(Byte) /\ input \in Seq(Byte)
    /\ inflight \in Nat /\ reserved \in Nat /\ accepted \in Nat
    /\ step \in {"idle", "load", "copy", "return"}
    /\ failed \in BOOLEAN

(* The count is exactly the bytes somebody still owns: reserved, in the    *)
(* ring, or held by the decoder (Reserve, Release, Consume).               *)
InflightExact == inflight = reserved + Len(ring) + Len(held)

(* The count never exceeds the ring, so the ring never overflows, and a    *)
(* byte-wise guest that ignores demand cannot push past it (PushByte).     *)
InflightBounded == inflight <= Physical

(* A reservation that was granted always fits: the ring's Push never comes *)
(* up short, although it may see an old read position (PushByte,           *)
(* PushBatch), so Release never has a byte.                                *)
GrantedPushFits ==
    /\ step = "copy" => accepted = reserved
    /\ step = "return" => reserved = 0

(* Consume never fails, so the decoder never shuts itself down over its    *)
(* own accounting (Piu10Mp3AudioOut::Run).                                 *)
ConsumeNeverFails == ~failed

=============================================================================
