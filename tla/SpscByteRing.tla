---------------------------- MODULE SpscByteRing ----------------------------
(***************************************************************************)
(* The lock-free byte ring between the guest thread, which pushes encoded  *)
(* audio, and the decoder thread, which pops it                            *)
(* (src/src/sound/spsc_byte_ring.cpp).  Each call is its three visible     *)
(* steps: read the other side's position, copy, publish its own position.  *)
(* The positions are unsigned 64-bit counters that run on and wrap; here   *)
(* they wrap at IndexModulus.                                              *)
(***************************************************************************)
EXTENDS Integers, Sequences, FiniteSets

CONSTANTS
    Byte,          \* the values a byte can have
    Capacity,      \* capacity_
    IndexModulus,  \* 2^64 in the code
    MaxChunk       \* bound: the longest span pushed or popped

(* The constructor refuses a capacity that is not a power of two; what the *)
(* index arithmetic needs is that the capacity divides the modulus.        *)
ASSUME RingAssumption ==
    /\ Capacity \in Nat /\ Capacity >= 2
    /\ IndexModulus \in Nat /\ IndexModulus > Capacity
    /\ IndexModulus % Capacity = 0
    /\ MaxChunk \in Nat
    /\ 0 \in Byte

VARIABLES
    bytes,      \* bytes_
    write,      \* write_position_
    read,       \* read_position_
    push,       \* the producer's call: its step, the span and how many bytes fit
    pop,        \* the consumer's call: its step, the bytes available and copied
    delivered   \* history: what the latest pop returned

vars == <<bytes, write, read, push, pop, delivered>>

Index == 0..(IndexModulus - 1)
Slot  == 0..(Capacity - 1)
Min(a, b) == IF a <= b THEN a ELSE b

(* The unsigned difference of two positions. *)
Distance(from, to) == (to - from) % IndexModulus

(* How far slot s lies behind the slot of position p. *)
Offset(s, p) == (s - p) % Capacity

NoPush == [step |-> "idle", input |-> <<>>, count |-> 0]
NoPop  == [step |-> "idle", count |-> 0, out |-> <<>>]

Chunk == UNION {[1..n -> Byte] : n \in 1..MaxChunk}

Init ==
    /\ bytes = [s \in Slot |-> 0]
    /\ write = 0 /\ read = 0
    /\ push = NoPush /\ pop = NoPop
    /\ delivered = <<>>

-----------------------------------------------------------------------------
(* Mutant: the full test lets one byte too many in. *)
AvailableOneTooMany == Capacity + 1 - Min(Distance(read, write), Capacity)

(* The room the producer sees. *)
Available == Capacity - Min(Distance(read, write), Capacity)

(* Push reads the consumer's position. *)
PushLoad(input) ==
    /\ push.step = "idle"
    /\ push' = [step |-> "copy", input |-> input, count |-> Min(Available, Len(input))]
    /\ UNCHANGED <<bytes, write, read, pop, delivered>>

(* Push copies the bytes, around the end of the array where it must. *)
PushCopy ==
    /\ push.step = "copy"
    /\ bytes' = [s \in Slot |-> IF Offset(s, write) < push.count
                                  THEN push.input[Offset(s, write) + 1]
                                  ELSE bytes[s]]
    /\ push' = [push EXCEPT !.step = "publish"]
    /\ UNCHANGED <<write, read, pop, delivered>>

(* Push publishes its position. *)
PushPublish ==
    /\ push.step = "publish"
    /\ write' = (write + push.count) % IndexModulus
    /\ push' = NoPush
    /\ UNCHANGED <<bytes, read, pop, delivered>>

(* Pop reads the producer's position. *)
PopLoad(want) ==
    /\ pop.step = "idle"
    /\ pop' = [step |-> "copy", count |-> Min(Distance(read, write), want), out |-> <<>>]
    /\ UNCHANGED <<bytes, write, read, push, delivered>>

(* Mutant: the second copy, from the start of the array, is left out: the  *)
(* span reads on past the last slot.                                       *)
PopCopyUnwrapped ==
    /\ pop.step = "copy"
    /\ pop' = [pop EXCEPT
                 !.step = "publish",
                 !.out = [i \in 1..pop.count |-> bytes[Min((read % Capacity) + i - 1, Capacity - 1)]]]
    /\ UNCHANGED <<bytes, write, read, push, delivered>>

PopCopy ==
    /\ pop.step = "copy"
    /\ pop' = [pop EXCEPT !.step = "publish",
                          !.out = [i \in 1..pop.count |-> bytes[(read + i - 1) % Capacity]]]
    /\ UNCHANGED <<bytes, write, read, push, delivered>>

PopPublish ==
    /\ pop.step = "publish"
    /\ read' = (read + pop.count) % IndexModulus
    /\ delivered' = pop.out
    /\ pop' = NoPop
    /\ UNCHANGED <<bytes, write, push>>

(* Reset, called only while neither side is inside a call. *)
Reset ==
    /\ push.step = "idle" /\ pop.step = "idle"
    /\ read' = 0 /\ write' = 0
    /\ UNCHANGED <<bytes, push, pop, delivered>>

Next ==
    \/ \E input \in Chunk : PushLoad(input)
    \/ PushCopy \/ PushPublish
    \/ \E want \in 1..MaxChunk : PopLoad(want)
    \/ PopCopy \/ PopPublish
    \/ Reset

Spec == Init /\ [][Next]_vars

-----------------------------------------------------------------------------
(* Properties. *)

(* The positions stay inside their width, and no call moves more bytes     *)
(* than its span holds (Push, Pop).                                        *)
TypeOK ==
    /\ bytes \in [Slot -> Byte]
    /\ write \in Index /\ read \in Index
    /\ push \in [step : {"idle", "copy", "publish"}, input : Seq(Byte), count : 0..MaxChunk]
    /\ pop \in [step : {"idle", "copy", "publish"}, count : 0..MaxChunk, out : Seq(Byte)]
    /\ push.count <= Len(push.input)

(* The bytes queued, oldest first. *)
Contents == [i \in 1..Distance(read, write) |-> bytes[(read + i - 1) % Capacity]]

(* The producer never writes a slot that the consumer may be reading, nor  *)
(* one that holds a byte not yet popped, also while both are in the middle *)
(* of a call and the positions wrap: the plain copies do not race (Push,   *)
(* Pop).                                                                   *)
CopiesDoNotOverlap ==
    push.step \in {"copy", "publish"} =>
        {s \in Slot : Offset(s, write) < push.count}
            \cap {s \in Slot : Offset(s, read) < Distance(read, write)} = {}

Abstract == INSTANCE BoundedByteQueue WITH queue <- Contents

(* The ring is a bounded FIFO queue of bytes to its two threads (Push,     *)
(* Pop): what is popped is what was pushed, in order, whole and once.      *)
ImplementsQueue == Abstract!Spec

=============================================================================
