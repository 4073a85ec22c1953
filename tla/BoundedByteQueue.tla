-------------------------- MODULE BoundedByteQueue --------------------------
(***************************************************************************)
(* What the byte ring promises its two threads: a first-in first-out queue *)
(* of at most Capacity bytes.  A push appends a prefix of what it was      *)
(* given, a pop hands over a prefix of what is queued.                     *)
(***************************************************************************)
EXTENDS Naturals, Sequences

CONSTANTS Byte, Capacity, MaxChunk

VARIABLES queue, delivered   \* delivered: the bytes the latest pop returned

Init == queue = <<>> /\ delivered = <<>>

Push ==
    \E n \in 1..MaxChunk : \E s \in [1..n -> Byte] :
        /\ Len(queue) + n <= Capacity
        /\ queue' = queue \o s
        /\ UNCHANGED delivered

Pop ==
    \E n \in 0..Len(queue) :
        /\ n <= MaxChunk
        /\ delivered' = SubSeq(queue, 1, n)
        /\ queue' = SubSeq(queue, n + 1, Len(queue))

Reset == queue' = <<>> /\ UNCHANGED delivered

Spec == Init /\ [][Push \/ Pop \/ Reset]_<<queue, delivered>>

=============================================================================
