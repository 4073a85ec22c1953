--------------------------- MODULE FifoExecution ---------------------------
(***************************************************************************)
(* What a command channel promises when the order of submission is kept:   *)
(* commands are accepted one at a time and run one at a time, each once,   *)
(* in the order in which they were accepted.                               *)
(***************************************************************************)
EXTENDS Naturals, Sequences

CONSTANT Command

VARIABLES accepted, executed

Init == accepted = <<>> /\ executed = <<>>

Accept ==
    /\ \E c \in Command : accepted' = Append(accepted, c)
    /\ UNCHANGED executed

Execute ==
    /\ Len(executed) < Len(accepted)
    /\ executed' = Append(executed, accepted[Len(executed) + 1])
    /\ UNCHANGED accepted

Next == Accept \/ Execute

Spec == Init /\ [][Next]_<<accepted, executed>>

=============================================================================
