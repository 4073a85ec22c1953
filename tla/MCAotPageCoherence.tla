------------------------- MODULE MCAotPageCoherence -------------------------
(* Two pages: an instruction in the first, one across the boundary that    *)
(* shares its cell, and one in the rest of the second page.                *)
EXTENDS AotPageCoherence, TLC

MCPageOf == 0 :> 0 @@ 1 :> 1 @@ 2 :> 1
MCCovers == "in0" :> {0} @@ "across" :> {0, 1} @@ "in1" :> {2}
MCHome   == "in0" :> 0 @@ "across" :> 0 @@ "in1" :> 1

(* What follows an instruction is translated with it, as far as it goes. *)
MCImages == {{"in0"}, {"across"}, {"in1"}, {"in0", "across"}, {"across", "in1"}, Instrs}

(* A store of one cell or two. *)
MCRanges == {{c} : c \in Cells} \cup {{0, 1}}

(* The same instruction may be long in one generation and short in the     *)
(* next.                                                                   *)
MCLong == [g \in Generations |-> IF g = 2 THEN {"across"} ELSE {"across", "in1"}]

(* A service writes within a page or over both. *)
MCHleRanges == {{c} : c \in Cells} \cup {{1, 2}, {0, 1}}
=============================================================================
