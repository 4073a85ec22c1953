----------------------- MODULE MCPiu10Mp3AudioOut -----------------------
(***************************************************************************)
(* An instance of Piu10Mp3AudioOut for TLC: a byte of junk, a frame of one *)
(* format, then three of another.                                          *)
(***************************************************************************)
EXTENDS Piu10Mp3AudioOut

MCSong == <<"-", "a", "-", "-", "b", "-", "-", "b", "-", "-", "b", "-", "-">>
MCByte == 1..13

=============================================================================
