-------------------------- MODULE MCAccessPatterns --------------------------
(* The code's sizes of int and register; blocks below, at, between and above   *)
(* a register, one that does not divide the partition and one larger than it.  *)
EXTENDS AccessPatterns
=============================================================================
