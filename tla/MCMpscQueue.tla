---------------------------- MODULE MCMpscQueue -----------------------------
(* Three readers: a node at the head, a second one mid-insert behind it, and *)
(* a third one that gets in between the tail check and the stub's exchange.  *)
EXTENDS MpscQueue
=============================================================================
