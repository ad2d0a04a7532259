----------------------------- MODULE SerialLink -----------------------------
(***************************************************************************)
(* What the comments of test2-rdma3.c (lines 709-719) promise of the       *)
(* simulated link: it carries one transfer at a time, each for Service     *)
(* nanoseconds, a transfer begins when it is asked for or when the one     *)
(* before it ends, whichever is later, and time never goes back.           *)
(***************************************************************************)
EXTENDS Naturals, Sequences

CONSTANT Service                \* service_ns of one request

VARIABLES now, transfers        \* the clock, and <<from, to>> of each transfer

linkVars == <<now, transfers>>

InitLink == now \in Nat /\ transfers = <<>>

Later(a, b) == IF a > b THEN a ELSE b

\* When the link is free again.
FreeAt == IF transfers = <<>> THEN 0 ELSE transfers[Len(transfers)].to

Carry ==
  LET from == Later(now, FreeAt)
  IN /\ transfers' = Append(transfers, [from |-> from, to |-> from + Service])
     /\ UNCHANGED now

Pass ==
  /\ now' \in Nat /\ now' >= now
  /\ UNCHANGED transfers

NextLink == Carry \/ Pass

LinkSpec == InitLink /\ [][NextLink]_linkVars

\* Transfers do not overlap: the link carries one at a time.
OneAtATime ==
  \A i, j \in DOMAIN transfers : i < j => transfers[i].to <= transfers[j].from
=============================================================================
