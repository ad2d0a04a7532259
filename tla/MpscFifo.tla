------------------------------ MODULE MpscFifo ------------------------------
(***************************************************************************)
(* What the readers and the RNIC thread rely on the request queue for:     *)
(* each node is handed over once, in the order in which the producers took *)
(* their place, and a node that was handed in is eventually handed out.    *)
(* A dequeue that returns NULL leaves the queue as it is, and may happen   *)
(* whatever the queue holds ("empty or a producer is mid-insert").         *)
(*                                                                         *)
(* MpscQueue implements this module; RdmaSweep uses it as its queue.       *)
(***************************************************************************)
EXTENDS Naturals, Sequences

CONSTANT Node       \* the nodes, one pre-allocated per reader thread

VARIABLES
  enq,              \* every node ever enqueued, in the order it took its place
  got               \* every node ever returned by the dequeue, in that order

fifoVars == <<enq, got>>

InitFifo ==
  /\ enq = <<>>
  /\ got = <<>>

\* mpsc_enqueue of a node that is not in use.
Enqueue(n) ==
  /\ \A i \in 1 .. Len(enq) : enq[i] # n
  /\ enq' = Append(enq, n)
  /\ got' = got

\* A dequeue that returns a node: the oldest one not yet returned.
Dequeue ==
  /\ Len(got) < Len(enq)
  /\ got' = Append(got, enq[Len(got) + 1])
  /\ enq' = enq

NextFifo ==
  \/ \E n \in Node : Enqueue(n)
  \/ Dequeue

SafeFifo == InitFifo /\ [][NextFifo]_fifoVars

=============================================================================
