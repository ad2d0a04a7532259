----------------------------- MODULE MpscQueue ------------------------------
(***************************************************************************)
(* The Vyukov multi-producer single-consumer queue through which the       *)
(* reader threads hand their requests to the RNIC thread                   *)
(* (custom-test/test2-rdma-fin.c, mpsc_init, mpsc_enqueue, mpsc_dequeue).  *)
(*                                                                         *)
(* One action is one access to shared memory: the three stores of an       *)
(* enqueue, and the loads of a dequeue that other threads can change the   *)
(* outcome of.  The local `head` of mpsc_dequeue equals q->head from the   *)
(* first load to the pop, and only the consumer writes q->head, so both    *)
(* are the variable head.                                                  *)
(***************************************************************************)
EXTENDS Integers, Sequences

CONSTANTS
  Node,             \* the readers' nodes; each reader enqueues its own, once
  Stub,             \* the sentinel embedded in the queue
  NULL

Cell == Node \cup {Stub}

ASSUME CellAssumption ==
  /\ Stub \notin Node
  /\ NULL \notin Cell

VARIABLES
  next,             \* next[c]: the link of cell c
  head,             \* consumer end
  tail,             \* producers exchange themselves in here
  enqpc,            \* enqpc[c]: where the mpsc_enqueue of cell c is
  prev,             \* prev[c]: the prev_tail that call holds
  deqpc,            \* where the consumer's mpsc_dequeue is
  enq,              \* history: nodes in the order of their exchange on tail
  got,              \* history: nodes in the order the dequeue returned them
  stubAt            \* history: the nodes exchanged before the stub's last
                    \* exchange; NotIn while the stub is not in the list

vars == <<next, head, tail, enqpc, prev, deqpc, enq, got, stubAt>>

NotIn == -1

Init ==
  /\ next = [c \in Cell |-> NULL]
  /\ head = Stub
  /\ tail = Stub
  /\ enqpc = [c \in Cell |-> IF c = Stub THEN "out" ELSE "store"]
  /\ prev = [c \in Cell |-> NULL]
  /\ deqpc = "poll"
  /\ enq = <<>>
  /\ got = <<>>
  /\ stubAt = 0

-----------------------------------------------------------------------------
(* mpsc_enqueue, run by a reader on its node and by the consumer on the stub *)

\* The node takes a NULL link before it becomes visible.
StoreNull(c) ==
  /\ enqpc[c] = "store"
  /\ next' = [next EXCEPT ![c] = NULL]
  /\ enqpc' = [enqpc EXCEPT ![c] = "xchg"]
  /\ UNCHANGED <<head, tail, prev, deqpc, enq, got, stubAt>>

\* The exchange gives the node its place; the list is broken behind it until
\* the link is stored.
ExchangeTail(c) ==
  /\ enqpc[c] = "xchg"
  /\ prev' = [prev EXCEPT ![c] = tail]
  /\ tail' = c
  /\ enqpc' = [enqpc EXCEPT ![c] = "link"]
  /\ IF c = Stub
     THEN stubAt' = Len(enq) /\ enq' = enq
     ELSE enq' = Append(enq, c) /\ stubAt' = stubAt
  /\ UNCHANGED <<next, head, deqpc, got>>

\* The link makes it reachable; the consumer goes on where it called from.
LinkPrev(c) ==
  /\ enqpc[c] = "link"
  /\ next' = [next EXCEPT ![prev[c]] = c]
  /\ enqpc' = [enqpc EXCEPT ![c] = IF c = Stub THEN "out" ELSE "done"]
  /\ deqpc' = IF c = Stub THEN "last" ELSE deqpc
  /\ UNCHANGED <<head, tail, prev, enq, got, stubAt>>

-----------------------------------------------------------------------------
(* mpsc_dequeue *)

\* Mutant: the call returns the cell after the head.
PopHeadReturnsNext ==
  /\ head' = next[head]
  /\ got' = Append(got, next[head])
  /\ deqpc' = "poll"
  /\ UNCHANGED <<next, tail, enqpc, prev, enq, stubAt>>

\* The consumer returns the node at the head and moves the head past it.
PopHead ==
  /\ head' = next[head]
  /\ got' = Append(got, head)
  /\ deqpc' = "poll"
  /\ UNCHANGED <<next, tail, enqpc, prev, enq, stubAt>>

\* Returns NULL: "queue is empty".
PollEmpty ==
  /\ deqpc = "poll"
  /\ head = Stub
  /\ next[head] = NULL
  /\ UNCHANGED vars

\* The stub is at the head: step over it, which takes it out of the list.
SkipStub ==
  /\ deqpc = "poll"
  /\ head = Stub
  /\ next[head] # NULL
  /\ head' = next[head]
  /\ deqpc' = "skip"
  /\ stubAt' = NotIn
  /\ UNCHANGED <<next, tail, enqpc, prev, enq, got>>

\* The head is a node: it can be returned at once if it has a successor.
AtNode ==
  /\ deqpc = "skip" \/ (deqpc = "poll" /\ head # Stub)
  /\ IF next[head] # NULL
     THEN PopHead
     ELSE /\ deqpc' = "tail"
          /\ UNCHANGED <<next, head, tail, enqpc, prev, enq, got, stubAt>>

\* Mutant: the stub is enqueued without looking at the tail.
CheckTailAlwaysRearms ==
  /\ deqpc = "tail"
  /\ deqpc' = "rearm"
  /\ enqpc' = [enqpc EXCEPT ![Stub] = "store"]
  /\ UNCHANGED <<next, head, tail, prev, enq, got, stubAt>>

\* Mutant: the last node is returned without giving it a successor.
CheckTailPops ==
  /\ deqpc = "tail"
  /\ head = tail
  /\ head' = Stub
  /\ got' = Append(got, head)
  /\ deqpc' = "poll"
  /\ UNCHANGED <<next, tail, enqpc, prev, enq, stubAt>>

\* Mutant: the dequeue of test2-rdma.c, which never enqueues the stub again.
CheckTailNeverRearms ==
  /\ deqpc = "tail"
  /\ deqpc' = "poll"
  /\ UNCHANGED <<next, head, tail, enqpc, prev, enq, got, stubAt>>

\* It looks like the last one: return NULL if a producer is mid-insert behind
\* it, else call mpsc_enqueue on the stub so that it gets a successor.
CheckTail ==
  /\ deqpc = "tail"
  /\ IF head # tail
     THEN deqpc' = "poll" /\ enqpc' = enqpc
     ELSE deqpc' = "rearm" /\ enqpc' = [enqpc EXCEPT ![Stub] = "store"]
  /\ UNCHANGED <<next, head, tail, prev, enq, got, stubAt>>

\* With the stub enqueued, the last node can be returned, unless a producer
\* exchanged itself in before the stub and has not linked yet.
PopLast ==
  /\ deqpc = "last"
  /\ IF next[head] # NULL
     THEN PopHead
     ELSE /\ deqpc' = "poll"
          /\ UNCHANGED <<next, head, tail, enqpc, prev, enq, got, stubAt>>

EnqueueStep(c) == StoreNull(c) \/ ExchangeTail(c) \/ LinkPrev(c)

DequeueStep ==
  PollEmpty \/ SkipStub \/ AtNode \/ CheckTail \/ EnqueueStep(Stub) \/ PopLast

Next ==
  \/ \E n \in Node : EnqueueStep(n)
  \/ DequeueStep

Spec == Init /\ [][Next]_vars

\* A reader need not exist or reach its enqueue, but a call that has started
\* is finished, and rnic_thread polls until it has what it waits for.
Fairness ==
  /\ \A n \in Node : WF_vars(ExchangeTail(n) \/ LinkPrev(n))
  /\ WF_vars(DequeueStep)

FairSpec == Spec /\ Fairness

-----------------------------------------------------------------------------
(* Properties *)

\* Type invariant.
TypeOK ==
  /\ next \in [Cell -> Cell \cup {NULL}]
  /\ head \in Cell
  /\ tail \in Cell
  /\ enqpc \in [Cell -> {"out", "store", "xchg", "link", "done"}]
  /\ prev \in [Cell -> Cell \cup {NULL}]
  /\ deqpc \in {"poll", "skip", "tail", "rearm", "last"}
  /\ enq \in Seq(Node)
  /\ got \in Seq(Node)
  /\ stubAt \in Nat \cup {NotIn}

\* The list from head to tail is: the nodes of enq that were not returned, in
\* order, with the stub after the first stubAt nodes of enq when it is in it.
Popped == Len(got)
Last == Len(enq)
HeadCell == IF stubAt = Popped THEN Stub ELSE enq[Popped + 1]
TailCell == IF stubAt = Last THEN Stub ELSE enq[Last]
StubSuccessor == IF stubAt = Last THEN NULL ELSE enq[stubAt + 1]
Successor(i) ==
  IF stubAt = i THEN Stub ELSE IF i = Last THEN NULL ELSE enq[i + 1]

\* A cell's link is its successor, or NULL while the enqueue of the successor
\* is between its exchange and its link.
Linked(c, succ) ==
  IF succ = NULL
  THEN next[c] = NULL
  ELSE IF enqpc[succ] = "link" /\ prev[succ] = c
       THEN next[c] = NULL
       ELSE next[c] = succ

\* The order of exchanges is the order of returns, and no node is in it twice.
OrderInv ==
  /\ Popped <= Last
  /\ \A i \in 1 .. Popped : got[i] = enq[i]
  /\ \A i, j \in 1 .. Last : enq[i] = enq[j] => i = j
  /\ \A n \in Node :
       enqpc[n] \in {"link", "done"} <=> \E i \in 1 .. Last : enq[i] = n

\* The list is never empty, and head and tail are its ends.
EndsInv ==
  /\ stubAt # NotIn => stubAt \in Popped .. Last
  /\ stubAt = NotIn => Popped < Last
  /\ head = HeadCell
  /\ tail = TailCell

\* No link is lost or points out of order, and a cell has none as it enters.
LinksInv ==
  /\ \A c \in Cell : enqpc[c] = "xchg" => next[c] = NULL
  /\ stubAt # NotIn => Linked(Stub, StubSuccessor)
  /\ \A i \in Popped + 1 .. Last : Linked(enq[i], Successor(i))

\* An enqueue that has yet to link holds the cell that precedes its own, and
\* that cell is still in the list.
PendingInv ==
  /\ \A i \in 1 .. Last : enqpc[enq[i]] = "link" =>
       /\ i > Popped
       /\ IF stubAt = i - 1
          THEN prev[enq[i]] = Stub
          ELSE i - 1 > Popped /\ prev[enq[i]] = enq[i - 1]
  /\ enqpc[Stub] = "link" => stubAt > Popped /\ prev[Stub] = enq[stubAt]

\* The stub is enqueued only by a dequeue that found it out of the list.
StubInv ==
  /\ enqpc[Stub] \in {"out", "store", "xchg", "link"}
  /\ deqpc = "rearm" <=> enqpc[Stub] # "out"
  /\ enqpc[Stub] \in {"store", "xchg"} => stubAt = NotIn
  /\ deqpc # "poll" => head # Stub

\* Whatever the interleaving, the cells form one list that holds exactly the
\* nodes exchanged in and not yet returned, in order, and the stub at most
\* once: no enqueue's link is lost to mpsc_dequeue re-arming the stub.
ListInv == OrderInv /\ EndsInv /\ LinksInv /\ PendingInv /\ StubInv

\* Nobody touches a node again once the dequeue has returned it: it is neither
\* end of the list and no enqueue still has to store its link, so run_one_sweep
\* may free it after the joins, and the RNIC thread owns its request.
ReturnedIsPrivate ==
  \A i \in 1 .. Len(got) :
    /\ got[i] # head
    /\ got[i] # tail
    /\ \A c \in Cell : enqpc[c] = "link" => prev[c] # got[i]

\* A NULL link says what mpsc_dequeue takes it for (lines 236-237, "empty or a producer is
\* mid-insert"): at the stub that every node was returned, at a node that it is the last, or
\* in both places that one producer has yet to link behind it.  (When head # tail answers
\* NULL, the link may have been stored since.)
NullMeansEmpty ==
  next[head] = NULL =>
    \/ head = tail /\ Len(enq) = Len(got) + (IF head = Stub THEN 0 ELSE 1)
    \/ \E c \in Cell : enqpc[c] = "link" /\ prev[c] = head

\* The queue behaves as a FIFO whose enqueue takes effect at the exchange.
Fifo == INSTANCE MpscFifo
ImplementsFifo == Fifo!SafeFifo

\* Every node that got its place is returned to the RNIC thread, the last one
\* in the queue included (mpsc_dequeue's re-arming of the stub).
EveryNodeIsDelivered ==
  \A n \in Node :
    (enqpc[n] \in {"link", "done"}) ~> (\E i \in 1 .. Len(got) : got[i] = n)
=============================================================================
