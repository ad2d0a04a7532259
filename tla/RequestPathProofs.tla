------------------------- MODULE RequestPathProofs --------------------------
(***************************************************************************)
(* How a request comes to the RNIC thread and its answer back.             *)
(*                                                                         *)
(* MpscQueue, for every set of readers: the queue's cells always form one  *)
(* list that holds the nodes exchanged in and not yet returned (ListInv),  *)
(* a returned node is touched by nobody, and the queue implements          *)
(* MpscFifo. TypeOK /\ ListInv is inductive.  OrderInv alone is not: that  *)
(* a pop returns the oldest node needs the links to follow the order of    *)
(* the exchanges (LinksInv), which a late LinkPrev keeps only because the  *)
(* cell it writes to is still the one before its own (PendingInv), which   *)
(* in turn needs the stub to be enqueued only when it is out (StubInv).    *)
(*                                                                         *)
(* Dataplane (rings instead of the queue), for every number of readers: a  *)
(* request is in one place, and a thread runs only while its memory is     *)
(* there.  The second needs that main joins whom it created: if a later    *)
(* reader cannot be created, main waits at the gate for ever, and so frees *)
(* nothing under the readers that do run.  What the readers of a turn have *)
(* counted is what its row says (BlocksInv).                               *)
(***************************************************************************)
EXTENDS MpscQueue, Dataplane, FiniteSetTheorems, SequenceTheorems, TLAPS

-----------------------------------------------------------------------------
(* The linked queue (MpscQueue) *)

Inv == TypeOK /\ ListInv

USE CellAssumption DEF Cell, NotIn

LEMMA InitInv == Init => Inv
  <1> SUFFICES ASSUME Init
               PROVE  Inv
    OBVIOUS
  <1> USE DEF Init, Popped, Last
  <1>1. TypeOK
    BY DEF TypeOK
  <1>2. OrderInv
    BY DEF OrderInv
  <1>3. EndsInv
    BY DEF EndsInv, HeadCell, TailCell
  <1>4. LinksInv
    <2>1. Popped = 0 /\ Last = 0 /\ StubSuccessor = NULL
      BY DEF StubSuccessor
    <2>2. Linked(Stub, StubSuccessor)
      BY <2>1 DEF Linked
    <2>3. \A i \in Popped + 1 .. Last : FALSE
      BY <2>1
    <2>4. \A c \in Cell : next[c] = NULL
      OBVIOUS
    <2> QED
      BY <2>2, <2>3, <2>4 DEF LinksInv
  <1>5. PendingInv
    BY DEF PendingInv
  <1>6. StubInv
    BY DEF StubInv
  <1> QED
    BY <1>1, <1>2, <1>3, <1>4, <1>5, <1>6 DEF Inv, ListInv

LEMMA StoreNullInv ==
  ASSUME Inv, NEW c \in Cell, StoreNull(c)
  PROVE  Inv'
  <1> USE DEF Inv, TypeOK, ListInv, StoreNull, Popped, Last
  <1>1. TypeOK'
    OBVIOUS
  <1>2. OrderInv'
    BY DEF OrderInv
  <1>3. EndsInv'
    BY DEF EndsInv, HeadCell, TailCell
  <1>4. LinksInv'
    BY DEF LinksInv, OrderInv, StubInv, Linked, Successor, StubSuccessor, EndsInv
  <1>5. PendingInv'
    BY DEF PendingInv, OrderInv
  <1>6. StubInv'
    BY DEF StubInv
  <1> QED
    BY <1>1, <1>2, <1>3, <1>4, <1>5, <1>6

\* The stub takes the last place; it was out of the list.
LEMMA ExchangeStubInv ==
  ASSUME Inv, ExchangeTail(Stub)
  PROVE  Inv'
  <1> USE DEF Inv, TypeOK, ListInv, ExchangeTail, Popped, Last
  <1>1. stubAt = NotIn /\ stubAt' = Last /\ enq' = enq /\ Popped < Last
    BY DEF StubInv, EndsInv
  <1>2. tail = enq[Last] /\ tail # Stub /\ next[Stub] = NULL /\ next[tail] = NULL
    BY <1>1 DEF EndsInv, TailCell, LinksInv, Linked, Successor
  <1>3. TypeOK'
    BY <1>1
  <1>4. OrderInv'
    BY <1>1 DEF OrderInv
  <1>5. EndsInv'
    BY <1>1 DEF EndsInv, HeadCell, TailCell
  <1>6. LinksInv'
    <2>1. Linked(Stub, StubSuccessor)'
      BY <1>1, <1>2 DEF Linked, StubSuccessor
    <2>2. ASSUME NEW i \in Popped + 1 .. Last
          PROVE  Linked(enq[i], Successor(i))'
      BY <1>1, <1>2 DEF LinksInv, Linked, Successor
    <2>3. \A d \in Cell : enqpc'[d] = "xchg" => next'[d] = NULL
      BY DEF LinksInv
    <2> QED
      BY <1>1, <2>1, <2>2, <2>3 DEF LinksInv
  <1>7. PendingInv'
    BY <1>1, <1>2 DEF PendingInv
  <1>8. StubInv'
    BY DEF StubInv
  <1> QED
    BY <1>3, <1>4, <1>5, <1>6, <1>7, <1>8

\* A node takes the last place; the cell it exchanged itself for waits for its
\* link, and the cells before that keep their successors.
LEMMA ExchangeNodeInv ==
  ASSUME Inv, NEW n \in Node, ExchangeTail(n)
  PROVE  Inv'
  <1> USE DEF Inv, TypeOK, ListInv, ExchangeTail, Popped, Last
  <1>1. /\ stubAt' = stubAt /\ enq' = Append(enq, n) /\ Last' = Last + 1
        /\ enq'[Last'] = n /\ \A i \in 1 .. Last : enq'[i] = enq[i]
        /\ \A i \in 1 .. Last : enq[i] # n
    <2>1. \A i \in 1 .. Last : enq[i] # n
      BY DEF OrderInv
    <2>2. stubAt' = stubAt /\ enq' = Append(enq, n) /\ enq \in Seq(Node)
      OBVIOUS
    <2> HIDE DEF Inv, TypeOK, ListInv, ExchangeTail
    <2>3. Last' = Last + 1 /\ enq'[Last + 1] = n /\ \A i \in 1 .. Last : enq'[i] = enq[i]
      BY <2>2
    <2> QED
      BY <2>1, <2>2, <2>3
  <1>2. /\ tail \in Cell /\ tail # n /\ next[n] = NULL /\ next[tail] = NULL
        /\ next' = next /\ prev'[n] = tail /\ enqpc'[n] = "link"
    BY <1>1 DEF EndsInv, TailCell, LinksInv, Linked, Successor, StubSuccessor
  <1>3. \A d \in Cell : d # n => prev'[d] = prev[d] /\ enqpc'[d] = enqpc[d]
    OBVIOUS
  <1>4. TypeOK'
    BY <1>1
  <1>5. OrderInv'
    <2>1. \A i, j \in 1 .. Last' : enq'[i] = enq'[j] => i = j
      BY <1>1 DEF OrderInv
    <2>2. \A m \in Node : enqpc'[m] \in {"link", "done"} <=> \E i \in 1 .. Last' : enq'[i] = m
      BY <1>1, <1>2, <1>3 DEF OrderInv
    <2> QED
      BY <1>1, <2>1, <2>2 DEF OrderInv
  <1>6. EndsInv'
    BY <1>1 DEF EndsInv, HeadCell, TailCell
  <1>7. LinksInv'
    <2>1. stubAt # NotIn => Linked(Stub, StubSuccessor)'
      BY <1>1, <1>2, <1>3 DEF Linked, StubSuccessor, TailCell, EndsInv, LinksInv
    <2>2. ASSUME NEW i \in Popped + 1 .. Last
          PROVE  Linked(enq[i], Successor(i))'
      <3>1. CASE i = Last
        BY <1>1, <1>2, <1>3, <3>1 DEF Linked, Successor, TailCell, EndsInv, LinksInv
      <3>2. CASE i # Last
        BY <1>1, <1>2, <1>3, <3>2 DEF Linked, Successor, EndsInv, LinksInv
      <3> QED
        BY <3>1, <3>2
    <2>3. Linked(enq[Last], Successor(Last))'
      BY <1>1, <1>2 DEF Linked, Successor, EndsInv
    <2>4. \A d \in Cell : enqpc'[d] = "xchg" => next'[d] = NULL
      BY <1>2, <1>3 DEF LinksInv
    <2> QED
      BY <1>1, <2>1, <2>2, <2>3, <2>4 DEF LinksInv
  <1>8. PendingInv'
    <2>1. ASSUME NEW i \in 1 .. Last, enqpc'[enq[i]] = "link"
          PROVE  /\ i > Popped
                 /\ IF stubAt = i - 1
                    THEN prev'[enq[i]] = Stub
                    ELSE i - 1 > Popped /\ prev'[enq[i]] = enq[i - 1]
      BY <1>1, <1>3, <2>1 DEF PendingInv
    <2>2. IF stubAt = Last
          THEN prev'[n] = Stub
          ELSE Last > Popped /\ prev'[n] = enq[Last]
      BY <1>2 DEF EndsInv, TailCell
    <2>3. enqpc'[Stub] = "link" => stubAt > Popped /\ prev'[Stub] = enq'[stubAt]
      BY <1>1, <1>3 DEF PendingInv, EndsInv
    <2> QED
      BY <1>1, <2>1, <2>2, <2>3 DEF PendingInv, EndsInv, OrderInv
  <1>9. StubInv'
    BY DEF StubInv
  <1> QED
    BY <1>4, <1>5, <1>6, <1>7, <1>8, <1>9

LEMMA LinkPrevInv ==
  ASSUME Inv, NEW c \in Cell, LinkPrev(c)
  PROVE  Inv'
  <1> USE DEF Inv, TypeOK, ListInv, LinkPrev, Popped, Last
  <1>1. TypeOK'
    OBVIOUS
  <1>2. OrderInv'
    <2>1. UNCHANGED <<enq, got, Last, Popped>>
      OBVIOUS
    <2>2. \A n \in Node : enqpc'[n] \in {"link", "done"} <=> enqpc[n] \in {"link", "done"}
      OBVIOUS
    <2> HIDE DEF TypeOK, LinkPrev, Cell
    <2> QED
      BY <2>1, <2>2 DEF OrderInv
  <1>3. EndsInv'
    BY DEF EndsInv, HeadCell, TailCell
  <1>4. LinksInv'
    \* The cell c is linked to is the one before it; the others keep their link.
    <2> USE DEF LinksInv, OrderInv, EndsInv, StubInv, PendingInv
    <2>1. prev[c] \in Cell /\ enqpc[prev[c]] # "xchg"
      <3>1. CASE c = Stub
        BY <3>1
      <3>2. CASE c \in Node
        <4>1. PICK i \in 1 .. Last : enq[i] = c
          BY <3>2
        <4>2. CASE stubAt = i - 1
          BY <4>1, <4>2
        <4>3. CASE stubAt # i - 1
          <5>1. i - 1 \in 1 .. Last /\ prev[c] = enq[i - 1] /\ enq[i - 1] \in Node
            BY <4>1, <4>3
          <5>2. enqpc[enq[i - 1]] \in {"link", "done"}
            BY <5>1
          <5> QED
            BY <5>1, <5>2
        <4> QED
          BY <4>2, <4>3
      <3> QED
        BY <3>1, <3>2
    <2>2. \A d, s \in Cell : d # prev[c] /\ Linked(d, s) => Linked(d, s)'
      BY DEF Linked
    <2>3. \A d \in Cell : d # prev[c] /\ Linked(d, NULL) => Linked(d, NULL)'
      BY DEF Linked
    <2>4. Linked(prev[c], c)'
      BY <2>1 DEF Linked
    <2>5. stubAt # NotIn => Linked(Stub, StubSuccessor)'
      <3>1. ASSUME stubAt # NotIn, prev[c] = Stub
            PROVE  StubSuccessor = c
        <4>1. c \in Node
          <5>1. ASSUME c = Stub PROVE FALSE
            <6>1. stubAt > Popped /\ prev[Stub] = enq[stubAt]
              BY <5>1
            <6>2. stubAt \in 1 .. Last
              BY <3>1, <6>1
            <6>3. enq[stubAt] \in Node
              BY <6>2
            <6> QED
              BY <3>1, <5>1, <6>1, <6>3
          <5> QED
            BY <5>1
        <4>2. PICK i \in 1 .. Last : enq[i] = c
          BY <4>1
        <4>3. ASSUME stubAt # i - 1 PROVE FALSE
          <5>1. i - 1 > Popped /\ prev[c] = enq[i - 1]
            BY <4>2, <4>3
          <5>2. i - 1 \in 1 .. Last
            BY <5>1
          <5>3. enq[i - 1] \in Node
            BY <5>2
          <5> QED
            BY <3>1, <5>1, <5>3
        <4> QED
          BY <4>2, <4>3 DEF StubSuccessor
      <3> QED
        BY <2>2, <2>3, <2>4, <3>1 DEF StubSuccessor
    <2>6. ASSUME NEW i \in Popped + 1 .. Last
          PROVE  Linked(enq[i], Successor(i))'
      <3>1. enq[i] = prev[c] => Successor(i) = c
        BY DEF Successor
      <3> QED
        BY <2>2, <2>3, <2>4, <3>1 DEF Successor
    <2>7. \A d \in Cell : enqpc'[d] = "xchg" => next'[d] = NULL
      BY <2>1
    <2> QED
      BY <2>5, <2>6, <2>7
  <1>5. PendingInv'
    BY DEF PendingInv, OrderInv
  <1>6. StubInv'
    BY DEF StubInv
  <1> QED
    BY <1>1, <1>2, <1>3, <1>4, <1>5, <1>6

LEMMA SkipStubInv ==
  ASSUME Inv, SkipStub
  PROVE  Inv'
  <1> USE DEF Inv, TypeOK, ListInv, SkipStub, Popped, Last
  <1>1. stubAt = Popped /\ Popped < Last /\ next[Stub] = enq[Popped + 1]
    BY DEF EndsInv, HeadCell, LinksInv, Linked, StubSuccessor
  <1>2. TypeOK'
    BY <1>1
  <1>3. OrderInv'
    BY DEF OrderInv
  <1>4. EndsInv'
    BY <1>1 DEF EndsInv, HeadCell, TailCell
  <1>5. LinksInv'
    BY <1>1 DEF LinksInv, Linked, Successor
  <1>6. PendingInv'
    BY <1>1 DEF PendingInv, LinksInv, Linked, StubSuccessor, StubInv
  <1>7. StubInv'
    BY <1>1 DEF StubInv
  <1> QED
    BY <1>2, <1>3, <1>4, <1>5, <1>6, <1>7

\* The one fact about a pop: it returns the oldest node that was not returned.
LEMMA PopHeadInv ==
  ASSUME Inv, head # Stub, next[head] # NULL, enqpc[Stub] = "out", PopHead
  PROVE  Inv' /\ Popped < Last /\ head = enq[Popped + 1]
  <1> USE DEF Inv, TypeOK, ListInv, PopHead, Popped, Last
  <1>1. Popped < Last /\ head = enq[Popped + 1] /\ stubAt # Popped
    BY DEF EndsInv, HeadCell
  <1>2. next[head] = Successor(Popped + 1) /\ Successor(Popped + 1) # NULL
    BY <1>1 DEF LinksInv, Linked
  <1>3. TypeOK'
    BY <1>1
  <1>4. OrderInv'
    BY <1>1 DEF OrderInv
  <1>5. EndsInv'
    BY <1>1, <1>2 DEF EndsInv, HeadCell, TailCell, Successor
  <1>6. LinksInv'
    BY <1>1 DEF LinksInv, Linked, Successor, StubSuccessor
  <1>7. PendingInv'
    <2>1. ASSUME NEW i \in 1 .. Last, enqpc[enq[i]] = "link"
          PROVE  /\ i > Popped + 1
                 /\ stubAt # i - 1 => i - 1 > Popped + 1
      <3>1. i # Popped + 1
        BY <1>1, <2>1 DEF PendingInv
      <3>2. i > Popped + 1
        BY <1>1, <2>1, <3>1 DEF PendingInv
      <3>3. CASE i = Popped + 2 /\ stubAt # Popped + 1
        <4>1. Successor(Popped + 1) = enq[i] /\ prev[enq[i]] = head /\ enq[i] # NULL
          BY <1>1, <2>1, <3>3 DEF Successor, PendingInv
        <4>2. next[head] = NULL
          BY <1>1, <2>1, <4>1 DEF LinksInv, Linked
        <4> QED
          BY <4>2
      <3> QED
        BY <1>1, <3>2, <3>3
    <2>2. Popped' = Popped + 1
      OBVIOUS
    <2> QED
      BY <2>1, <2>2 DEF PendingInv
  <1>8. StubInv'
    BY DEF StubInv
  <1> QED
    BY <1>1, <1>3, <1>4, <1>5, <1>6, <1>7, <1>8

LEMMA AtNodeInv ==
  ASSUME Inv, AtNode
  PROVE  Inv'
  <1> USE DEF AtNode
  <1>1. head # Stub /\ enqpc[Stub] = "out"
    BY DEF Inv, ListInv, StubInv
  <1>2. CASE next[head] # NULL
    BY <1>1, <1>2, PopHeadInv
  <1>3. CASE next[head] = NULL
    BY <1>1, <1>3 DEF Inv, TypeOK, ListInv, OrderInv, EndsInv, LinksInv, PendingInv, StubInv,
                      Popped, Last, HeadCell, TailCell, Linked, Successor, StubSuccessor
  <1> QED
    BY <1>2, <1>3

LEMMA PopLastInv ==
  ASSUME Inv, PopLast
  PROVE  Inv'
  <1> USE DEF PopLast
  <1>1. head # Stub /\ enqpc[Stub] = "out"
    BY DEF Inv, ListInv, StubInv
  <1>2. CASE next[head] # NULL
    BY <1>1, <1>2, PopHeadInv
  <1>3. CASE next[head] = NULL
    BY <1>1, <1>3 DEF Inv, TypeOK, ListInv, OrderInv, EndsInv, LinksInv, PendingInv, StubInv,
                      Popped, Last, HeadCell, TailCell, Linked, Successor, StubSuccessor
  <1> QED
    BY <1>2, <1>3

LEMMA CheckTailInv ==
  ASSUME Inv, CheckTail
  PROVE  Inv'
  <1> USE DEF Inv, TypeOK, ListInv, CheckTail, Popped, Last
  <1>1. TypeOK'
    OBVIOUS
  <1>2. OrderInv'
    BY DEF OrderInv
  <1>3. EndsInv'
    BY DEF EndsInv, HeadCell, TailCell
  <1>4. LinksInv'
    BY DEF LinksInv, StubInv, Linked, Successor, StubSuccessor, EndsInv
  <1>5. PendingInv'
    BY DEF PendingInv
  <1>6. StubInv'
    \* head is a node and the tail, so the stub cannot be behind it.
    BY DEF StubInv, EndsInv, HeadCell, TailCell, OrderInv
  <1> QED
    BY <1>1, <1>2, <1>3, <1>4, <1>5, <1>6

LEMMA StutterInv ==
  ASSUME Inv, UNCHANGED vars
  PROVE  Inv'
  BY DEF vars, Inv, TypeOK, ListInv, OrderInv, EndsInv, LinksInv, PendingInv, StubInv,
         Popped, Last, HeadCell, TailCell, Linked, Successor, StubSuccessor

LEMMA NextInv == Inv /\ [Next]_vars => Inv'
  <1> SUFFICES ASSUME Inv, [Next]_vars
               PROVE  Inv'
    OBVIOUS
  <1>1. ASSUME NEW c \in Cell, EnqueueStep(c)
        PROVE  Inv'
    BY <1>1, StoreNullInv, ExchangeStubInv, ExchangeNodeInv, LinkPrevInv DEF EnqueueStep
  <1>2. CASE DequeueStep
    BY <1>1, <1>2, StutterInv, SkipStubInv, AtNodeInv, CheckTailInv, PopLastInv
       DEF DequeueStep, PollEmpty
  <1>3. CASE UNCHANGED vars
    BY <1>3, StutterInv
  <1> QED
    BY <1>1, <1>2, <1>3 DEF Next

-----------------------------------------------------------------------------
\* The variables stay within their types.
THEOREM TypeCorrect == Spec => []TypeOK
  <1>1. Inv => TypeOK
    BY DEF Inv
  <1> QED
    BY InitInv, NextInv, <1>1, PTL DEF Spec

\* mpsc_enqueue and mpsc_dequeue keep one well-formed list whatever the
\* interleaving of any number of readers with the RNIC thread.
THEOREM ListAlwaysWellFormed == Spec => []ListInv
  <1>1. Inv => ListInv
    BY DEF Inv
  <1> QED
    BY InitInv, NextInv, <1>1, PTL DEF Spec

\* A node returned by mpsc_dequeue is in nobody else's hands.
THEOREM ReturnedNodesArePrivate == Spec => []ReturnedIsPrivate
  <1>1. Inv => ReturnedIsPrivate
    <2> SUFFICES ASSUME Inv, NEW i \in 1 .. Len(got)
                 PROVE  /\ got[i] # head
                        /\ got[i] # tail
                        /\ \A c \in Cell : enqpc[c] = "link" => prev[c] # got[i]
      BY DEF ReturnedIsPrivate
    <2> USE DEF Inv, TypeOK, ListInv, OrderInv, Popped, Last
    <2>1. i \in 1 .. Last /\ got[i] = enq[i] /\ got[i] \in Node
      OBVIOUS
    <2>2. got[i] # head /\ got[i] # tail
      BY <2>1 DEF EndsInv, HeadCell, TailCell
    <2>3. ASSUME NEW c \in Cell, enqpc[c] = "link"
          PROVE  prev[c] # got[i]
      <3>1. CASE c = Stub
        BY <2>1, <2>3, <3>1 DEF PendingInv, EndsInv
      <3>2. CASE c \in Node
        <4>1. PICK j \in 1 .. Last : enq[j] = c
          BY <2>3, <3>2
        <4> QED
          BY <2>1, <2>3, <4>1 DEF PendingInv
      <3> QED
        BY <3>1, <3>2
    <2> QED
      BY <2>2, <2>3
  <1> QED
    BY InitInv, NextInv, <1>1, PTL DEF Spec

\* A dequeue is not misled by a NULL link: nothing is behind it but what a producer is
\* about to link.
THEOREM NullAlwaysMeansEmpty == Spec => []NullMeansEmpty
  <1>1. Inv => NullMeansEmpty
    <2> SUFFICES ASSUME Inv, next[head] = NULL
                 PROVE  \/ head = tail /\ Len(enq) = Len(got) + (IF head = Stub THEN 0 ELSE 1)
                        \/ \E c \in Cell : enqpc[c] = "link" /\ prev[c] = head
      BY DEF NullMeansEmpty
    <2> USE DEF Inv, TypeOK, ListInv, EndsInv, OrderInv, Popped, Last
    <2>1. ASSUME NEW succ \in Cell, Linked(head, succ)
          PROVE  enqpc[succ] = "link" /\ prev[succ] = head
      BY <2>1 DEF Linked
    <2>2. CASE stubAt = Popped
      <3>1. head = Stub /\ Linked(head, StubSuccessor)
        BY <2>2 DEF HeadCell, LinksInv
      <3>2. CASE stubAt = Last
        BY <2>2, <3>1, <3>2 DEF TailCell
      <3>3. CASE stubAt # Last
        <4>1. stubAt + 1 \in 1 .. Last /\ StubSuccessor = enq[stubAt + 1]
          BY <2>2, <3>3 DEF StubSuccessor
        <4> QED
          BY <2>1, <3>1, <4>1
      <3> QED
        BY <3>2, <3>3
    <2>3. CASE stubAt # Popped
      <3>1. Popped + 1 \in Popped + 1 .. Last /\ Popped + 1 \in 1 .. Last
        BY <2>3
      <3>2. head = enq[Popped + 1] /\ head # Stub /\ Linked(head, Successor(Popped + 1))
        BY <2>3, <3>1 DEF HeadCell, LinksInv
      <3>3. CASE stubAt = Popped + 1
        BY <2>1, <3>2, <3>3 DEF Successor
      <3>4. CASE stubAt # Popped + 1 /\ Popped + 1 = Last
        <4>1. stubAt # Last
          BY <3>4
        <4> QED
          BY <3>2, <3>4, <4>1 DEF TailCell
      <3>5. CASE stubAt # Popped + 1 /\ Popped + 1 # Last
        <4>1. Popped + 2 \in 1 .. Last /\ Successor(Popped + 1) = enq[Popped + 2]
          BY <3>1, <3>5 DEF Successor
        <4> QED
          BY <2>1, <3>2, <4>1
      <3> QED
        BY <3>3, <3>4, <3>5
    <2> QED
      BY <2>2, <2>3
  <1> QED
    BY InitInv, NextInv, <1>1, PTL DEF Spec

\* The queue is a FIFO: an enqueue takes effect at its exchange of the tail, a
\* dequeue at its move of the head, and every other step is invisible.
THEOREM QueueImplementsFifo == Spec => ImplementsFifo
  <1>1. Init => Fifo!InitFifo
    BY DEF Init, Fifo!InitFifo
  <1>2. Inv /\ [Next]_vars => [Fifo!NextFifo]_(Fifo!fifoVars)
    <2> SUFFICES ASSUME Inv, [Next]_vars
                 PROVE  Fifo!NextFifo \/ UNCHANGED <<enq, got>>
      BY DEF Fifo!fifoVars
    <2>1. ASSUME NEW c \in Cell, EnqueueStep(c)
          PROVE  Fifo!NextFifo \/ UNCHANGED <<enq, got>>
      <3>1. CASE ExchangeTail(c) /\ c # Stub
        <4>1. \A i \in 1 .. Len(enq) : enq[i] # c
          BY <3>1 DEF Inv, TypeOK, ListInv, OrderInv, ExchangeTail, Last
        <4> QED
          BY <3>1, <4>1 DEF ExchangeTail, Fifo!NextFifo, Fifo!Enqueue
      <3> QED
        BY <2>1, <3>1 DEF EnqueueStep, StoreNull, ExchangeTail, LinkPrev
    <2>2. ASSUME head # Stub, next[head] # NULL, enqpc[Stub] = "out", PopHead
          PROVE  Fifo!NextFifo
      BY <2>2, PopHeadInv DEF PopHead, Popped, Last, Fifo!NextFifo, Fifo!Dequeue
    <2>3. CASE AtNode \/ PopLast
      BY <2>2, <2>3 DEF AtNode, PopLast, Inv, ListInv, StubInv
    <2>4. CASE PollEmpty \/ SkipStub \/ CheckTail \/ UNCHANGED vars
      BY <2>4 DEF PollEmpty, SkipStub, CheckTail, vars
    <2> QED
      BY <2>1, <2>3, <2>4 DEF Next, DequeueStep
  <1> QED
    BY InitInv, NextInv, <1>1, <1>2, PTL DEF Spec, ImplementsFifo, Fifo!SafeFifo

HIDE CellAssumption DEF Cell, NotIn

-----------------------------------------------------------------------------
(* The rings (Dataplane) *)

USE DataplaneAssumption

ReaderState == {"none", "start", "spin", "answered", "gate", "read", "exit"}

MainState == {"setup", "write", "args", "create", "gate", "join", "joinRnic", "free", "returned",
              "refused", "exit", "killed"}

\* A ring is empty or holds one request.
Ring == {<<>>} \cup {<<r>> : r \in Request}

DataplaneTypeInv ==
  /\ nowait \in BOOLEAN
  /\ main \in MainState
  /\ created \in Nat /\ ready \in Nat /\ total \in Nat
  /\ reader \in [Request -> ReaderState]
  /\ to_nic \in [Request -> Ring] /\ to_reader \in [Request -> Ring]
  /\ rnic \in {"none", "boot", "round", "poll", "answer", "exit"}
  /\ at \in 0 .. N /\ holding \in 0 .. N

\* A ring holds one request at most, its own reader's; a reader that spins has it in one
\* of three places, another reader has none.
OneRequest(r) ==
  /\ to_nic[r] \in {<<>>, <<r>>} /\ to_reader[r] \in {<<>>, <<r>>}
  /\ to_nic[r] = <<r>> => holding # r /\ to_reader[r] = <<>>
  /\ to_reader[r] = <<r>> => holding # r
  /\ reader[r] = "spin" <=> to_nic[r] = <<r>> \/ to_reader[r] = <<r>> \/ holding = r

RingInv ==
  /\ \A r \in Request : OneRequest(r)
  /\ IF rnic = "answer" THEN holding = at /\ at \in Request ELSE holding = None

\* Readers that have been counted at the gate.
Arrived == {r \in Request : reader[r] \in {"gate", "read", "exit"}}
ArrivedInv == ready = Cardinality(Arrived)

NobodyYet == rnic = "none" /\ \A r \in Request : reader[r] = "none"
NobodyNow == rnic \in {"none", "exit"} /\ \A r \in Request : reader[r] \in {"none", "exit"}

ThreadInv ==
  /\ nowait => rnic = "none"
  /\ main \in {"setup", "args"} => NobodyYet
  /\ main \in {"write", "returned", "refused", "free"} => NobodyNow
  /\ main \in {"args", "create"} => total = N
  /\ main = "create" => created >= N /\ \A r \in Request : r >= created - N => reader[r] = "none"
  /\ main = "gate" => total >= N \/ NobodyYet
  /\ main = "joinRnic" => \A r \in Request : reader[r] = "exit"

MemoryInv ==
  /\ main \notin {"setup", "exit", "killed"} => "store" \in memory
  /\ main \in {"args", "create", "gate", "join", "joinRnic", "free"} => {"args", "dctx"} \subseteq memory

DataplaneInv == DataplaneTypeInv /\ RingInv /\ ArrivedInv /\ ThreadInv /\ MemoryInv

-----------------------------------------------------------------------------
USE DEF program, gate, rings, nic, reading

LEMMA OneInRing ==
  ASSUME NEW r
  PROVE  /\ Append(<<>>, r) = <<r>> /\ Head(<<r>>) = r /\ Tail(<<r>>) = <<>> /\ <<r>> # <<>>
  OBVIOUS

LEMMA RequestsAreFinite == IsFiniteSet(Request) /\ Cardinality(Request) = N
  <1>1. 0 \in Int /\ N - 1 \in Int /\ N - 1 - 0 + 1 = N
    OBVIOUS
  <1> QED
    BY <1>1, FS_Interval DEF Request

LEMMA DataplaneInit == InitDataplane => DataplaneInv
  <1> SUFFICES ASSUME InitDataplane
               PROVE  DataplaneInv
    OBVIOUS
  <1> USE DEF InitDataplane, Idle
  <1>1. DataplaneTypeInv
    BY DEF DataplaneTypeInv, ReaderState, MainState, Ring, None
  <1>2. RingInv
    BY OneInRing DEF RingInv, OneRequest, None, Request
  <1>3. ArrivedInv
    <2>1. Arrived = {}
      BY DEF Arrived
    <2> QED
      BY <2>1, FS_EmptySet DEF ArrivedInv
  <1>4. ThreadInv /\ MemoryInv
    BY DEF ThreadInv, NobodyYet, MemoryInv
  <1> QED
    BY <1>1, <1>2, <1>3, <1>4 DEF DataplaneInv

LEMMA DataplaneTypeStep == DataplaneInv /\ [NextDataplane]_dataplaneVars => DataplaneTypeInv'
  <1> SUFFICES ASSUME DataplaneInv, [NextDataplane]_dataplaneVars
               PROVE  DataplaneTypeInv'
    OBVIOUS
  <1> USE DEF DataplaneInv, DataplaneTypeInv, ReaderState, MainState
  <1>1. CASE \/ Setup \/ PrintRow \/ ReadFailed \/ PrepareReader \/ PreparationDies \/ ScratchFails
             \/ StartRnic \/ AllCreated \/ OpenGate \/ JoinReaders \/ JoinRnic \/ FreeAll
    <2>1. UNCHANGED <<reader, rings, at, holding, nowait>>
      BY <1>1 DEF Setup, PrintRow, ReadFailed, PrepareReader, PreparationDies, ScratchFails, StartRnic, AllCreated,
         OpenGate, JoinReaders, JoinRnic, FreeAll
    <2>2. created' \in Nat /\ ready' \in Nat /\ total' \in Nat
      BY <1>1 DEF Setup, PrintRow, ReadFailed, PrepareReader, PreparationDies, ScratchFails, StartRnic, AllCreated,
         OpenGate, JoinReaders, JoinRnic, FreeAll, GiveUp
    <2>3. rnic' \in {rnic, "boot"}
      BY <1>1 DEF Setup, PrintRow, ReadFailed, PrepareReader, PreparationDies, ScratchFails, StartRnic, AllCreated,
         OpenGate, JoinReaders, JoinRnic, FreeAll
    <2>4. main' \in MainState
      BY <1>1 DEF Setup, PrintRow, ReadFailed, PrepareReader, PreparationDies, ScratchFails, StartRnic, AllCreated,
         OpenGate, JoinReaders, JoinRnic, FreeAll, GiveUp
    <2> QED
      BY <2>1, <2>2, <2>3, <2>4
  <1>2. CASE WriteTurn
    <2>1. reader' \in [Request -> ReaderState]
      BY <1>2 DEF WriteTurn
    <2>2. UNCHANGED <<nowait, rings>> /\ main' \in {"args", "returned", "refused", "killed"}
      BY <1>2 DEF WriteTurn
    <2>3. created' = 0 /\ ready' = 0 /\ total' = N /\ rnic' = "none" /\ at' = 0 /\ holding' = N
      BY <1>2 DEF WriteTurn, None
    <2> QED
      BY <2>1, <2>2, <2>3
  <1>3. CASE CreateReader
    <2>1. reader' \in [Request -> ReaderState]
      BY <1>3 DEF CreateReader
    <2>2. created' \in Nat /\ UNCHANGED <<nowait, main, gate, rings, nic>>
      BY <1>3 DEF CreateReader
    <2> QED
      BY <2>1, <2>2
  <1>4. CASE CreateFails
    BY <1>4 DEF CreateFails, GiveUp
  <1>5. ASSUME NEW r \in Request, ReaderStep(r)
        PROVE  DataplaneTypeInv'
    <2>1. CASE Send(r)
      <3>1. Append(to_nic[r], r) \in Ring
        <4>1. to_nic[r] = <<>>
          BY <2>1, OneInRing DEF Send, RingInv, OneRequest
        <4> QED
          BY <4>1, OneInRing DEF Ring
      <3> QED
        BY <2>1, <3>1 DEF Send
    <2>2. CASE Receive(r)
      <3>1. Tail(to_reader[r]) \in Ring
        <4>1. to_reader[r] = <<r>>
          BY <2>2 DEF Receive, RingInv, OneRequest
        <4> QED
          BY <4>1, OneInRing DEF Ring
      <3> QED
        BY <2>2, <3>1 DEF Receive
    <2>3. CASE Arrive(r) \/ PassGate(r) \/ ReadBlocks(r)
      BY <2>3 DEF Arrive, PassGate, ReadBlocks
    <2> QED
      BY <1>5, <2>1, <2>2, <2>3 DEF ReaderStep
  <1>6. CASE RnicRound
    BY <1>6 DEF RnicRound
  <1>7. CASE RnicPoll
    <2>1. CASE at = N \/ to_nic[at] = <<>>
      BY <1>7, <2>1 DEF RnicPoll
    <2>2. CASE at # N /\ to_nic[at] # <<>>
      <3>1. at \in Request
        BY <2>2 DEF Request
      <3>2. Head(to_nic[at]) \in Request /\ Tail(to_nic[at]) \in Ring
        <4>1. to_nic[at] = <<at>>
          BY <2>2, <3>1 DEF RingInv, OneRequest
        <4> QED
          BY <3>1, <4>1, OneInRing DEF Ring
      <3> QED
        <4>1. holding' = Head(to_nic[at]) /\ to_nic' = [to_nic EXCEPT ![at] = Tail(to_nic[at])]
              /\ rnic' = "answer" /\ at' = at
          BY <1>7, <2>2 DEF RnicPoll
        <4>2. UNCHANGED <<nowait, main, created, gate, reader, to_reader>>
          BY <1>7 DEF RnicPoll
        <4> QED
          BY <3>1, <3>2, <4>1, <4>2 DEF Request
    <2> QED
      BY <2>1, <2>2
  <1>8. CASE RnicAnswer
    <2>1. holding = at /\ at \in Request
      BY <1>8 DEF RnicAnswer, RingInv
    <2>2. Append(to_reader[at], holding) \in Ring
      <3>1. to_reader[at] = <<>>
        BY <2>1, OneInRing DEF RingInv, OneRequest
      <3> QED
        BY <2>1, <3>1, OneInRing DEF Ring
    <2> QED
      BY <1>8, <2>1, <2>2 DEF RnicAnswer, None, Request
  <1>9. CASE UNCHANGED dataplaneVars
    BY <1>9 DEF dataplaneVars
  <1> QED
    BY <1>1, <1>2, <1>3, <1>4, <1>5, <1>6, <1>7, <1>8, <1>9 DEF NextDataplane, MainStep, RnicStep

\* A request moves from one place to the next, along its own reader's rings.
LEMMA RingStep == DataplaneInv /\ [NextDataplane]_dataplaneVars => RingInv'
  <1> SUFFICES ASSUME DataplaneInv, [NextDataplane]_dataplaneVars
               PROVE  RingInv'
    OBVIOUS
  <1> USE DEF DataplaneInv, DataplaneTypeInv, RingInv, OneRequest
  <1>1. CASE \/ Setup \/ PrintRow \/ ReadFailed \/ PrepareReader \/ PreparationDies \/ ScratchFails
             \/ CreateFails \/ AllCreated \/ OpenGate \/ JoinReaders \/ JoinRnic \/ FreeAll
    <2>1. UNCHANGED <<reader, rings, rnic, at, holding>>
      BY <1>1 DEF Setup, PrintRow, ReadFailed, PrepareReader, PreparationDies, ScratchFails, CreateFails, AllCreated,
         OpenGate, JoinReaders, JoinRnic, FreeAll
    <2> QED
      BY <2>1
  <1>2. CASE StartRnic
    BY <1>2 DEF StartRnic, ThreadInv, NobodyYet
  <1>3. CASE WriteTurn
    <2>1. \A r \in Request : to_nic[r] = <<>> /\ to_reader[r] = <<>>
      BY <1>3, OneInRing DEF WriteTurn, ThreadInv, NobodyNow
    <2> QED
      <3>1. UNCHANGED <<to_nic, to_reader>> /\ rnic' = "none" /\ holding' = N
            /\ reader' = [r \in Request |-> "none"]
        BY <1>3 DEF WriteTurn, None
      <3>2. ASSUME NEW r \in Request PROVE OneRequest(r)'
        <4>1. reader'[r] = "none" /\ holding' # r
          BY <3>1 DEF Request
        <4>2. to_nic'[r] = <<>> /\ to_reader'[r] = <<>> /\ <<r>> # <<>>
          BY <2>1, <3>1, OneInRing
        <4> QED
          BY <4>1, <4>2
      <3> QED
        BY <3>1, <3>2 DEF None
  <1>4. CASE CreateReader
    <2>1. created - N \in Request /\ reader[created - N] = "none"
      BY <1>4 DEF CreateReader, ThreadInv, Request
    <2>2. UNCHANGED <<to_nic, to_reader, rnic, at, holding>>
      BY <1>4 DEF CreateReader
    <2>3. \A s \in Request : reader'[s] = "spin" <=> reader[s] = "spin"
      BY <1>4, <2>1 DEF CreateReader
    <2> QED
      BY <2>2, <2>3
  <1>5. ASSUME NEW r \in Request, Send(r)
        PROVE  RingInv'
    <2>1. to_nic[r] = <<>> /\ to_reader[r] = <<>> /\ holding # r
      BY <1>5, OneInRing DEF Send
    <2>2. to_nic'[r] = <<r>> /\ to_reader'[r] = <<>> /\ holding' # r /\ reader'[r] = "spin"
      BY <1>5, <2>1, OneInRing DEF Send
    <2>3. \A s \in Request \ {r} : to_nic'[s] = to_nic[s] /\ reader'[s] = reader[s]
      BY <1>5 DEF Send
    <2> QED
      BY <1>5, <2>2, <2>3, OneInRing DEF Send
  <1>6. ASSUME NEW r \in Request, Receive(r)
        PROVE  RingInv'
    <2>1. to_reader[r] = <<r>> /\ to_nic[r] = <<>> /\ holding # r
      BY <1>6 DEF Receive
    <2>2. to_reader'[r] = <<>> /\ to_nic'[r] = <<>> /\ holding' # r /\ reader'[r] = "answered"
      BY <1>6, <2>1, OneInRing DEF Receive
    <2>3. \A s \in Request \ {r} : to_reader'[s] = to_reader[s] /\ reader'[s] = reader[s]
      BY <1>6 DEF Receive
    <2> QED
      BY <1>6, <2>2, <2>3, OneInRing DEF Receive
  <1>7. ASSUME NEW r \in Request, Arrive(r) \/ PassGate(r) \/ ReadBlocks(r)
        PROVE  RingInv'
    BY <1>7 DEF Arrive, PassGate, ReadBlocks
  <1>8. CASE RnicRound
    BY <1>8 DEF RnicRound
  <1>9. CASE RnicPoll
    <2>1. CASE at = N \/ to_nic[at] = <<>>
      BY <1>9, <2>1 DEF RnicPoll
    <2>2. CASE at # N /\ to_nic[at] # <<>>
      <3>1. at \in Request
        BY <2>2 DEF Request
      <3>2. to_nic[at] = <<at>> /\ to_reader[at] = <<>> /\ reader[at] = "spin"
        BY <2>2, <3>1, OneInRing
      <3>3. holding' = at /\ to_nic'[at] = <<>> /\ rnic' = "answer" /\ at' = at
        BY <1>9, <2>2, <3>1, <3>2, OneInRing DEF RnicPoll
      <3>4. \A s \in Request \ {at} : to_nic'[s] = to_nic[s]
        BY <1>9, <2>2 DEF RnicPoll
      <3>5. holding = None
        BY <1>9 DEF RnicPoll
      <3>6. UNCHANGED <<reader, to_reader>>
        BY <1>9 DEF RnicPoll
      <3>7. OneRequest(at)'
        BY <3>1, <3>2, <3>3, <3>6, OneInRing
      <3>8. ASSUME NEW s \in Request \ {at} PROVE OneRequest(s)'
        BY <3>1, <3>3, <3>4, <3>5, <3>6 DEF None, Request
      <3> QED
        BY <3>1, <3>3, <3>7, <3>8
    <2> QED
      BY <2>1, <2>2
  <1>10. CASE RnicAnswer
    <2>1. PICK a \in Request : at = a /\ holding = a
      BY <1>10 DEF RnicAnswer
    <2>2. to_nic[a] = <<>> /\ to_reader[a] = <<>> /\ reader[a] = "spin"
      BY <2>1
    <2>3. to_reader'[a] = <<a>> /\ holding' = None /\ rnic' = "poll"
      BY <1>10, <2>1, <2>2, OneInRing DEF RnicAnswer
    <2>4. \A s \in Request \ {a} : to_reader'[s] = to_reader[s]
      BY <1>10, <2>1 DEF RnicAnswer
    <2>5. UNCHANGED <<reader, to_nic>>
      BY <1>10 DEF RnicAnswer
    <2>6. OneRequest(a)'
      BY <2>2, <2>3, <2>5, OneInRing DEF None, Request
    <2>7. ASSUME NEW s \in Request \ {a} PROVE OneRequest(s)'
      BY <2>1, <2>3, <2>4, <2>5 DEF None, Request
    <2> QED
      BY <2>3, <2>6, <2>7
  <1>11. CASE UNCHANGED dataplaneVars
    BY <1>11 DEF dataplaneVars
  <1> QED
    BY <1>1, <1>2, <1>3, <1>4, <1>5, <1>6, <1>7, <1>8, <1>9, <1>10, <1>11
    DEF NextDataplane, MainStep, ReaderStep, RnicStep

\* Every arrival is counted, once.
LEMMA ArrivedStep == DataplaneInv /\ [NextDataplane]_dataplaneVars => ArrivedInv'
  <1> SUFFICES ASSUME DataplaneInv, [NextDataplane]_dataplaneVars
               PROVE  ArrivedInv'
    OBVIOUS
  <1> USE DEF DataplaneInv, DataplaneTypeInv, ReaderState, MainState
  <1>1. CASE \/ Setup \/ PrintRow \/ ReadFailed \/ PrepareReader \/ PreparationDies \/ ScratchFails \/ StartRnic
             \/ CreateFails \/ AllCreated \/ OpenGate \/ JoinReaders \/ JoinRnic \/ FreeAll
             \/ RnicStep \/ UNCHANGED dataplaneVars
    <2>1. UNCHANGED <<reader, ready>>
      BY <1>1 DEF Setup, PrintRow, ReadFailed, PrepareReader, PreparationDies, ScratchFails, StartRnic, CreateFails,
         AllCreated, OpenGate, JoinReaders, JoinRnic, FreeAll, GiveUp, RnicStep, RnicRound,
         RnicPoll, RnicAnswer, dataplaneVars
    <2> QED
      BY <2>1 DEF ArrivedInv, Arrived
  <1>2. CASE WriteTurn
    <2>1. Arrived' = {} /\ ready' = 0
      BY <1>2 DEF WriteTurn, Arrived
    <2> QED
      BY <2>1, FS_EmptySet DEF ArrivedInv
  <1>3. CASE CreateReader
    <2>1. created - N \in Request /\ reader[created - N] = "none"
      BY <1>3 DEF CreateReader, ThreadInv, Request
    <2>2. Arrived' = Arrived /\ ready' = ready
      BY <1>3, <2>1 DEF CreateReader, Arrived
    <2> QED
      BY <2>2 DEF ArrivedInv
  <1>4. ASSUME NEW r \in Request, Arrive(r)
        PROVE  ArrivedInv'
    <2>1. r \notin Arrived
      BY <1>4 DEF Arrive, Arrived
    <2>2. Arrived' = Arrived \cup {r} /\ ready' = ready + 1
      BY <1>4 DEF Arrive, Arrived
    <2>3. IsFiniteSet(Arrived)
      <3>1. Arrived \subseteq Request
        BY DEF Arrived
      <3> QED
        BY <3>1, RequestsAreFinite, FS_Subset
    <2> QED
      BY <2>1, <2>2, <2>3, FS_AddElement DEF ArrivedInv
  <1>5. ASSUME NEW r \in Request, Send(r) \/ Receive(r) \/ PassGate(r) \/ ReadBlocks(r)
        PROVE  ArrivedInv'
    <2>1. Arrived' = Arrived /\ ready' = ready
      BY <1>5 DEF Send, Receive, PassGate, ReadBlocks, Arrived
    <2> QED
      BY <2>1 DEF ArrivedInv
  <1> QED
    BY <1>1, <1>2, <1>3, <1>4, <1>5 DEF NextDataplane, MainStep, ReaderStep

\* Where main is, the threads it has told to start or waited for are so.  If a reader
\* cannot be created once another one has been, main stays at the gate: it expects N or
\* more and fewer come.
LEMMA ThreadStep == DataplaneInv /\ [NextDataplane]_dataplaneVars => ThreadInv'
  <1> SUFFICES ASSUME DataplaneInv, [NextDataplane]_dataplaneVars
               PROVE  ThreadInv'
    OBVIOUS
  <1> USE DEF DataplaneInv, DataplaneTypeInv, ReaderState, MainState, ThreadInv, NobodyYet, NobodyNow
  <1>1. CASE Setup \/ PrintRow \/ ReadFailed \/ FreeAll
    BY <1>1 DEF Setup, PrintRow, ReadFailed, FreeAll
  <1>2. CASE WriteTurn
    BY <1>2 DEF WriteTurn
  <1>3. CASE PrepareReader \/ PreparationDies \/ ScratchFails
    BY <1>3 DEF PrepareReader, PreparationDies, ScratchFails, GiveUp
  <1>4. CASE StartRnic
    BY <1>4 DEF StartRnic
  <1>5. CASE CreateReader
    <2>1. created - N \in Request
      BY <1>5 DEF CreateReader, Request
    <2>2. \A r \in Request : r >= created + 1 - N => r >= created - N /\ r # created - N
      BY DEF Request
    <2>3. \A r \in Request : r >= created + 1 - N => reader'[r] = "none"
      BY <1>5, <2>1, <2>2 DEF CreateReader
    <2>4. main' = "create" /\ created' = created + 1 /\ created' >= N
          /\ UNCHANGED <<nowait, total, rnic>>
      BY <1>5 DEF CreateReader
    <2> QED
      BY <1>5, <2>3, <2>4 DEF CreateReader
  <1>6. CASE CreateFails \/ AllCreated
    BY <1>6 DEF CreateFails, AllCreated, GiveUp
  <1>7. CASE OpenGate
    <2>1. ready <= N
      <3>1. Arrived \subseteq Request
        BY DEF Arrived
      <3> QED
        BY <3>1, RequestsAreFinite, FS_Subset DEF ArrivedInv
    <2>2. total <= N
      BY <1>7, <2>1 DEF OpenGate
    <2> QED
      BY <1>7, <2>2 DEF OpenGate
  <1>8. CASE JoinReaders
    BY <1>8 DEF JoinReaders
  <1>9. CASE JoinRnic
    BY <1>9 DEF JoinRnic
  <1>10. ASSUME NEW r \in Request, ReaderStep(r)
         PROVE  ThreadInv'
    <2>1. \A s \in Request : reader[s] \in {"none", "exit"} => reader'[s] = reader[s]
      BY <1>10 DEF ReaderStep, Send, Receive, Arrive, PassGate, ReadBlocks
    <2>2. UNCHANGED <<nowait, main, created, total, rnic>>
      BY <1>10 DEF ReaderStep, Send, Receive, Arrive, PassGate, ReadBlocks
    <2> QED
      BY <2>1, <2>2
  <1>11. CASE RnicStep
    <2>1. rnic \notin {"none", "exit"} /\ rnic' # "none"
      BY <1>11 DEF RnicStep, RnicRound, RnicPoll, RnicAnswer
    <2>2. UNCHANGED <<nowait, main, created, total, reader>>
      BY <1>11 DEF RnicStep, RnicRound, RnicPoll, RnicAnswer
    <2> QED
      BY <2>1, <2>2
  <1>12. CASE UNCHANGED dataplaneVars
    BY <1>12 DEF dataplaneVars
  <1> QED
    BY <1>1, <1>2, <1>3, <1>4, <1>5, <1>6, <1>7, <1>8, <1>9, <1>10, <1>11, <1>12
    DEF NextDataplane, MainStep

LEMMA MemoryStep == DataplaneInv /\ [NextDataplane]_dataplaneVars => MemoryInv'
  <1> SUFFICES ASSUME DataplaneInv, [NextDataplane]_dataplaneVars
               PROVE  MemoryInv'
    OBVIOUS
  <1> USE DEF DataplaneInv, MemoryInv
  <1>1. CASE Setup \/ WriteTurn \/ PrintRow \/ ReadFailed
    BY <1>1 DEF Setup, WriteTurn, PrintRow, ReadFailed
  <1>2. CASE PrepareReader \/ PreparationDies \/ ScratchFails \/ StartRnic \/ CreateReader \/ CreateFails
    BY <1>2 DEF PrepareReader, PreparationDies, ScratchFails, StartRnic, CreateReader, CreateFails, GiveUp
  <1>3. CASE AllCreated \/ OpenGate \/ JoinReaders \/ JoinRnic \/ FreeAll
    BY <1>3 DEF AllCreated, OpenGate, JoinReaders, JoinRnic, FreeAll
  <1>4. ASSUME NEW r \in Request, ReaderStep(r)
        PROVE  MemoryInv'
    BY <1>4 DEF ReaderStep, Send, Receive, Arrive, PassGate, ReadBlocks
  <1>5. CASE RnicStep
    BY <1>5 DEF RnicStep, RnicRound, RnicPoll, RnicAnswer
  <1>6. CASE UNCHANGED dataplaneVars
    BY <1>6 DEF dataplaneVars
  <1> QED
    BY <1>1, <1>2, <1>3, <1>4, <1>5, <1>6 DEF NextDataplane, MainStep

LEMMA DataplaneAlways == SpecDataplane => []DataplaneInv
  <1>1. DataplaneInv /\ [NextDataplane]_dataplaneVars => DataplaneInv'
    BY DataplaneTypeStep, RingStep, ArrivedStep, ThreadStep, MemoryStep DEF DataplaneInv
  <1> QED
    BY DataplaneInit, <1>1, PTL DEF SpecDataplane

\* For any number of requests: while a reader spins its request is in exactly one of the
\* two rings and the RNIC thread's hands, and otherwise nowhere.
THEOREM RequestsStayInOnePlace == SpecDataplane => []RequestIsInOnePlace
  <1>1. DataplaneInv => RequestIsInOnePlace
    <2> SUFFICES ASSUME DataplaneInv, NEW r \in Request
                 PROVE  LET places == (IF to_nic[r] = <<r>> THEN {"to_nic"} ELSE {})
                                        \cup (IF holding = r THEN {"rnic"} ELSE {})
                                        \cup (IF to_reader[r] = <<r>> THEN {"to_reader"} ELSE {})
                        IN /\ reader[r] = "spin" <=>
                                \E p \in {"to_nic", "rnic", "to_reader"} : places = {p}
                           /\ reader[r] # "spin" =>
                                places = {} /\ to_nic[r] = <<>> /\ to_reader[r] = <<>>
      BY DEF RequestIsInOnePlace
    <2>1. OneRequest(r)
      BY DEF DataplaneInv, RingInv
    <2>2. CASE to_nic[r] = <<r>>
      BY <2>1, <2>2, OneInRing DEF OneRequest
    <2>3. CASE to_reader[r] = <<r>>
      BY <2>1, <2>3, OneInRing DEF OneRequest
    <2>4. CASE holding = r
      BY <2>1, <2>4, OneInRing DEF OneRequest
    <2>5. CASE to_nic[r] # <<r>> /\ to_reader[r] # <<r>> /\ holding # r
      BY <2>1, <2>5, OneInRing DEF OneRequest
    <2> QED
      BY <2>2, <2>3, <2>4, <2>5
  <1> QED
    BY DataplaneAlways, <1>1, PTL

\* For any number of requests, blocks and rounds no thread outlives the memory it uses,
\* also when a thread could not be created.
THEOREM ThreadsKeepTheirMemory == SpecDataplane => []ThreadsHaveTheirMemory
  <1>1. DataplaneInv => ThreadsHaveTheirMemory
    <2> SUFFICES ASSUME DataplaneInv, Running,
                        rnic \notin {"none", "exit"}
                          \/ \E r \in Request : reader[r] \notin {"none", "exit"}
                 PROVE  {"store", "args", "dctx"} \subseteq memory
      BY DEF ThreadsHaveTheirMemory
    <2>1. main \notin {"setup", "args", "write", "returned", "refused", "free", "exit", "killed"}
      BY DEF DataplaneInv, ThreadInv, NobodyYet, NobodyNow, Running
    <2>2. main \in {"create", "gate", "join", "joinRnic"}
      BY <2>1 DEF DataplaneInv, DataplaneTypeInv, MainState
    <2> QED
      BY <2>2 DEF DataplaneInv, MemoryInv
  <1> QED
    BY DataplaneAlways, <1>1, PTL

-----------------------------------------------------------------------------
(* The rows (Dataplane) *)

ReadersDone == {r \in Request : reader[r] = "exit"}

\* What the readers have counted, from the turn's beginning to its row.
BlocksCounted == blocks_read = Cardinality(ReadersDone) * Blocks

\* All readers are counted when read_rdma frees and returns 0, or there were none.
BlocksInv ==
  /\ main \notin {"setup", "write", "exit", "killed"} => BlocksCounted
  /\ main = "free" /\ total = N => ReadersDone = Request
  /\ main = "returned" => ReadersDone = Request \/ (failed /\ ReadersDone = {})

LEMMA BlocksStep == DataplaneInv /\ BlocksInv /\ [NextDataplane]_dataplaneVars => BlocksInv'
  <1> SUFFICES ASSUME DataplaneInv, BlocksInv, [NextDataplane]_dataplaneVars
               PROVE  BlocksInv'
    OBVIOUS
  <1> USE DEF BlocksInv
  <1>1. ASSUME UNCHANGED <<ReadersDone, blocks_read>>
        PROVE  BlocksCounted' = BlocksCounted
    BY <1>1 DEF BlocksCounted
  <1>2. CASE Setup \/ PrintRow \/ ReadFailed
    <2>1. main' \in {"write", "exit"}
      BY <1>2 DEF Setup, PrintRow, ReadFailed
    <2> QED
      BY <2>1
  <1>3. CASE WriteTurn
    <2>1. ReadersDone' = {} /\ blocks_read' = 0 /\ main' # "free"
          /\ (main' = "returned" => failed')
      BY <1>3 DEF WriteTurn, ReadersDone
    <2>2. Cardinality(ReadersDone') = 0 /\ 0 * Blocks = 0
      BY <2>1, FS_EmptySet
    <2>3. BlocksCounted'
      BY <2>1, <2>2 DEF BlocksCounted
    <2> QED
      BY <2>1, <2>3
  <1>4. CASE PrepareReader \/ PreparationDies \/ ScratchFails \/ StartRnic \/ CreateFails \/ AllCreated
    <2>1. UNCHANGED <<ReadersDone, blocks_read>>
      BY <1>4 DEF PrepareReader, PreparationDies, ScratchFails, StartRnic, CreateFails, AllCreated, ReadersDone
    <2>2. main \in {"args", "create"} /\ main' \in {"args", "create", "gate", "killed"}
      BY <1>4 DEF PrepareReader, PreparationDies, ScratchFails, StartRnic, CreateFails, AllCreated,
         GiveUp
    <2> QED
      BY <1>1, <2>1, <2>2
  <1>5. CASE CreateReader
    <2>1. created - N \in Request /\ reader[created - N] = "none"
      BY <1>5 DEF CreateReader, ThreadInv, Request, DataplaneInv, DataplaneTypeInv
    <2>2. UNCHANGED <<ReadersDone, blocks_read>>
      BY <1>5, <2>1 DEF CreateReader, ReadersDone, DataplaneInv, DataplaneTypeInv
    <2>3. main = "create" /\ main' = "create"
      BY <1>5 DEF CreateReader
    <2> QED
      BY <1>1, <2>2, <2>3
  <1>6. CASE OpenGate \/ JoinReaders \/ JoinRnic \/ FreeAll
    <2>1. UNCHANGED <<ReadersDone, blocks_read, failed>> /\ (main # "gate" => total' = total)
      BY <1>6 DEF OpenGate, JoinReaders, JoinRnic, FreeAll, ReadersDone
    <2>2. \/ main = "gate" /\ main' = (IF total = N THEN "join" ELSE "free") /\ total' = total
          \/ main = "join" /\ main' = "joinRnic"
          \/ main = "joinRnic" /\ main' \in {"free", "killed"}
          \/ main = "free" /\ main' = IF total = N THEN "returned" ELSE "refused"
      BY <1>6 DEF OpenGate, JoinReaders, JoinRnic, FreeAll
    <2>3. main = "joinRnic" => ReadersDone = Request
      BY DEF DataplaneInv, ThreadInv, ReadersDone
    <2> QED
      BY <1>1, <2>1, <2>2, <2>3
  <1>7. ASSUME NEW r \in Request, Running, Send(r) \/ Receive(r) \/ Arrive(r) \/ PassGate(r)
        PROVE  BlocksInv'
    <2>1. UNCHANGED <<ReadersDone, blocks_read>>
      BY <1>7 DEF Send, Receive, Arrive, PassGate, ReadersDone, DataplaneInv, DataplaneTypeInv
    <2>2. UNCHANGED <<main, failed, total>>
      BY <1>7 DEF Send, Receive, Arrive, PassGate
    <2> QED
      BY <1>1, <2>1, <2>2
  <1>8. ASSUME NEW r \in Request, ReadBlocks(r)
        PROVE  BlocksInv'
    <2>1. ReadersDone' = ReadersDone \cup {r} /\ r \in Request \ ReadersDone
      BY <1>8 DEF ReadBlocks, ReadersDone, DataplaneInv, DataplaneTypeInv
    <2>2. IsFiniteSet(ReadersDone)
      <3>1. ReadersDone \in SUBSET Request
        BY DEF ReadersDone
      <3> QED
        BY <3>1, RequestsAreFinite, FS_Subset
    <2>3. PICK n \in Nat : n = Cardinality(ReadersDone)
      BY <2>2, FS_CardinalityType
    <2>4. Cardinality(ReadersDone') = n + 1
      BY <2>1, <2>2, <2>3, FS_AddElement
    <2>5. blocks_read' = blocks_read + Blocks /\ UNCHANGED <<main, failed, total>>
      BY <1>8 DEF ReadBlocks
    <2>6. BlocksCounted => BlocksCounted'
      <3>1. (n + 1) * Blocks = n * Blocks + Blocks
        OBVIOUS
      <3> QED
        BY <2>3, <2>4, <2>5, <3>1 DEF BlocksCounted
    <2>7. main \notin {"free", "returned"}
      BY <1>8 DEF ReadBlocks, DataplaneInv, ThreadInv, NobodyNow
    <2> QED
      BY <2>5, <2>6, <2>7
  <1>9. CASE RnicStep \/ UNCHANGED dataplaneVars
    <2>1. UNCHANGED <<ReadersDone, blocks_read, main, failed, total>>
      BY <1>9 DEF RnicStep, RnicRound, RnicPoll, RnicAnswer, dataplaneVars, ReadersDone
    <2> QED
      BY <1>1, <2>1
  <1> QED
    BY <1>2, <1>3, <1>4, <1>5, <1>6, <1>7, <1>8, <1>9 DEF NextDataplane, MainStep, ReaderStep

Rows == [per_req : Int, total : Int]

DataplaneRowInv ==
  /\ turn \in Nat /\ rows \in Seq(Rows)
  /\ Running => Len(rows) = turn - 1
  /\ RowsCountAllReaders

LEMMA DataplaneRowStep ==
  DataplaneInv /\ BlocksInv /\ DataplaneRowInv /\ [NextDataplane]_dataplaneVars => DataplaneRowInv'
  <1> SUFFICES ASSUME DataplaneInv, BlocksInv, DataplaneRowInv, [NextDataplane]_dataplaneVars
               PROVE  DataplaneRowInv'
    OBVIOUS
  <1>1. CASE PrintRow
    <2> DEFINE row == [per_req |-> turn * Blocks, total |-> blocks_read]
    <2>1. blocks_read = N * Blocks \/ (failed /\ blocks_read = 0)
      <3>1. Cardinality(ReadersDone) = N \/ (failed /\ Cardinality(ReadersDone) = 0)
        BY <1>1, RequestsAreFinite, FS_EmptySet DEF PrintRow, BlocksInv
      <3>2. blocks_read = Cardinality(ReadersDone) * Blocks
        BY <1>1 DEF PrintRow, BlocksInv, BlocksCounted
      <3> QED
        BY <3>1, <3>2
    <2>2. rows' = Append(rows, row) /\ failed' = failed
      BY <1>1 DEF PrintRow
    <2>3. turn \in Nat /\ Len(rows) = turn - 1 /\ rows \in Seq(Rows)
      BY <1>1 DEF DataplaneRowInv, Running, PrintRow
    <2>4. row \in Rows
      <3>1. turn * Blocks \in Int /\ blocks_read \in Int
        BY <2>1, <2>3
      <3> QED
        BY <3>1 DEF Rows
    <2> HIDE DEF row
    <2>5. rows' \in Seq(Rows) /\ Len(rows') = turn /\ rows'[turn] = row
          /\ \A t \in 1 .. turn - 1 : rows'[t] = rows[t]
      BY <2>2, <2>3, <2>4, AppendProperties
    <2>6. RowsCountAllReaders'
      <3> SUFFICES ASSUME NEW t \in DOMAIN rows'
                   PROVE  /\ rows'[t].per_req = t * Blocks
                          /\ rows'[t].total = N * Blocks \/ (failed' /\ rows'[t].total = 0)
        BY DEF RowsCountAllReaders
      <3>1. t \in 1 .. turn
        BY <2>5
      <3>2. CASE t = turn
        BY <2>1, <2>2, <2>5, <3>2 DEF row
      <3>3. CASE t \in 1 .. turn - 1
        <4>1. t \in DOMAIN rows
          BY <2>3, <3>3
        <4> QED
          BY <2>2, <2>5, <3>3, <4>1 DEF DataplaneRowInv, RowsCountAllReaders
      <3> QED
        BY <2>3, <3>1, <3>2, <3>3
    <2>7. turn' \in Nat /\ (Running' => turn' = turn + 1)
      BY <1>1, <2>3 DEF PrintRow, Running
    <2> QED
      BY <2>3, <2>5, <2>6, <2>7 DEF DataplaneRowInv
  <1>2. CASE UNCHANGED <<turn, rows>> /\ (Running' => Running) /\ (failed => failed')
    BY <1>2 DEF DataplaneRowInv, RowsCountAllReaders
  <1>3. PrintRow \/ (UNCHANGED <<turn, rows>> /\ (Running' => Running) /\ (failed => failed'))
    <2>1. CASE MainStep
      BY <2>1 DEF MainStep, Running, Setup, WriteTurn, ReadFailed, PrepareReader, PreparationDies, ScratchFails,
         StartRnic, CreateReader, CreateFails, AllCreated, OpenGate, JoinReaders, JoinRnic,
         FreeAll, GiveUp
    <2>2. ASSUME NEW r \in Request, ReaderStep(r)
          PROVE  UNCHANGED <<turn, rows, main, failed>>
      BY <2>2 DEF ReaderStep, Send, Receive, Arrive, PassGate, ReadBlocks
    <2>3. CASE RnicStep \/ UNCHANGED dataplaneVars
      BY <2>3 DEF RnicStep, RnicRound, RnicPoll, RnicAnswer, dataplaneVars, Running
    <2> QED
      BY <2>1, <2>2, <2>3 DEF NextDataplane, Running
  <1> QED
    BY <1>1, <1>2, <1>3

\* For any number of requests, blocks and rounds each turn's row counts the blocks that
\* all readers of the turn have read, none less and none of another turn, though it
\* names those of all turns so far; or, without memory for the turn, none.
THEOREM RowsAlwaysCountAllReaders == SpecDataplane => []RowsCountAllReaders
  <1>1. InitDataplane => BlocksInv /\ DataplaneRowInv
    BY DEF InitDataplane, BlocksInv, DataplaneRowInv, RowsCountAllReaders
  <1>2. DataplaneInv /\ BlocksInv /\ DataplaneRowInv /\ [NextDataplane]_dataplaneVars
          => (BlocksInv /\ DataplaneRowInv)'
    BY BlocksStep, DataplaneRowStep
  <1>3. DataplaneRowInv => RowsCountAllReaders
    BY DEF DataplaneRowInv
  <1> QED
    BY DataplaneAlways, <1>1, <1>2, <1>3, PTL DEF SpecDataplane
=============================================================================
