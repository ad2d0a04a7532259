----------------------------- MODULE EarlySweep -----------------------------
(***************************************************************************)
(* The first RDMA program, custom-test/test2-rdma.c: the readers of a      *)
(* sweep are created first, each puts its node on the lock-free queue and  *)
(* spins on response_ready; the RNIC thread, created last, takes nodes off *)
(* and answers, and never ends; main opens the gate once all readers have  *)
(* their answer, joins them and then joins the RNIC thread.                *)
(*                                                                         *)
(* Unlike the queue of test2-rdma-fin.c (MpscQueue), this one does not put *)
(* its stub back: mpsc_dequeue only returns a node that has a successor.   *)
(* One step is one access to an atomic: the exchange of tail, the store of *)
(* a link, the load of a link; head belongs to the RNIC thread.            *)
(***************************************************************************)
EXTENDS Naturals, Sequences

CONSTANT N                  \* active_requests

Reader == 0 .. N - 1
Stub == N
Null == N + 1
Cell == 0 .. N

VARIABLES
  main, created, failed,
  ready, total, open,       \* the start gate
  reader, prevTail,         \* where each reader is; its prev_tail
  head, tail, next,         \* the queue
  rnic, node,               \* the RNIC thread and the node it has taken
  response_ready,
  exchanged, served,        \* history: order of the exchanges, order of the answers
  left                      \* history: what mpsc_dequeue left queued when it last returned

mainVars == <<main, created, failed>>
gate == <<ready, total, open>>
queue == <<head, tail, next>>
nic == <<rnic, node, left>>
vars == <<mainVars, gate, reader, prevTail, queue, nic, response_ready, exchanged, served>>

Init ==
  /\ main = "create" /\ created = 0 /\ failed = FALSE
  /\ ready = 0 /\ total = N /\ open = FALSE
  /\ reader = [r \in Reader |-> "none"]
  /\ prevTail = [r \in Reader |-> Null]
  /\ head = Stub /\ tail = Stub                       \* mpsc_init
  /\ next = [x \in Cell |-> Null]
  /\ rnic = "none" /\ node = Null /\ left = {}
  /\ response_ready = [r \in Reader |-> FALSE]
  /\ exchanged = <<>> /\ served = <<>>

-----------------------------------------------------------------------------
(* run_one_sweep *)

CreateReader ==
  /\ main = "create" /\ created < N
  /\ reader' = [reader EXCEPT ![created] = "begin"]
  /\ created' = created + 1
  /\ UNCHANGED <<main, failed, gate, prevTail, queue, nic, response_ready, exchanged, served>>

\* The scratch buffer or the thread cannot be had: gate_open_after_created.
CreateFails ==
  /\ main = "create" /\ created < N
  /\ failed' = TRUE
  /\ total' = created
  /\ main' = "gate"
  /\ UNCHANGED <<created, ready, open, reader, prevTail, queue, nic, response_ready, exchanged,
                 served>>

StartRnic ==
  /\ main = "create" /\ created = N
  /\ rnic' = "load"
  /\ main' = "gate"
  /\ UNCHANGED <<created, failed, gate, reader, prevTail, queue, node, left, response_ready,
                 exchanged, served>>

\* The RNIC thread cannot be created: straight to the joins, the gate stays shut.
StartRnicFails ==
  /\ main = "create" /\ created = N
  /\ failed' = TRUE
  /\ main' = "joinFail"
  /\ UNCHANGED <<created, gate, reader, prevTail, queue, nic, response_ready, exchanged, served>>

OpenGate ==
  /\ main = "gate" /\ ready >= total
  /\ open' = TRUE
  /\ main' = IF failed THEN "joinFail" ELSE "join"
  /\ UNCHANGED <<created, failed, ready, total, reader, prevTail, queue, nic, response_ready,
                 exchanged, served>>

\* The readers, and then the RNIC thread, whose loop has no end.
JoinThreads ==
  /\ main = "join"
  /\ \A r \in Reader : reader[r] = "exit"
  /\ rnic = "exit"
  /\ main' = "returned"
  /\ UNCHANGED <<created, failed, gate, reader, prevTail, queue, nic, response_ready, exchanged,
                 served>>

\* join_fail.
JoinFail ==
  /\ main = "joinFail"
  /\ \A r \in 0 .. created - 1 : reader[r] = "exit"
  /\ main' = "returned"
  /\ UNCHANGED <<created, failed, gate, reader, prevTail, queue, nic, response_ready, exchanged,
                 served>>

-----------------------------------------------------------------------------
(* rdma_reader_thread and mpsc_enqueue *)

\* node->next = NULL and the exchange of tail.
Exchange(r) ==
  /\ reader[r] = "begin"
  /\ next' = [next EXCEPT ![r] = Null]
  /\ prevTail' = [prevTail EXCEPT ![r] = tail]
  /\ tail' = r
  /\ exchanged' = Append(exchanged, r)
  /\ reader' = [reader EXCEPT ![r] = "link"]
  /\ UNCHANGED <<mainVars, gate, head, nic, response_ready, served>>

\* The previous tail is linked to the node.
Link(r) ==
  /\ reader[r] = "link"
  /\ next' = [next EXCEPT ![prevTail[r]] = r]
  /\ reader' = [reader EXCEPT ![r] = "spin"]
  /\ UNCHANGED <<mainVars, gate, prevTail, head, tail, nic, response_ready, exchanged, served>>

\* The answer is seen; then ready++ at the gate.
Answered(r) ==
  /\ reader[r] = "spin" /\ response_ready[r]
  /\ reader' = [reader EXCEPT ![r] = "gate"]
  /\ ready' = ready + 1
  /\ UNCHANGED <<mainVars, total, open, prevTail, queue, nic, response_ready, exchanged, served>>

\* Through the gate, the blocks, and out.
Read(r) ==
  /\ reader[r] = "gate" /\ open
  /\ reader' = [reader EXCEPT ![r] = "exit"]
  /\ UNCHANGED <<mainVars, gate, prevTail, queue, nic, response_ready, exchanged, served>>

ReaderStep(r) == Exchange(r) \/ Link(r) \/ Answered(r) \/ Read(r)

-----------------------------------------------------------------------------
(* rnic_thread and mpsc_dequeue *)

InFlight == \E r \in Reader : reader[r] = "link"

\* NULL, at this moment: what is then on the queue, if no enqueue is under way that the
\* caller would have to wait for.
ReturnsNull ==
  /\ rnic' = "load"
  /\ left' = IF InFlight THEN {}
             ELSE {exchanged[i] : i \in DOMAIN exchanged} \ {served[i] : i \in DOMAIN served}
  /\ UNCHANGED <<head, node>>

\* The load of head->next and what follows from it.  From the stub, head moves
\* on and the link is loaded once more; a node with a successor is taken; one
\* without stays, whatever tail says (both branches return NULL).
Dequeue ==
  /\ rnic \in {"load", "again"}
  /\ IF next[head] = Null
     THEN ReturnsNull
     ELSE /\ head' = next[head]
          /\ IF head = Stub
             THEN rnic' = "again" /\ UNCHANGED <<node, left>>
             ELSE rnic' = "answer" /\ node' = head /\ left' = {}
  /\ UNCHANGED <<mainVars, gate, reader, prevTail, tail, next, response_ready, exchanged, served>>

\* rdma_read stamps the request, the flag is raised, and the loop goes on for ever.
Answer ==
  /\ rnic = "answer"
  /\ response_ready' = [response_ready EXCEPT ![node] = TRUE]
  /\ served' = Append(served, node)
  /\ node' = Null
  /\ rnic' = "load"
  /\ UNCHANGED <<mainVars, gate, reader, prevTail, queue, left, exchanged>>

RnicStep == Dequeue \/ Answer

MainStep ==
  \/ CreateReader \/ CreateFails \/ StartRnic \/ StartRnicFails
  \/ OpenGate \/ JoinThreads \/ JoinFail

Next == MainStep \/ (\E r \in Reader : ReaderStep(r)) \/ RnicStep

Spec == Init /\ [][Next]_vars

-----------------------------------------------------------------------------
(* What the comment says *)

\* test2-rdma.c:240 "Returns the node, or NULL if empty": when it returns NULL and no
\* producer is between its exchange and its link, no request is left on the queue.
NullMeansEmpty == left = {}
=============================================================================
