----------------------------- MODULE RdmaSweep ------------------------------
(***************************************************************************)
(* One sweep of N concurrent read requests (run_one_sweep of               *)
(* custom-test/test2-rdma-fin.c): main starts the RNIC thread, then one    *)
(* reader per request; each reader enqueues its request, spins on its      *)
(* response flag, waits at the start gate and reads its blocks; main joins *)
(* everybody, reports and frees what the threads shared.                   *)
(*                                                                         *)
(* The request queue is MpscFifo (MpscQueue implements it: one step of the *)
(* FIFO per enqueue and dequeue), the gate is StartGate.  `created` is the *)
(* C variable, which main resets after joining; `spawned` counts the       *)
(* readers that exist.                                                     *)
(***************************************************************************)
EXTENDS Naturals, Sequences, FiniteSets

CONSTANTS
  N,                \* active_requests
  Blocks            \* req_per_blocks

ASSUME SweepAssumption == N \in Nat \ {0} /\ Blocks \in Nat \ {0}

Reader == 0 .. N - 1
NoReq == N          \* the RNIC thread holds no request
Rnic == N           \* the RNIC thread, among the threads main joins

VARIABLES
  main,             \* where run_one_sweep is
  failed,           \* ret = -1
  created,          \* readers main has yet to join
  rnicStarted,      \* rnic_started
  joined,           \* history: threads joined so far, Rnic among them
  dataFreed,        \* nodes, requests, response flags and dctx are freed
  spawned, total, ready, open, at, mainAt,      \* StartGate
  reader,           \* where reader r's thread is
  enq, got,         \* MpscFifo: the request queue
  rnic,             \* where the RNIC thread is
  serving,          \* the request it dequeued last
  done,             \* requests it completed
  stamped,          \* the RNIC has written the request's expire_time
  response,         \* response_ready
  blocksRead        \* blocks_read

mainVars == <<main, failed, created, rnicStarted, joined, dataFreed>>
gate == <<spawned, total, ready, open, at, mainAt>>
fifo == <<enq, got>>
nicVars == <<rnic, serving, done, stamped>>
vars == <<mainVars, gate, reader, fifo, nicVars, response, blocksRead>>

Gate == INSTANCE StartGate
Fifo == INSTANCE MpscFifo WITH Node <- Reader

Init ==
  /\ main = "setup"
  /\ failed = FALSE
  /\ created = 0
  /\ rnicStarted = FALSE
  /\ joined = {}
  /\ dataFreed = FALSE
  /\ Gate!InitGate
  /\ reader = [r \in Reader |-> "none"]
  /\ Fifo!InitFifo
  /\ rnic = "none"
  /\ serving = NoReq
  /\ done = 0
  /\ stamped = [r \in Reader |-> FALSE]
  /\ response = [r \in Reader |-> FALSE]
  /\ blocksRead = 0

-----------------------------------------------------------------------------
(* run_one_sweep *)

\* Allocations done, queue, flags and gate initialised: the consumer comes first.
StartRnic ==
  /\ main = "setup"
  /\ main' = "create"
  /\ rnicStarted' = TRUE
  /\ rnic' = "poll"
  /\ UNCHANGED <<failed, created, joined, dataFreed, gate, reader, fifo, serving, done,
                 stamped, response, blocksRead>>

\* An allocation, or the creation of the RNIC thread, fails before any thread runs.
SetupFails ==
  /\ main = "setup"
  /\ main' = "joinFail"
  /\ failed' = TRUE
  /\ UNCHANGED <<created, rnicStarted, joined, dataFreed, gate, reader, fifo, nicVars,
                 response, blocksRead>>

CreateReader ==
  /\ main = "create"
  /\ Gate!SpawnReader
  /\ reader' = [reader EXCEPT ![spawned] = "submit"]
  /\ created' = created + 1
  /\ UNCHANGED <<main, failed, rnicStarted, joined, dataFreed, fifo, nicVars, response,
                 blocksRead>>

\* Mutant: cleanup without opening the gate.
CreateFailsGateShut ==
  /\ main = "create"
  /\ spawned < N
  /\ main' = "joinFail"
  /\ failed' = TRUE
  /\ UNCHANGED <<created, rnicStarted, joined, dataFreed, gate, reader, fifo, nicVars,
                 response, blocksRead>>

\* The scratch buffer, the request, the node or the thread of the next reader
\* cannot be had: open the gate for those that exist, then clean up.
CreateFails ==
  /\ main = "create"
  /\ Gate!OpenAfterCreated
  /\ main' = IF mainAt' = "through" THEN "joinFail" ELSE "atGate"
  /\ failed' = TRUE
  /\ UNCHANGED <<created, rnicStarted, joined, dataFreed, reader, fifo, nicVars, response,
                 blocksRead>>

AllCreated ==
  /\ main = "create"
  /\ Gate!OpenGate
  /\ main' = IF mainAt' = "through" THEN "join" ELSE "atGate"
  /\ UNCHANGED <<failed, created, rnicStarted, joined, dataFreed, reader, fifo, nicVars,
                 response, blocksRead>>

MainWakes ==
  /\ main = "atGate"
  /\ Gate!MainWakes
  /\ main' = IF mainAt' # "through" THEN "atGate" ELSE IF failed THEN "joinFail" ELSE "join"
  /\ UNCHANGED <<failed, created, rnicStarted, joined, dataFreed, reader, fifo, nicVars,
                 response, blocksRead>>

\* The joins return when all of threads[0 .. created - 1] have exited.
JoinCreated(then) ==
  /\ \A r \in Reader : r < created => reader[r] = "exit"
  /\ joined' = joined \cup {r \in Reader : r < created}
  /\ main' = then

JoinReaders ==
  /\ main = "join"
  /\ JoinCreated("joinRnic")
  /\ created' = 0
  /\ UNCHANGED <<failed, rnicStarted, dataFreed, gate, reader, fifo, nicVars, response,
                 blocksRead>>

\* Join the RNIC thread, then print the row from the counters.
JoinRnicAndReport ==
  /\ main = "joinRnic"
  /\ rnic = "exit"
  /\ joined' = joined \cup {Rnic}
  /\ rnicStarted' = FALSE
  /\ main' = "joinFail"
  /\ UNCHANGED <<failed, created, dataFreed, gate, reader, fifo, nicVars, response,
                 blocksRead>>

\* join_fail, where the successful path ends up too.
CleanupReaders ==
  /\ main = "joinFail"
  /\ JoinCreated("joinFailRnic")
  /\ UNCHANGED <<failed, created, rnicStarted, dataFreed, gate, reader, fifo, nicVars,
                 response, blocksRead>>

\* Mutant: the RNIC thread is not joined on the failure path, as in test2-rdma.c.
CleanupSkipsRnic ==
  /\ main = "joinFailRnic"
  /\ main' = "free"
  /\ UNCHANGED <<failed, created, rnicStarted, joined, dataFreed, gate, reader, fifo,
                 nicVars, response, blocksRead>>

CleanupRnic ==
  /\ main = "joinFailRnic"
  /\ rnicStarted => rnic = "exit"
  /\ joined' = IF rnicStarted THEN joined \cup {Rnic} ELSE joined
  /\ main' = "free"
  /\ UNCHANGED <<failed, created, rnicStarted, dataFreed, gate, reader, fifo, nicVars,
                 response, blocksRead>>

FreeAll ==
  /\ main = "free"
  /\ dataFreed' = TRUE
  /\ main' = "returned"
  /\ UNCHANGED <<failed, created, rnicStarted, joined, gate, reader, fifo, nicVars,
                 response, blocksRead>>

-----------------------------------------------------------------------------
(* rdma_reader_thread *)

\* Fill in the request, hang it on the reader's own node and enqueue that.
Submit(r) ==
  /\ reader[r] = "submit"
  /\ Fifo!Enqueue(r)
  /\ reader' = [reader EXCEPT ![r] = "spin"]
  /\ UNCHANGED <<mainVars, gate, nicVars, response, blocksRead>>

\* Mutant: the reader goes to the gate without waiting for its response.
SeeNothing(r) ==
  /\ reader[r] = "spin"
  /\ reader' = [reader EXCEPT ![r] = "gate"]
  /\ UNCHANGED <<mainVars, gate, fifo, nicVars, response, blocksRead>>

SeeResponse(r) ==
  /\ reader[r] = "spin"
  /\ response[r]
  /\ reader' = [reader EXCEPT ![r] = "gate"]
  /\ UNCHANGED <<mainVars, gate, fifo, nicVars, response, blocksRead>>

WaitAtGate(r) ==
  /\ reader[r] = "gate"
  /\ Gate!Arrive(r) \/ Gate!ReaderWakes(r)
  /\ UNCHANGED <<mainVars, reader, fifo, nicVars, response, blocksRead>>

\* Read the blocks and add the local counts to the sweep's.
ReadBlocks(r) ==
  /\ reader[r] = "gate"
  /\ at[r] = "through"
  /\ blocksRead' = blocksRead + Blocks
  /\ reader' = [reader EXCEPT ![r] = "exit"]
  /\ UNCHANGED <<mainVars, gate, fifo, nicVars, response>>

-----------------------------------------------------------------------------
(* rnic_thread *)

\* Dequeue the next request; while there is none (or its producer has not
\* linked it yet) the thread yields and polls again.
TakeRequest ==
  /\ rnic = "poll"
  /\ done < N
  /\ Fifo!Dequeue
  /\ serving' = enq[Len(got) + 1]
  /\ rnic' = "stamp"
  /\ UNCHANGED <<mainVars, gate, reader, done, stamped, response, blocksRead>>

\* Mutant: the response is published before the times are written.
StampAfterResponse ==
  /\ rnic = "stamp"
  /\ response' = [response EXCEPT ![serving] = TRUE]
  /\ rnic' = "respond"
  /\ UNCHANGED <<mainVars, gate, reader, fifo, serving, done, stamped, blocksRead>>

\* Work out expire_time and hold the completion until then.
StampRequest ==
  /\ rnic = "stamp"
  /\ stamped' = [stamped EXCEPT ![serving] = TRUE]
  /\ rnic' = "respond"
  /\ UNCHANGED <<mainVars, gate, reader, fifo, serving, done, response, blocksRead>>

Respond ==
  /\ rnic = "respond"
  /\ response' = [response EXCEPT ![serving] = TRUE]
  /\ done' = done + 1
  /\ serving' = NoReq
  /\ rnic' = "poll"
  /\ UNCHANGED <<mainVars, gate, reader, fifo, stamped, blocksRead>>

\* Mutant: the thread waits for one request more.
RnicExitLate ==
  /\ rnic = "poll"
  /\ done > N
  /\ rnic' = "exit"
  /\ UNCHANGED <<mainVars, gate, reader, fifo, serving, done, stamped, response, blocksRead>>

RnicExit ==
  /\ rnic = "poll"
  /\ done >= N
  /\ rnic' = "exit"
  /\ UNCHANGED <<mainVars, gate, reader, fifo, serving, done, stamped, response, blocksRead>>

-----------------------------------------------------------------------------

\* pthread_cond_wait returns without a broadcast.
SpuriousWakeup ==
  /\ Gate!SpuriousWakeup
  /\ UNCHANGED <<mainVars, reader, fifo, nicVars, response, blocksRead>>

MainStep ==
  \/ StartRnic \/ SetupFails \/ CreateReader \/ CreateFails \/ AllCreated \/ MainWakes
  \/ JoinReaders \/ JoinRnicAndReport \/ CleanupReaders \/ CleanupRnic \/ FreeAll

ReaderStep(r) == Submit(r) \/ SeeResponse(r) \/ WaitAtGate(r) \/ ReadBlocks(r)

RnicStep == TakeRequest \/ StampRequest \/ Respond \/ RnicExit

Next ==
  \/ MainStep
  \/ \E r \in Reader : ReaderStep(r)
  \/ RnicStep
  \/ SpuriousWakeup

Spec == Init /\ [][Next]_vars

\* Every thread runs: the loops spin or yield, and every wait that is over is
\* left.  Nothing is said of which way an allocation goes.
Fairness ==
  /\ WF_vars(MainStep)
  /\ \A r \in Reader : WF_vars(ReaderStep(r))
  /\ WF_vars(RnicStep)

FairSpec == Spec /\ Fairness

-----------------------------------------------------------------------------
(* Properties *)

\* Type invariant.
TypeOK ==
  /\ main \in {"setup", "create", "atGate", "join", "joinRnic", "joinFail",
               "joinFailRnic", "free", "returned"}
  /\ failed \in BOOLEAN
  /\ created \in 0 .. N
  /\ rnicStarted \in BOOLEAN
  /\ joined \subseteq Reader \cup {Rnic}
  /\ dataFreed \in BOOLEAN
  /\ Gate!GateTypeOK
  /\ reader \in [Reader -> {"none", "submit", "spin", "gate", "exit"}]
  /\ enq \in Seq(Reader)
  /\ got \in Seq(Reader)
  /\ rnic \in {"none", "poll", "stamp", "respond", "exit"}
  /\ serving \in Reader \cup {NoReq}
  /\ done \in 0 .. N
  /\ stamped \in [Reader -> BOOLEAN]
  /\ response \in [Reader -> BOOLEAN]
  /\ blocksRead \in 0 .. N * Blocks

\* No thread can still reach the nodes, requests, response flags or the device
\* context when main frees them, whichever path led there.
FreedDataIsUnused ==
  dataFreed =>
    /\ \A r \in Reader : reader[r] \in {"none", "exit"}
    /\ rnic \in {"none", "exit"}

\* join_fail is reached after the joins of the good path too: no thread is
\* joined a second time, which would be undefined.
JoinsOnce ==
  [][ /\ main \in {"join", "joinFail"} /\ main' # main
         => joined \cap {r \in Reader : r < created} = {}
      /\ main \in {"joinRnic", "joinFailRnic"} /\ main' # main
         => ~(Rnic \in joined /\ rnicStarted)
    ]_vars

\* A request has one owner at a time: from the dequeue to the response it is the
\* RNIC thread's and its reader does nothing but spin, and whoever has seen the
\* response finds expire_time written.
RequestHasOneOwner ==
  /\ serving # NoReq => reader[serving] = "spin" /\ ~response[serving]
  /\ \A r \in Reader : reader[r] \in {"gate", "exit"} => stamped[r]

\* No reader reads a block before every created reader has its response, so the
\* reads of a sweep start together.
ReadsStartTogether ==
  (\E r \in Reader : at[r] = "through") =>
    \A r \in Reader : r < spawned => response[r]

\* The printed row counts every block of every request.
ReportIsComplete ==
  (main = "joinFail" /\ ~failed) => (blocksRead = N * Blocks /\ done = N)

\* With the RNIC thread up before them, the created readers always drain, on
\* the failure path as well.
CreatedReadersDrain ==
  \A r \in Reader : (reader[r] = "submit") ~> (reader[r] = "exit")

\* A sweep whose readers could all be created returns, and what it printed counted
\* every block of every reader.
FullSweepReturns ==
  (spawned = N) ~> (main = "returned" /\ blocksRead = N * Blocks /\ done = N)

=============================================================================
