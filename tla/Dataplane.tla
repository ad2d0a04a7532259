------------------------------ MODULE Dataplane ------------------------------
(***************************************************************************)
(* The dataplane programs custom-test/test4.c and test4-nowait.c: in every *)
(* turn main writes the turn's blocks, starts an RNIC thread and one       *)
(* reader thread per request, opens the gate when all readers are at it,   *)
(* joins them, stops the RNIC thread by lowering dataplane_started, and    *)
(* prints a row.  A reader sends its request through a ring of its own     *)
(* (to_nic) and takes the answer from another (to_reader); the RNIC thread *)
(* polls the rings of all readers in turn.                                 *)
(*                                                                         *)
(* In test4-nowait.c (nowait) the readers do not send anything and the     *)
(* creation of the RNIC thread is commented out, but not its join.         *)
(* The rings are DPDK's, one producer and one consumer each: queues.       *)
(*                                                                         *)
(* As committed test4.c does not compile: line 855 tests rc before it is   *)
(* declared.  The test, of a pthread_create that is commented out, is left *)
(* out here.                                                               *)
(***************************************************************************)
EXTENDS Naturals, Sequences

CONSTANTS N,                    \* requests
          Blocks, Rounds        \* req_per_blocks, rounds

ASSUME DataplaneAssumption == {N, Blocks, Rounds} \subseteq Nat \ {0}

Request == 0 .. N - 1
None == N

VARIABLES
  nowait,                       \* which of the two programs
  main, turn,
  failed,                       \* history: something could not be had
  created, ready, total, open,
  reader,                       \* where request r's thread is
  to_nic, to_reader,            \* the rings
  rnic, at, holding,            \* the RNIC thread, its loop index, the request it has
  dataplane_started,
  memory,                       \* the store and, within read_rdma, args and dctx
  blocks_read,
  stamped,                      \* history: the requests that went through rdma_read
  taken,                        \* history: the request a reader took from its ring
  rows                          \* history: blocks per request and in all, as printed

program == <<nowait, turn, rows>>
gate == <<ready, total, open>>
rings == <<to_nic, to_reader>>
nic == <<rnic, at, holding, stamped>>
reading == <<reader, taken, blocks_read>>
dataplaneVars ==
  <<program, main, failed, created, gate, reading, rings, nic, dataplane_started, memory>>

Idle ==
  /\ created = 0 /\ ready = 0 /\ total = 0 /\ open = FALSE
  /\ reader = [r \in Request |-> "none"]
  /\ taken = [r \in Request |-> None]
  /\ rnic = "none" /\ at = 0 /\ holding = None
  /\ stamped = {}
  /\ dataplane_started = FALSE
  /\ blocks_read = 0

InitDataplane ==
  /\ nowait \in BOOLEAN
  /\ main = "setup" /\ turn = 1 /\ rows = <<>> /\ failed = FALSE
  /\ to_nic = [r \in Request |-> <<>>]
  /\ to_reader = [r \in Request |-> <<>>]
  /\ memory = {}
  /\ Idle

-----------------------------------------------------------------------------
(* main *)

\* Arguments, EAL, sizes, store, csv file and 2 * N rings: all of them, or main
\* gives back what it had and returns 1.
Setup ==
  /\ main = "setup"
  /\ \/ main' = "write" /\ memory' = {"store"} /\ UNCHANGED failed
     \/ main' = "exit" /\ failed' = TRUE /\ UNCHANGED memory
  /\ UNCHANGED <<program, created, gate, reading, rings, nic, dataplane_started>>

\* write_turn, then read_rdma up to gate_init.  Without threads or args read_rdma returns
\* -1 and forgets dctx.  Without dctx or its nic it goes to join_out, where created and ret
\* are not yet set: the process dies there, or frees all and returns anything.
WriteTurn ==
  /\ main = "write"
  /\ created' = 0 /\ ready' = 0 /\ total' = N /\ open' = FALSE
  /\ reader' = [r \in Request |-> "none"]
  /\ taken' = [r \in Request |-> None]
  /\ rnic' = "none" /\ at' = 0 /\ holding' = None /\ stamped' = {}
  /\ dataplane_started' = FALSE
  /\ blocks_read' = 0
  /\ \/ main' = "args" /\ memory' = memory \cup {"args", "dctx"} /\ UNCHANGED failed
     \/ main' = "refused" /\ memory' = memory \cup {"dctx"} /\ failed' = TRUE
     \/ main' \in {"returned", "refused", "killed"} /\ UNCHANGED memory /\ failed' = TRUE
  /\ UNCHANGED <<program, rings>>

\* read_rdma returned 0: the row, and the next turn or the end of main.
PrintRow ==
  /\ main = "returned"
  /\ rows' = Append(rows, [per_req |-> turn * Blocks, total |-> blocks_read])
  /\ IF turn < Rounds
     THEN turn' = turn + 1 /\ main' = "write" /\ UNCHANGED memory
     ELSE main' = "exit" /\ memory' = memory \ {"store"} /\ UNCHANGED turn
  /\ UNCHANGED <<nowait, failed, created, gate, reading, rings, nic, dataplane_started>>

ReadFailed ==
  /\ main = "refused"
  /\ main' = "exit" /\ memory' = memory \ {"store"}
  /\ UNCHANGED <<program, failed, created, gate, reading, rings, nic, dataplane_started>>

-----------------------------------------------------------------------------
(* read_rdma *)

\* The first loop fills in args[created] and counts it, though no thread exists yet.
PrepareReader ==
  /\ main = "args" /\ created < N
  /\ created' = created + 1
  /\ UNCHANGED <<program, main, failed, gate, reading, rings, nic, dataplane_started, memory>>

\* args[created].rdma_req or dctx->reader_args is used, and is null.
PreparationDies ==
  /\ main = "args" /\ created < N
  /\ main' = "killed" /\ failed' = TRUE
  /\ UNCHANGED <<program, created, gate, reading, rings, nic, dataplane_started, memory>>

\* gate_open_after_created(created), for what created then counts.
GiveUp == total' = created /\ failed' = TRUE /\ main' = "gate"

ScratchFails ==
  /\ main = "args" /\ created < N
  /\ GiveUp
  /\ UNCHANGED <<program, created, ready, open, reading, rings, nic, dataplane_started, memory>>

\* The RNIC thread; nobody looks whether it could be created.
StartRnic ==
  /\ main = "args" /\ created = N
  /\ main' = "create"
  /\ IF nowait
     THEN UNCHANGED <<rnic, failed, dataplane_started>>
     ELSE /\ dataplane_started' = TRUE
          /\ \/ rnic' = "boot" /\ UNCHANGED failed
             \/ failed' = TRUE /\ UNCHANGED rnic
  /\ UNCHANGED <<program, created, gate, reading, rings, at, holding, stamped, memory>>

\* The second loop, which goes on counting: created is N plus the threads.
CreateReader ==
  /\ main = "create" /\ created < 2 * N
  /\ reader' = [reader EXCEPT ![created - N] = "start"]
  /\ created' = created + 1
  /\ UNCHANGED <<program, main, failed, gate, taken, blocks_read, rings, nic, dataplane_started,
                 memory>>

CreateFails ==
  /\ main = "create" /\ created < 2 * N
  /\ GiveUp
  /\ UNCHANGED <<program, created, ready, open, reading, rings, nic, dataplane_started, memory>>

AllCreated ==
  /\ main = "create" /\ created = 2 * N
  /\ main' = "gate"
  /\ UNCHANGED <<program, failed, created, gate, reading, rings, nic, dataplane_started, memory>>

\* gate_open or gate_open_after_created; total is N only on the good path.
OpenGate ==
  /\ main = "gate" /\ ready >= total
  /\ open' = TRUE
  /\ main' = IF total = N THEN "join" ELSE "free"
  /\ UNCHANGED <<program, failed, created, ready, total, reading, rings, nic, dataplane_started,
                 memory>>

\* Mutant: dataplane_started stays up.
JoinLeavesStarted ==
  /\ main = "join"
  /\ \A r \in Request : reader[r] = "exit"
  /\ created' = 0
  /\ main' = "joinRnic"
  /\ UNCHANGED <<program, failed, gate, reading, rings, nic, dataplane_started, memory>>

\* The joins, created = 0, and the end of the RNIC thread's loop.
JoinReaders ==
  /\ main = "join"
  /\ \A r \in Request : reader[r] = "exit"
  /\ created' = 0 /\ dataplane_started' = FALSE
  /\ main' = "joinRnic"
  /\ UNCHANGED <<program, failed, gate, reading, rings, nic, memory>>

\* Mutant: the RNIC thread is told to stop, not waited for.
JoinNoRnic ==
  /\ main = "joinRnic"
  /\ main' = "free"
  /\ UNCHANGED <<program, failed, created, gate, reading, rings, nic, dataplane_started, memory>>

\* The join of threads[N].  In test4-nowait.c that is no thread but the zero of
\* calloc: the call returns an error or kills the process, as the library has it.
JoinRnic ==
  /\ main = "joinRnic"
  /\ IF nowait THEN main' \in {"free", "killed"} ELSE rnic = "exit" /\ main' = "free"
  /\ UNCHANGED <<program, failed, created, gate, reading, rings, nic, dataplane_started, memory>>

\* join_out; a failure gets here only with no thread to join, and total 0.
FreeAll ==
  /\ main = "free"
  /\ memory' = memory \ {"args", "dctx"}
  /\ main' = IF total = N THEN "returned" ELSE "refused"
  /\ UNCHANGED <<program, failed, created, gate, reading, rings, nic, dataplane_started>>

-----------------------------------------------------------------------------
(* rdma_reader_thread; nothing runs on when the process has died *)

Running == main \notin {"exit", "killed"}

Send(r) ==
  /\ reader[r] = "start" /\ ~nowait
  /\ to_nic' = [to_nic EXCEPT ![r] = Append(@, r)]
  /\ reader' = [reader EXCEPT ![r] = "spin"]
  /\ UNCHANGED <<program, main, failed, created, gate, taken, blocks_read, to_reader, nic,
                 dataplane_started, memory>>

Receive(r) ==
  /\ reader[r] = "spin" /\ to_reader[r] # <<>>
  /\ taken' = [taken EXCEPT ![r] = Head(to_reader[r])]
  /\ to_reader' = [to_reader EXCEPT ![r] = Tail(@)]
  /\ reader' = [reader EXCEPT ![r] = "answered"]
  /\ UNCHANGED <<program, main, failed, created, gate, blocks_read, to_nic, nic,
                 dataplane_started, memory>>

Arrive(r) ==
  /\ reader[r] = "answered" \/ (nowait /\ reader[r] = "start")
  /\ ready' = ready + 1
  /\ reader' = [reader EXCEPT ![r] = "gate"]
  /\ UNCHANGED <<program, main, failed, created, total, open, taken, blocks_read, rings, nic,
                 dataplane_started, memory>>

PassGate(r) ==
  /\ reader[r] = "gate" /\ open
  /\ reader' = [reader EXCEPT ![r] = "read"]
  /\ UNCHANGED <<program, main, failed, created, gate, taken, blocks_read, rings, nic,
                 dataplane_started, memory>>

\* read_blocks_per_req is req_per_blocks, whatever the turn.
ReadBlocks(r) ==
  /\ reader[r] = "read"
  /\ blocks_read' = blocks_read + Blocks
  /\ reader' = [reader EXCEPT ![r] = "exit"]
  /\ UNCHANGED <<program, main, failed, created, gate, taken, rings, nic, dataplane_started,
                 memory>>

ReaderStep(r) ==
  Running /\ (Send(r) \/ Receive(r) \/ Arrive(r) \/ PassGate(r) \/ ReadBlocks(r))

-----------------------------------------------------------------------------
(* rnic_thread *)

\* The wait for dataplane_started, and the test of it before each round.
RnicRound ==
  /\ \/ rnic = "boot" /\ dataplane_started /\ rnic' = "round"
     \/ rnic = "round" /\ rnic' = IF dataplane_started THEN "poll" ELSE "exit"
  /\ at' = 0
  /\ UNCHANGED <<program, main, failed, created, gate, reading, rings, holding, stamped,
                 dataplane_started, memory>>

\* Reader at's ring is empty, or its request is taken; after the last, a new round.
RnicPoll ==
  /\ rnic = "poll"
  /\ IF at = N
     THEN rnic' = "round" /\ UNCHANGED <<at, holding, to_nic>>
     ELSE IF to_nic[at] = <<>>
          THEN at' = at + 1 /\ UNCHANGED <<rnic, holding, to_nic>>
          ELSE /\ holding' = Head(to_nic[at])
               /\ to_nic' = [to_nic EXCEPT ![at] = Tail(@)]
               /\ rnic' = "answer"
               /\ UNCHANGED at
  /\ UNCHANGED <<program, main, failed, created, gate, reading, to_reader, stamped,
                 dataplane_started, memory>>

\* Mutant: the index has moved on when the ring of the answer is looked up.
RnicAnswersNext ==
  /\ rnic = "answer"
  /\ stamped' = stamped \cup {holding}
  /\ to_reader' = [to_reader EXCEPT ![(at + 1) % N] = Append(@, holding)]
  /\ holding' = None /\ at' = at + 1 /\ rnic' = "poll"
  /\ UNCHANGED <<program, main, failed, created, gate, reading, to_nic, dataplane_started, memory>>

\* rdma_read stamps the request; the answer goes into reader at's ring.
RnicAnswer ==
  /\ rnic = "answer"
  /\ stamped' = stamped \cup {holding}
  /\ to_reader' = [to_reader EXCEPT ![at] = Append(@, holding)]
  /\ holding' = None /\ at' = at + 1 /\ rnic' = "poll"
  /\ UNCHANGED <<program, main, failed, created, gate, reading, to_nic, dataplane_started, memory>>

RnicStep == Running /\ (RnicRound \/ RnicPoll \/ RnicAnswer)

MainStep ==
  \/ Setup \/ WriteTurn \/ PrintRow \/ ReadFailed
  \/ PrepareReader \/ PreparationDies \/ ScratchFails \/ StartRnic \/ CreateReader \/ CreateFails \/ AllCreated
  \/ OpenGate \/ JoinReaders \/ JoinRnic \/ FreeAll

NextDataplane == MainStep \/ (\E r \in Request : ReaderStep(r)) \/ RnicStep

SpecDataplane ==
  /\ InitDataplane /\ [][NextDataplane]_dataplaneVars
  /\ WF_dataplaneVars(MainStep) /\ WF_dataplaneVars(RnicStep)
  /\ \A r \in Request : WF_dataplaneVars(ReaderStep(r))

-----------------------------------------------------------------------------
(* Properties *)

\* A request in flight is in one place only, and that on its own reader's way:
\* sent, taken by the RNIC thread, or answered, while the reader spins for it.
RequestIsInOnePlace ==
  \A r \in Request :
    LET places == (IF to_nic[r] = <<r>> THEN {"to_nic"} ELSE {})
                    \cup (IF holding = r THEN {"rnic"} ELSE {})
                    \cup (IF to_reader[r] = <<r>> THEN {"to_reader"} ELSE {})
    IN /\ reader[r] = "spin" <=> \E p \in {"to_nic", "rnic", "to_reader"} : places = {p}
       /\ reader[r] # "spin" => places = {} /\ to_nic[r] = <<>> /\ to_reader[r] = <<>>

\* Threads that use args, dctx or the store run only while main keeps them.
ThreadsHaveTheirMemory ==
  /\ Running
  /\ rnic \notin {"none", "exit"} \/ \E r \in Request : reader[r] \notin {"none", "exit"}
  => {"store", "args", "dctx"} \subseteq memory

\* The row of turn t names the blocks of turns 1 to t, and counts one turn's of every
\* reader, or none if read_rdma, without its memory, returned a 0 nobody had set.
RowsCountAllReaders ==
  \A t \in DOMAIN rows :
    /\ rows[t].per_req = t * Blocks
    /\ rows[t].total = N * Blocks \/ (failed /\ rows[t].total = 0)

\* test4.c reports every turn with the blocks of all its readers, unless something could
\* not be had: polling serves every reader, and the RNIC thread sees dataplane_started
\* fall.
EveryTurnReported ==
  nowait \/ <>(failed \/ (main = "exit" /\ Len(rows) = Rounds /\ RowsCountAllReaders))

=============================================================================
