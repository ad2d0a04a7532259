------------------------------ MODULE MultiTurn ------------------------------
(***************************************************************************)
(* custom-test/test3-mt.c: in every turn main appends req_per_blocks       *)
(* blocks per request to the store (write_turn) and then one thread per    *)
(* request reads everything written so far (read_cumulative).              *)
(*                                                                         *)
(* The unit of length is one block; a block holds <<request, block, turn>>,*)
(* the tag the readers verify.  Memory comes from xaligned_alloc, which    *)
(* maps huge pages, and is given back with free(): that is undefined, and  *)
(* the process dies of it or, if the bytes before the mapping look like a  *)
(* heap header, goes on.                                                   *)
(***************************************************************************)
EXTENDS Integers, Sequences

CONSTANTS Requests, Blocks, Rounds      \* requests, req_per_blocks, rounds

ASSUME TurnAssumption == {Requests, Blocks, Rounds} \subseteq Nat \ {0}

Request == 0 .. Requests - 1
Place == 0 .. Rounds * Blocks * Requests - 1
Junk == <<-1, -1, 0>>

VARIABLES
  main,                 \* where main is
  turn,
  i,                    \* write_turn's loop: the chunk of this turn to write
  store,
  copy_to_dst,
  reader,               \* where request r's thread is
  nextBlk,              \* the block it reads next
  scratch,              \* its scratch buffer: "null", "held" or "freed"
  created, ready, total, open,
  blocks_read, verify_fail,
  failed,               \* history: some allocation, file or thread could not be had
  rows                  \* history: <<blocks read, verify_fail>> of each turn's row

writing == <<turn, i, store, copy_to_dst>>
gate == <<ready, total, open>>
counters == <<blocks_read, verify_fail>>
reading == <<reader, nextBlk, scratch, created, gate, counters>>
vars == <<main, writing, reading, failed, rows>>

Init ==
  /\ main = "setup"
  /\ turn = 1 /\ i = 0
  /\ store = [p \in Place |-> Junk]
  /\ copy_to_dst \in BOOLEAN
  /\ reader = [r \in Request |-> "none"]
  /\ nextBlk = [r \in Request |-> 0]
  /\ scratch = [r \in Request |-> "null"]
  /\ created = 0 /\ ready = 0 /\ total = 0 /\ open = FALSE
  /\ blocks_read = 0 /\ verify_fail = 0
  /\ failed = FALSE
  /\ rows = <<>>

\* What free() of a mapping may do: kill the process, or nothing that shows.
FreeMapped(then) == main' \in {"killed", then}

-----------------------------------------------------------------------------
(* main *)

\* Arguments, sizes, the store, the csv file; each may fail and end the program.
Setup ==
  /\ main = "setup"
  /\ \/ main' = "write" /\ UNCHANGED failed
     \/ main' \in {"exit", "killed"} /\ failed' = TRUE      \* free(store), csv not opened
  /\ UNCHANGED <<writing, reading, rows>>

block_ptr(req, blk) == blk * Requests + req

\* One iteration of write_turn: block first_blk + i of every request.
WriteChunk ==
  /\ main = "write" /\ i < Blocks
  /\ LET blk == (turn - 1) * Blocks + i
     IN store' = [p \in Place |->
                    LET req == p - block_ptr(0, blk)
                    IN IF req \in Request THEN <<req, blk, turn>> ELSE store[p]]
  /\ i' = i + 1
  /\ UNCHANGED <<main, turn, copy_to_dst, reading, failed, rows>>

TurnWritten ==
  /\ main = "write" /\ i = Blocks
  /\ main' = "begin"
  /\ UNCHANGED <<writing, reading, failed, rows>>

\* read_cumulative returned: the row, and the next turn or the end.
TurnRead ==
  /\ main = "returned" /\ ~failed
  /\ rows' = Append(rows, counters)
  /\ i' = 0
  /\ IF turn < Rounds
     THEN turn' = turn + 1 /\ main' = "write"
     ELSE UNCHANGED turn /\ FreeMapped("exit")
  /\ UNCHANGED <<store, copy_to_dst, reading, failed>>

\* read_cumulative failed: the csv file is closed, the store freed.
ReadFailed ==
  /\ main = "returned" /\ failed
  /\ FreeMapped("exit")
  /\ UNCHANGED <<writing, reading, failed, rows>>

-----------------------------------------------------------------------------
(* read_cumulative *)

BeginRead ==
  /\ main = "begin"
  /\ \/ /\ main' = "create"
        /\ reader' = [r \in Request |-> "none"]
        /\ nextBlk' = [r \in Request |-> 0]
        /\ scratch' = [r \in Request |-> "null"]
        /\ created' = 0 /\ ready' = 0 /\ total' = Requests /\ open' = FALSE
        /\ blocks_read' = 0 /\ verify_fail' = 0
        /\ UNCHANGED failed
     \/ main' = "returned" /\ failed' = TRUE /\ UNCHANGED reading
  /\ UNCHANGED <<writing, rows>>

Allocated == IF copy_to_dst THEN "held" ELSE "null"

CreateReader ==
  /\ main = "create" /\ created < Requests
  /\ scratch' = [scratch EXCEPT ![created] = Allocated]
  /\ reader' = [reader EXCEPT ![created] = "start"]
  /\ created' = created + 1
  /\ UNCHANGED <<main, writing, nextBlk, gate, counters, failed, rows>>

\* Mutant: the gate keeps waiting for all the requests.
CreateFailsTotalKept ==
  /\ main = "create" /\ created < Requests
  /\ \/ copy_to_dst /\ UNCHANGED scratch
     \/ scratch' = [scratch EXCEPT ![created] = Allocated]
  /\ failed' = TRUE
  /\ main' = "gate"
  /\ UNCHANGED <<writing, reader, nextBlk, created, gate, counters, rows>>

\* The scratch buffer, or after it the thread, cannot be had.
CreateFails ==
  /\ main = "create" /\ created < Requests
  /\ \/ copy_to_dst /\ UNCHANGED scratch
     \/ scratch' = [scratch EXCEPT ![created] = Allocated]
  /\ failed' = TRUE
  /\ total' = created
  /\ main' = "gate"
  /\ UNCHANGED <<writing, reader, nextBlk, created, ready, open, counters, rows>>

AllCreated ==
  /\ main = "create" /\ created = Requests
  /\ main' = "gate"
  /\ UNCHANGED <<writing, reading, failed, rows>>

OpenGate ==
  /\ main = "gate" /\ ready >= total
  /\ open' = TRUE
  /\ main' = "join"
  /\ UNCHANGED <<writing, reader, nextBlk, scratch, created, ready, total, counters, failed, rows>>

\* Mutant: no joins; the results are taken as they are.
NoJoin ==
  /\ main = "join"
  /\ IF \E r \in Request : scratch[r] = "held" THEN FreeMapped("returned") ELSE main' = "returned"
  /\ scratch' = [r \in Request |-> IF scratch[r] = "held" THEN "freed" ELSE scratch[r]]
  /\ UNCHANGED <<writing, reader, nextBlk, created, gate, counters, failed, rows>>

\* The joins of the created readers, then free() of every scratch buffer.
JoinAndFree ==
  /\ main = "join"
  /\ \A r \in Request : r < created => reader[r] = "exit"
  /\ IF \E r \in Request : scratch[r] = "held" THEN FreeMapped("returned") ELSE main' = "returned"
  /\ scratch' = [r \in Request |-> IF scratch[r] = "held" THEN "freed" ELSE scratch[r]]
  /\ UNCHANGED <<writing, reader, nextBlk, created, gate, counters, failed, rows>>

-----------------------------------------------------------------------------
(* reader_thread *)

Alive == main \notin {"exit", "killed"}

Arrive(r) ==
  /\ Alive /\ reader[r] = "start"
  /\ reader' = [reader EXCEPT ![r] = "gate"]
  /\ ready' = ready + 1
  /\ UNCHANGED <<main, writing, nextBlk, scratch, created, total, open, counters, failed, rows>>

PassGate(r) ==
  /\ Alive /\ reader[r] = "gate" /\ open
  /\ reader' = [reader EXCEPT ![r] = "read"]
  /\ UNCHANGED <<main, writing, nextBlk, scratch, created, gate, counters, failed, rows>>

\* Mutant: turns are counted from 0.
VerifyTurnFromZero(tag, req, blk) == tag = <<req, blk, blk \div Blocks>>

verify_block(tag, req, blk) == tag = <<req, blk, blk \div Blocks + 1>>

ReadBlocksPerReq == turn * Blocks

\* A block fails to verify, or not; failures are added to the shared counter.
ReadBlock(r) ==
  /\ Alive /\ reader[r] = "read" /\ nextBlk[r] < ReadBlocksPerReq
  /\ verify_fail' = IF verify_block(store[block_ptr(r, nextBlk[r])], r, nextBlk[r])
                    THEN verify_fail ELSE verify_fail + 1
  /\ nextBlk' = [nextBlk EXCEPT ![r] = nextBlk[r] + 1]
  /\ UNCHANGED <<main, writing, reader, scratch, created, gate, blocks_read, failed, rows>>

ReaderExits(r) ==
  /\ Alive /\ reader[r] = "read" /\ nextBlk[r] = ReadBlocksPerReq
  /\ blocks_read' = blocks_read + nextBlk[r]
  /\ reader' = [reader EXCEPT ![r] = "exit"]
  /\ UNCHANGED <<main, writing, nextBlk, scratch, created, gate, verify_fail, failed, rows>>

ReaderStep(r) == Arrive(r) \/ PassGate(r) \/ ReadBlock(r) \/ ReaderExits(r)

MainStep ==
  \/ Setup \/ WriteChunk \/ TurnWritten \/ TurnRead \/ ReadFailed
  \/ BeginRead \/ CreateReader \/ CreateFails \/ AllCreated \/ OpenGate \/ JoinAndFree

Ended == ~Alive /\ UNCHANGED vars

Next == MainStep \/ (\E r \in Request : ReaderStep(r)) \/ Ended

Spec == Init /\ [][Next]_vars /\ WF_vars(MainStep) /\ \A r \in Request : WF_vars(ReaderStep(r))

-----------------------------------------------------------------------------
(* Properties *)

\* Every block a reader sees carries the request, the number and the turn it
\* expects there, in every turn and whatever the order of the readers.
VerifyNeverFails == verify_fail = 0

\* The store is written while no reader runs, and a running reader keeps its
\* scratch buffer: the phases of a turn, and of consecutive turns, do not overlap.
PhasesDoNotOverlap ==
  \A r \in Request : reader[r] \in {"start", "gate", "read"} =>
    /\ main \notin {"write", "begin"}
    /\ Alive /\ copy_to_dst => scratch[r] = "held"

\* The program ends, one way or the other: no failure leaves it at the gate.  The row of
\* turn t, if it got that far, counts the blocks of turns 1 to t of all requests, all
\* verified (test3-mt.c:21-24).
RowsAreCumulative ==
  \A t \in DOMAIN rows : rows[t] = <<t * Blocks * Requests, 0>>

EndsWithCumulativeRows == <>(~Alive /\ RowsAreCumulative)

=============================================================================
