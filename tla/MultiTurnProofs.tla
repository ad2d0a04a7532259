--------------------------- MODULE MultiTurnProofs ---------------------------
(***************************************************************************)
(* For every number of requests, blocks and rounds: what a turn writes is  *)
(* what every later turn reads, and no reader runs while main writes or    *)
(* after its scratch buffer is freed.                                      *)
(*                                                                         *)
(* StoreInv says what the store holds of the blocks written so far; it     *)
(* needs that the blocks of different requests and numbers lie in          *)
(* different places, which is what the lemmas on block_ptr say.  PhaseInv  *)
(* says which readers exist in each phase of main.  CountInv says what     *)
(* they have counted so far, and RowInv what main made rows of.            *)
(***************************************************************************)
EXTENDS MultiTurn, DataLemmas

USE TurnAssumption

Phase == {"setup", "write", "begin", "create", "gate", "join", "returned", "exit", "killed"}

TypeInv ==
  /\ main \in Phase
  /\ turn \in 1 .. Rounds /\ i \in 0 .. Blocks
  /\ store \in [Place -> Int \X Int \X Int]
  /\ copy_to_dst \in BOOLEAN
  /\ reader \in [Request -> {"none", "start", "gate", "read", "exit"}]
  /\ nextBlk \in [Request -> Nat]
  /\ scratch \in [Request -> {"null", "held", "freed"}]
  /\ created \in 0 .. Requests

\* The blocks of each request that have been written, and what they hold.
Written == (turn - 1) * Blocks + i
Holds(r, blk) == store[block_ptr(r, blk)] = <<r, blk, blk \div Blocks + 1>>

StoreInv ==
  Alive =>
    /\ \A r \in Request, blk \in 0 .. Written - 1 : Holds(r, blk)
    /\ main \notin {"setup", "write"} => i = Blocks

ReaderInv == \A r \in Request : nextBlk[r] <= turn * Blocks

Running == {"start", "gate", "read"}

PhaseInv ==
  /\ main \in {"setup", "write", "begin", "returned"} => \A r \in Request : reader[r] \notin Running
  /\ main \in {"create", "gate", "join"} =>
       \A r \in Request :
         /\ r >= created => reader[r] = "none"
         /\ r < created /\ copy_to_dst => scratch[r] = "held"

IInv == TypeInv /\ StoreInv /\ VerifyNeverFails /\ ReaderInv /\ PhaseInv

-----------------------------------------------------------------------------
(* Where blocks lie *)

\* A product grows with its factor.
LEMMA Larger ==
  ASSUME NEW a \in Int, NEW b \in Int, NEW k \in Nat, a <= b
  PROVE  a * k <= b * k
  <1>1. (b - a) * k >= 0
    OBVIOUS
  <1> QED
    BY <1>1

\* A block of the store lies inside it.
LEMMA BlockInPlace ==
  ASSUME NEW r \in Request, NEW blk \in 0 .. Rounds * Blocks - 1
  PROVE  block_ptr(r, blk) \in Place
  <1>1. Rounds * Blocks \in Nat /\ blk * Requests \in Nat
    OBVIOUS
  <1>2. (blk + 1) * Requests <= (Rounds * Blocks) * Requests
    BY <1>1, Larger
  <1>3. (blk + 1) * Requests = blk * Requests + Requests
    OBVIOUS
  <1> QED
    BY <1>1, <1>2, <1>3 DEF block_ptr, Place, Request

\* Seen from the blocks numbered blk, a block of another number is no request's.
LEMMA BlocksApart ==
  ASSUME NEW r \in Request, NEW b \in Nat, NEW blk \in Nat, b # blk
  PROVE  block_ptr(r, b) - block_ptr(0, blk) \notin Request
  <1>1. b * Requests \in Nat /\ blk * Requests \in Nat
    OBVIOUS
  <1>2. CASE b < blk
    <2>1. (b + 1) * Requests <= blk * Requests
      BY <1>2, Larger
    <2>2. (b + 1) * Requests = b * Requests + Requests
      OBVIOUS
    <2> QED
      BY <1>1, <2>1, <2>2 DEF block_ptr, Request
  <1>3. CASE blk < b
    <2>1. (blk + 1) * Requests <= b * Requests
      BY <1>3, Larger
    <2>2. (blk + 1) * Requests = blk * Requests + Requests
      OBVIOUS
    <2> QED
      BY <1>1, <2>1, <2>2 DEF block_ptr, Request
  <1> QED
    BY <1>2, <1>3

\* The turn in which a block is written, counted as verify_block counts it.
LEMMA TurnOfBlock ==
  ASSUME NEW t \in Nat, NEW k \in 0 .. Blocks - 1
  PROVE  (t * Blocks + k) \div Blocks = t
  <1> DEFINE n == t * Blocks + k
             q == n \div Blocks
  <1>1. t * Blocks \in Nat
    OBVIOUS
  <1>2. q \in Nat /\ n = Blocks * q + (n % Blocks) /\ n % Blocks \in 0 .. Blocks - 1
    <2>1. n \in Nat
      BY <1>1
    <2> HIDE DEF n
    <2>2. q \in Nat
      BY <2>1
    <2>3. n % Blocks \in 0 .. Blocks - 1
      BY <2>1
    <2>4. n = Blocks * q + (n % Blocks)
      BY <2>1
    <2> QED
      BY <2>2, <2>3, <2>4
  <1> HIDE DEF q
  <1>3. q * Blocks \in Nat /\ Blocks * q = q * Blocks
    BY <1>2
  <1>4. ASSUME q < t PROVE FALSE
    <2>1. (q + 1) * Blocks <= t * Blocks
      BY <1>2, <1>4, Larger
    <2>2. (q + 1) * Blocks = q * Blocks + Blocks
      BY <1>2
    <2> QED
      BY <1>1, <1>2, <1>3, <2>1, <2>2
  <1>5. ASSUME t < q PROVE FALSE
    <2>1. (t + 1) * Blocks <= q * Blocks
      BY <1>2, <1>5, Larger
    <2>2. (t + 1) * Blocks = t * Blocks + Blocks
      OBVIOUS
    <2> QED
      BY <1>1, <1>2, <1>3, <2>1, <2>2
  <1> QED
    BY <1>2, <1>4, <1>5 DEF q

-----------------------------------------------------------------------------
(* The invariant *)

USE DEF writing, gate, counters, reading, vars

LEMMA InitInv == Init => IInv
  <1> SUFFICES ASSUME Init
               PROVE  IInv
    OBVIOUS
  <1>1. TypeInv
    BY DEF Init, TypeInv, Phase, Junk
  <1>2. Written = 0
    BY DEF Init, Written
  <1>3. StoreInv
    BY <1>2 DEF Init, StoreInv
  <1>4. VerifyNeverFails /\ ReaderInv /\ PhaseInv
    BY DEF Init, VerifyNeverFails, ReaderInv, PhaseInv, Running
  <1> QED
    BY <1>1, <1>3, <1>4 DEF IInv

LEMMA TypeStep == IInv /\ [Next]_vars => TypeInv'
  <1> SUFFICES ASSUME IInv, [Next]_vars
               PROVE  TypeInv'
    OBVIOUS
  <1> USE DEF IInv, TypeInv, Phase
  <1>1. CASE WriteChunk
    <2>1. (turn - 1) * Blocks + i \in Int
      BY <1>1 DEF WriteChunk
    <2>2. store' \in [Place -> Int \X Int \X Int]
      <3> DEFINE blk == (turn - 1) * Blocks + i
      <3>1. \A req \in Request : <<req, blk, turn>> \in Int \X Int \X Int
        BY <2>1 DEF Request
      <3>2. store' = [p \in Place |-> LET req == p - block_ptr(0, blk)
                                      IN IF req \in Request THEN <<req, blk, turn>> ELSE store[p]]
        BY <1>1 DEF WriteChunk
      <3> HIDE DEF blk
      <3> QED
        BY <3>1, <3>2
    <2> QED
      BY <1>1, <2>2 DEF WriteChunk
  <1>2. CASE Setup \/ TurnWritten \/ TurnRead \/ ReadFailed
    BY <1>2 DEF Setup, TurnWritten, TurnRead, ReadFailed, FreeMapped
  <1>3. CASE BeginRead \/ CreateReader \/ CreateFails \/ AllCreated \/ OpenGate
    BY <1>3 DEF BeginRead, CreateReader, CreateFails, AllCreated, OpenGate, Allocated
  <1>4. CASE JoinAndFree
    BY <1>4 DEF JoinAndFree, FreeMapped
  <1>5. ASSUME NEW r \in Request, ReaderStep(r)
        PROVE  TypeInv'
    BY <1>5 DEF ReaderStep, Arrive, PassGate, ReadBlock, ReaderExits
  <1>6. CASE UNCHANGED vars
    BY <1>6
  <1> QED
    BY <1>1, <1>2, <1>3, <1>4, <1>5, <1>6 DEF Next, MainStep, Ended

\* What is written stays as it is, and a chunk adds the next block of every request.
LEMMA StoreStep == IInv /\ [Next]_vars => StoreInv'
  <1> SUFFICES ASSUME IInv, [Next]_vars
               PROVE  StoreInv'
    OBVIOUS
  <1> USE DEF IInv, TypeInv
  <1>1. CASE WriteChunk
    <2> DEFINE blk == Written
    <2>1. blk \in Nat /\ blk = (turn - 1) * Blocks + i /\ (turn - 1) * Blocks \in Nat
      BY DEF Written
    <2>2. Written' = blk + 1
      BY <1>1, <2>1 DEF WriteChunk, Written
    <2>3. blk \div Blocks + 1 = turn
      BY <1>1, <2>1, TurnOfBlock DEF WriteChunk
    <2>4. blk + 1 <= Rounds * Blocks
      <3>1. (turn - 1 + 1) * Blocks <= Rounds * Blocks
        BY Larger
      <3>2. (turn - 1 + 1) * Blocks = (turn - 1) * Blocks + Blocks
        OBVIOUS
      <3>3. Rounds * Blocks \in Nat
        OBVIOUS
      <3> QED
        BY <1>1, <2>1, <3>1, <3>2, <3>3 DEF WriteChunk
    <2>5. ASSUME NEW r \in Request, NEW b \in 0 .. blk
          PROVE  Holds(r, b)'
      <3> DEFINE p == block_ptr(r, b)
      <3>1. p \in Place
        BY <2>1, <2>4, BlockInPlace
      <3>2. store'[p] = LET req == p - block_ptr(0, blk)
                        IN IF req \in Request THEN <<req, blk, turn>> ELSE store[p]
        <4> HIDE DEF p
        <4> QED
          BY <1>1, <2>1, <3>1 DEF WriteChunk
      <3>3. CASE b = blk
        <4>1. p - block_ptr(0, blk) = r
          <5>1. b * Requests \in Int
            BY <2>1
          <5> QED
            BY <3>3, <5>1 DEF block_ptr, Request
        <4> HIDE DEF p
        <4>2. store'[p] = <<r, blk, turn>>
          BY <3>2, <4>1
        <4> QED
          BY <2>3, <3>3, <4>2 DEF Holds, p
      <3>4. CASE b # blk
        <4>1. p - block_ptr(0, blk) \notin Request
          BY <2>1, <3>4, BlocksApart
        <4> HIDE DEF p
        <4>2. store'[p] = store[p]
          BY <3>2, <4>1
        <4>3. Holds(r, b)
          BY <1>1, <2>1, <3>4 DEF StoreInv, WriteChunk, Alive
        <4> QED
          BY <4>2, <4>3 DEF Holds, p
      <3> QED
        BY <3>3, <3>4
    <2> HIDE DEF blk
    <2>6. \A r \in Request, b \in 0 .. Written' - 1 : Holds(r, b)'
      BY <2>1, <2>2, <2>5
    <2> QED
      BY <1>1, <2>6 DEF StoreInv, WriteChunk, Alive
  <1>2. CASE TurnRead
    <2>1. CASE turn < Rounds
      <3>1. Written' = Written
        <4>1. (turn + 1 - 1) * Blocks = (turn - 1) * Blocks + Blocks
          OBVIOUS
        <4>2. i = Blocks
          BY <1>2 DEF TurnRead, StoreInv, Alive
        <4> QED
          BY <1>2, <2>1, <4>1, <4>2 DEF TurnRead, Written
      <3>2. store' = store /\ main = "returned" /\ main' = "write"
        BY <1>2, <2>1 DEF TurnRead
      <3> QED
        BY <3>1, <3>2 DEF StoreInv, Holds, Alive
    <2>2. CASE ~(turn < Rounds)
      BY <1>2, <2>2 DEF TurnRead, FreeMapped, StoreInv, Alive
    <2> QED
      BY <2>1, <2>2
  <1>3. CASE Setup \/ TurnWritten \/ ReadFailed
    BY <1>3 DEF Setup, TurnWritten, ReadFailed, FreeMapped, StoreInv, Holds, Written, Alive
  <1>4. CASE BeginRead \/ CreateReader \/ CreateFails \/ AllCreated \/ OpenGate \/ JoinAndFree
    BY <1>4 DEF BeginRead, CreateReader, CreateFails, AllCreated, OpenGate, JoinAndFree,
       FreeMapped, StoreInv, Holds, Written, Alive
  <1>5. ASSUME NEW r \in Request, ReaderStep(r)
        PROVE  StoreInv'
    BY <1>5 DEF ReaderStep, Arrive, PassGate, ReadBlock, ReaderExits, StoreInv, Holds, Written,
       Alive
  <1>6. CASE UNCHANGED vars
    BY <1>6 DEF StoreInv, Holds, Written, Alive
  <1> QED
    BY <1>1, <1>2, <1>3, <1>4, <1>5, <1>6 DEF Next, MainStep, Ended

\* Which readers there are, and that they keep their scratch buffers.
LEMMA PhaseStep == IInv /\ [Next]_vars => PhaseInv'
  <1> SUFFICES ASSUME IInv, [Next]_vars
               PROVE  PhaseInv'
    OBVIOUS
  <1> USE DEF IInv, TypeInv, PhaseInv, Running
  <1>1. CASE Setup \/ WriteChunk \/ TurnWritten \/ TurnRead \/ ReadFailed
    BY <1>1 DEF Setup, WriteChunk, TurnWritten, TurnRead, ReadFailed, FreeMapped
  <1>2. CASE BeginRead
    BY <1>2 DEF BeginRead, Request
  <1>3. CASE CreateReader
    BY <1>3 DEF CreateReader, Allocated, Request
  <1>4. CASE CreateFails
    BY <1>4 DEF CreateFails, Allocated, Request
  <1>5. CASE AllCreated \/ OpenGate
    BY <1>5 DEF AllCreated, OpenGate
  <1>6. CASE JoinAndFree
    BY <1>6 DEF JoinAndFree, FreeMapped, Request
  <1>7. ASSUME NEW r \in Request, ReaderStep(r)
        PROVE  PhaseInv'
    BY <1>7 DEF ReaderStep, Arrive, PassGate, ReadBlock, ReaderExits, Request
  <1>8. CASE UNCHANGED vars
    BY <1>8
  <1> QED
    BY <1>1, <1>2, <1>3, <1>4, <1>5, <1>6, <1>7, <1>8 DEF Next, MainStep, Ended

\* No reader goes past what is written, so what it verifies is what was written.
LEMMA ReadStep == IInv /\ [Next]_vars => VerifyNeverFails' /\ ReaderInv'
  <1> SUFFICES ASSUME IInv, [Next]_vars
               PROVE  VerifyNeverFails' /\ ReaderInv'
    OBVIOUS
  <1> USE DEF IInv, TypeInv, VerifyNeverFails, ReaderInv
  <1>0. turn * Blocks \in Nat
    OBVIOUS
  <1>1. CASE BeginRead
    BY <1>0, <1>1 DEF BeginRead
  <1>2. CASE TurnRead
    <2>1. turn * Blocks <= (turn + 1) * Blocks
      BY Larger
    <2>2. (turn + 1) * Blocks \in Nat
      OBVIOUS
    <2> QED
      BY <1>0, <1>2, <2>1, <2>2 DEF TurnRead
  <1>3. CASE \/ Setup \/ WriteChunk \/ TurnWritten \/ ReadFailed \/ CreateReader \/ CreateFails
             \/ AllCreated \/ OpenGate \/ JoinAndFree
    BY <1>3 DEF Setup, WriteChunk, TurnWritten, ReadFailed, CreateReader, CreateFails,
       AllCreated, OpenGate, JoinAndFree
  <1>4. ASSUME NEW r \in Request, ReadBlock(r)
        PROVE  VerifyNeverFails' /\ ReaderInv'
    <2>1. nextBlk[r] \in 0 .. turn * Blocks - 1
      BY <1>4 DEF ReadBlock, ReadBlocksPerReq
    <2>2. Written = turn * Blocks
      <3>1. i = Blocks
        BY <1>4 DEF ReadBlock, StoreInv, Alive, PhaseInv, Running
      <3>2. (turn - 1 + 1) * Blocks = (turn - 1) * Blocks + Blocks
        OBVIOUS
      <3> QED
        BY <3>1, <3>2 DEF Written
    <2>3. Holds(r, nextBlk[r])
      BY <1>4, <2>1, <2>2 DEF StoreInv, ReadBlock
    <2>4. verify_fail' = verify_fail
      BY <1>4, <2>3 DEF ReadBlock, Holds, verify_block
    <2> QED
      BY <1>0, <1>4, <2>1, <2>4 DEF ReadBlock
  <1>5. ASSUME NEW r \in Request, Arrive(r) \/ PassGate(r) \/ ReaderExits(r)
        PROVE  VerifyNeverFails' /\ ReaderInv'
    BY <1>5 DEF Arrive, PassGate, ReaderExits
  <1>6. CASE UNCHANGED vars
    BY <1>6
  <1> QED
    BY <1>1, <1>2, <1>3, <1>4, <1>5, <1>6 DEF Next, MainStep, ReaderStep, Ended

LEMMA Always == Spec => []IInv
  <1>1. IInv /\ [Next]_vars => IInv'
    BY TypeStep, StoreStep, PhaseStep, ReadStep DEF IInv
  <1> QED
    BY InitInv, <1>1, PTL DEF Spec

-----------------------------------------------------------------------------
\* Whatever the numbers of requests, blocks and turns, and whatever could not be had,
\* a reader finds in each block it reads the tag that write_turn gave it.
THEOREM EveryBlockVerifies == Spec => []VerifyNeverFails
  <1>1. IInv => VerifyNeverFails
    BY DEF IInv
  <1> QED
    BY Always, <1>1, PTL

\* The store is not written, and no scratch buffer freed, under a running reader.
THEOREM PhasesKeepApart == Spec => []PhasesDoNotOverlap
  <1>1. IInv => PhasesDoNotOverlap
    BY DEF IInv, TypeInv, PhaseInv, PhasesDoNotOverlap, Phase, Running, Alive, Request
  <1> QED
    BY Always, <1>1, PTL

-----------------------------------------------------------------------------
(* What the rows count *)

Exited == {r \in Request : reader[r] = "exit"}

\* In a turn without a failure the counter is that of the readers that exited, and
\* all of them have when read_cumulative returns.
Counted == blocks_read = Cardinality(Exited) * (turn * Blocks)

CountInv ==
  /\ ~failed /\ main \in {"create", "gate", "join", "returned"} => Counted
  /\ ~failed /\ main \in {"gate", "join"} => created = Requests
  /\ ~failed /\ main = "returned" => Exited = Request

RowInv ==
  /\ rows \in Seq(Int \X Int)
  /\ Alive => Len(rows) = turn - 1
  /\ RowsAreCumulative

LEMMA RequestsCounted ==
  ASSUME NEW S \in SUBSET Request
  PROVE  /\ IsFiniteSet(S) /\ Cardinality(S) \in Nat
         /\ Cardinality(Request) = Requests
         /\ \A r \in Request \ S : Cardinality(S \cup {r}) = Cardinality(S) + 1
  <1>1. IsFiniteSet(Request) /\ Cardinality(Request) = Requests
    BY BelowIsFinite DEF Request
  <1>2. IsFiniteSet(S)
    BY <1>1, FS_Subset
  <1>3. \A r \in Request \ S : Cardinality(S \cup {r}) = Cardinality(S) + 1
    BY <1>2, FS_AddElement
  <1>4. Cardinality(S) \in Nat
    BY <1>2, FS_CardinalityType
  <1> QED
    BY <1>1, <1>2, <1>3, <1>4

LEMMA CountStep == IInv /\ CountInv /\ [Next]_vars => CountInv'
  <1> SUFFICES ASSUME IInv, CountInv, [Next]_vars
               PROVE  CountInv'
    OBVIOUS
  <1>0. ASSUME UNCHANGED <<Exited, blocks_read, turn>>
        PROVE  Counted' = Counted
    BY <1>0 DEF Counted
  <1> USE DEF CountInv
  <1>1. CASE UNCHANGED vars
    <2>1. UNCHANGED <<Exited, blocks_read, turn, main, failed, created>>
      BY <1>1 DEF Exited
    <2> QED
      BY <1>0, <2>1
  <1>2. CASE Setup \/ WriteChunk \/ TurnWritten \/ TurnRead \/ ReadFailed
    <2>1. main' \notin {"create", "gate", "join", "returned"}
      BY <1>2 DEF Setup, WriteChunk, TurnWritten, TurnRead, ReadFailed, FreeMapped
    <2> QED
      BY <2>1
  <1>3. CASE BeginRead
    <2>1. CASE failed'
      BY <2>1
    <2>2. CASE reader' = [r \in Request |-> "none"] /\ blocks_read' = 0 /\ main' = "create"
      <3>1. Exited' = {}
        BY <2>2 DEF Exited
      <3>2. Cardinality(Exited') = 0
        BY <3>1, FS_EmptySet
      <3>3. turn' \in Int /\ Blocks \in Int
        BY <1>3 DEF BeginRead, IInv, TypeInv
      <3>4. 0 * (turn' * Blocks) = 0
        <4>1. \A a, b \in Int : 0 * (a * b) = 0
          OBVIOUS
        <4> QED
          BY <3>3, <4>1
      <3>5. Counted'
        BY <2>2, <3>2, <3>4 DEF Counted
      <3> QED
        BY <2>2, <3>5
    <2> QED
      BY <1>3, <2>1, <2>2 DEF BeginRead
  <1>4. CASE CreateReader
    <2>1. created \in Request /\ reader[created] = "none"
      BY <1>4 DEF CreateReader, PhaseInv, Request, IInv, TypeInv
    <2>2. Exited' = Exited
      BY <1>4, <2>1 DEF CreateReader, Exited, IInv, TypeInv
    <2>3. main' = main /\ main = "create" /\ UNCHANGED <<blocks_read, turn, failed>>
      BY <1>4 DEF CreateReader
    <2> QED
      BY <1>0, <2>2, <2>3
  <1>5. CASE CreateFails
    BY <1>5 DEF CreateFails
  <1>6. CASE AllCreated \/ OpenGate
    <2>1. UNCHANGED <<Exited, blocks_read, turn, failed, created>>
      BY <1>6 DEF AllCreated, OpenGate, Exited
    <2>2. \/ main = "create" /\ main' = "gate" /\ created = Requests
          \/ main = "gate" /\ main' = "join"
      BY <1>6 DEF AllCreated, OpenGate
    <2> QED
      BY <1>0, <2>1, <2>2
  <1>7. CASE JoinAndFree
    <2>1. Exited' = Exited /\ UNCHANGED <<failed, blocks_read, turn, created>>
      BY <1>7 DEF JoinAndFree, Exited
    <2>2. ~failed => Exited = Request
      BY <1>7 DEF JoinAndFree, Exited, Request
    <2>3. main = "join" /\ main' \in {"returned", "killed"}
      BY <1>7 DEF JoinAndFree, FreeMapped
    <2> QED
      BY <1>0, <2>1, <2>2, <2>3
  <1>8. ASSUME NEW r \in Request, Arrive(r) \/ PassGate(r) \/ ReadBlock(r)
        PROVE  CountInv'
    <2>1. Exited' = Exited
      BY <1>8 DEF Arrive, PassGate, ReadBlock, Exited, IInv, TypeInv
    <2>2. UNCHANGED <<main, blocks_read, turn, failed, created>>
      BY <1>8 DEF Arrive, PassGate, ReadBlock
    <2> QED
      BY <1>0, <2>1, <2>2
  <1>9. ASSUME NEW r \in Request, ReaderExits(r)
        PROVE  CountInv'
    <2>1. Exited' = Exited \cup {r} /\ r \in Request \ Exited /\ Exited \in SUBSET Request
      BY <1>9 DEF ReaderExits, Exited, IInv, TypeInv
    <2>2. PICK n \in Nat : n = Cardinality(Exited) /\ Cardinality(Exited') = n + 1
      BY <2>1, RequestsCounted
    <2>3. PICK k \in Nat : k = turn * Blocks
      BY DEF IInv, TypeInv
    <2>4. blocks_read' = blocks_read + k /\ UNCHANGED <<main, failed, turn, created>>
      BY <1>9, <2>3 DEF ReaderExits, ReadBlocksPerReq, IInv, ReaderInv
    <2>5. main # "returned"
      BY <1>9 DEF ReaderExits, PhaseInv, Running, IInv
    <2>6. Counted => Counted'
      <3>1. (n + 1) * k = n * k + k
        OBVIOUS
      <3>2. Counted <=> blocks_read = n * k
        BY <2>2, <2>3 DEF Counted
      <3>3. Counted' <=> blocks_read' = (n + 1) * k
        <4>1. turn' * Blocks = k
          BY <2>3, <2>4
        <4> QED
          BY <2>2, <4>1 DEF Counted
      <3> QED
        BY <2>4, <3>1, <3>2, <3>3
    <2> QED
      BY <2>4, <2>5, <2>6
  <1> QED
    BY <1>1, <1>2, <1>3, <1>4, <1>5, <1>6, <1>7, <1>8, <1>9 DEF Next, MainStep, ReaderStep, Ended

LEMMA RowStep == IInv /\ CountInv /\ RowInv /\ [Next]_vars => RowInv'
  <1> SUFFICES ASSUME IInv, CountInv, RowInv, [Next]_vars
               PROVE  RowInv'
    OBVIOUS
  <1>1. CASE TurnRead
    <2>1. rows' = Append(rows, <<blocks_read, verify_fail>>) /\ verify_fail = 0
      BY <1>1 DEF TurnRead, IInv, VerifyNeverFails
    <2>2. Cardinality(Exited) = Requests
      <3>1. Exited = Request
        BY <1>1 DEF TurnRead, CountInv
      <3>2. Request \in SUBSET Request
        OBVIOUS
      <3> QED
        BY <3>1, <3>2, RequestsCounted
    <2>3. turn \in Nat /\ turn \in Int /\ {Blocks, Requests} \subseteq Nat
      BY DEF IInv, TypeInv
    <2>4. blocks_read = turn * Blocks * Requests
      <3>1. blocks_read = Requests * (turn * Blocks)
        BY <1>1, <2>2 DEF TurnRead, CountInv, Counted
      <3>2. PICK a \in Nat, b \in Nat, c \in Nat : a = turn /\ b = Blocks /\ c = Requests
        BY <2>3
      <3>3. c * (a * b) = a * b * c
        OBVIOUS
      <3> QED
        BY <3>1, <3>2, <3>3
    <2>5. blocks_read \in Int
      <3>1. turn * Blocks \in Int
        BY <2>3
      <3> QED
        BY <2>3, <2>4, <3>1
    <2>6. Len(rows) = turn - 1 /\ rows \in Seq(Int \X Int)
      BY <1>1 DEF RowInv, Alive, TurnRead
    <2>7. rows' \in Seq(Int \X Int) /\ Len(rows') = turn
          /\ rows'[turn] = <<turn * Blocks * Requests, 0>>
          /\ \A t \in 1 .. turn - 1 : rows'[t] = rows[t]
      BY <2>1, <2>3, <2>4, <2>5, <2>6, AppendProperties
    <2>8. RowsAreCumulative'
      <3> SUFFICES ASSUME NEW t \in DOMAIN rows'
                   PROVE  rows'[t] = <<t * Blocks * Requests, 0>>
        BY DEF RowsAreCumulative
      <3>1. t \in 1 .. turn
        BY <2>7
      <3>2. CASE t = turn
        BY <2>7, <3>2
      <3>3. CASE t \in 1 .. turn - 1
        <4>1. t \in DOMAIN rows
          BY <2>6, <3>3
        <4> QED
          BY <2>7, <3>3, <4>1 DEF RowInv, RowsAreCumulative
      <3> QED
        BY <2>3, <3>1, <3>2, <3>3
    <2>9. Alive' => turn' = turn + 1
      BY <1>1 DEF TurnRead, FreeMapped, Alive
    <2> QED
      BY <2>3, <2>7, <2>8, <2>9 DEF RowInv
  <1>2. ASSUME UNCHANGED <<rows, turn>>, Alive' => Alive
        PROVE  RowInv'
    BY <1>2 DEF RowInv, RowsAreCumulative
  <1>3. TurnRead \/ (UNCHANGED <<rows, turn>> /\ (Alive' => Alive))
    <2>1. CASE UNCHANGED vars
      BY <2>1 DEF Alive
    <2>2. CASE MainStep
      BY <2>2 DEF MainStep, Alive, Setup, WriteChunk, TurnWritten, ReadFailed, BeginRead,
         CreateReader, CreateFails, AllCreated, OpenGate, JoinAndFree, FreeMapped
    <2>3. ASSUME NEW r \in Request, ReaderStep(r)
          PROVE  UNCHANGED <<rows, turn>> /\ (Alive' => Alive)
      BY <2>3 DEF ReaderStep, Arrive, PassGate, ReadBlock, ReaderExits, Alive
    <2> QED
      BY <2>1, <2>2, <2>3 DEF Next, Ended
  <1> QED
    BY <1>1, <1>2, <1>3

\* Whatever the numbers of requests, blocks and turns: the row of turn t counts the
\* blocks of turns 1 to t of every request, and no block that failed to verify.
THEOREM RowsAlwaysCumulative == Spec => []RowsAreCumulative
  <1>1. Init => CountInv /\ RowInv
    BY DEF Init, CountInv, RowInv, RowsAreCumulative
  <1>2. IInv /\ CountInv /\ RowInv /\ [Next]_vars => (CountInv /\ RowInv)'
    BY CountStep, RowStep
  <1>3. RowInv => RowsAreCumulative
    BY DEF RowInv
  <1> QED
    BY Always, <1>1, <1>2, <1>3, PTL DEF Spec
=============================================================================
