-------------------------- MODULE BenchmarkProofs ---------------------------
(***************************************************************************)
(* The measurements of benchmark.cpp, for every number of threads and      *)
(* size.                                                                   *)
(*                                                                         *)
(* AccessPatterns, for every size of partition, block, stride and          *)
(* register: no access of a worker leaves its partition, what it has       *)
(* reported and still holds is the sum of its accesses, and what it        *)
(* records is a trace of them from the first one and no more latencies     *)
(* than it reserved (SampleInv).  No byte is skipped, nor accessed twice   *)
(* where the sizes divide (TileInv): it says of each kind of loop which    *)
(* bytes the rounds so far have touched; in a stride test a byte is known  *)
(* by the phase, offset and block that come to it (Place), and those are   *)
(* passed in a fixed order (Earlier).                                      *)
(*                                                                         *)
(* BenchRun, for every number of workers and accesses and every list of    *)
(* tests: no access is made while a worker still prepares, main is alone   *)
(* when it clears and saves the buffers, what it saves of a test is of     *)
(* that test and of all its workers, and the progress printed is the       *)
(* accesses made.  The barrier is a count: main sees readyCount = N, which *)
(* by CountInv is the number of workers past their preparation, so all of  *)
(* them are.  StageInv says how far the workers and main let each other    *)
(* be, BufferInv whose buffers the collections hold, ReportInv (with the   *)
(* sums of DataLemmas) what has been reported.                             *)
(*                                                                         *)
(* PointerChase, for every list, number of load threads and partition: the *)
(* chase goes round the whole list, the load runs while it is measured,    *)
(* and no load thread leaves its partition.  That the shuffled links are   *)
(* one ring is an induction over their number.                             *)
(***************************************************************************)
EXTENDS AccessPatterns, BenchRun, PointerChase, DataLemmas

-----------------------------------------------------------------------------
(* The accesses of a worker (AccessPatterns) *)

\* The constants are positive.
LEMMA Positive ==
  /\ IntSize \in Nat \ {0} /\ VecInts \in Nat \ {0} /\ Vec \in Nat \ {0}
  /\ UpdateInterval \in Nat \ {0} /\ SampleInterval \in Nat \ {0}
  BY PatternAssumption DEF Vec

\* A number splits into quotient and remainder.
LEMMA Division ==
  ASSUME NEW n \in Nat, NEW d \in Nat \ {0}
  PROVE  /\ n \div d \in Nat
         /\ n % d \in 0 .. d - 1
         /\ n = d * (n \div d) + (n % d)
         /\ d * (n \div d) <= n
  <1>1. n \div d \in Nat
    OBVIOUS
  <1>2. n % d \in 0 .. d - 1
    OBVIOUS
  <1>3. n = d * (n \div d) + (n % d)
    OBVIOUS
  <1>4. d * (n \div d) <= n
    OBVIOUS
  <1> QED
    BY <1>1, <1>2, <1>3, <1>4

\* The i-th of k pieces ends before the k-th does.
LEMMA Monotone ==
  ASSUME NEW i \in Nat, NEW k \in Nat, NEW d \in Nat, i < k
  PROVE  i * d + d <= k * d
  <1>1. PICK r \in Nat : k = i + 1 + r
    <2>1. k - (i + 1) \in Nat
      OBVIOUS
    <2> QED
      BY <2>1
  <1>2. k * d = i * d + d + r * d
    BY <1>1
  <1>3. r * d \in Nat
    OBVIOUS
  <1> QED
    BY <1>2, <1>3

\* Products grow with their factors.
LEMMA Times ==
  ASSUME NEW i \in Nat, NEW k \in Nat, NEW d \in Nat, i <= k
  PROVE  i * d <= k * d /\ i * d \in Nat /\ k * d \in Nat
  <1>1. PICK r \in Nat : k = i + r
    <2>1. k - i \in Nat
      OBVIOUS
    <2> QED
      BY <2>1
  <1>2. k * d = i * d + r * d
    BY <1>1
  <1>3. r * d \in Nat /\ i * d \in Nat
    OBVIOUS
  <1> QED
    BY <1>2, <1>3

\* Division undoes multiplication.
LEMMA Quotient ==
  ASSUME NEW q \in Nat, NEW d \in Nat \ {0}
  PROVE  (d * q) \div d = q
  <1> DEFINE n == d * q
  <1> DEFINE x == n \div d
  <1>1. n \in Nat
    OBVIOUS
  <1>2. /\ x \in Nat
        /\ n % d \in 0 .. d - 1
        /\ n = d * x + (n % d)
    BY <1>1, Division
  <1>3. ~ (x < q)
    <2> SUFFICES ASSUME x < q
                 PROVE  FALSE
      OBVIOUS
    <2>1. x * d + d <= q * d
      BY <1>2, Monotone
    <2>2. q * d = x * d + (n % d)
      BY <1>2
    <2> QED
      BY <1>2, <2>1, <2>2
  <1>4. ~ (q < x)
    <2> SUFFICES ASSUME q < x
                 PROVE  FALSE
      OBVIOUS
    <2>1. q * d + d <= x * d
      BY <1>2, Monotone
    <2>2. q * d = x * d + (n % d)
      BY <1>2
    <2> QED
      BY <1>2, <2>1, <2>2
  <1> QED
    BY <1>2, <1>3, <1>4

-----------------------------------------------------------------------------
(* Blocks *)

FirstOf(index) == ((index * block) \div IntSize) * IntSize
Registers == (block \div IntSize) \div VecInts

\* The registers of a block are in the block, but for a start at an int before it,
\* and end in the partition.
LEMMA BlockFits ==
  ASSUME per \in Nat, block \in Nat \ {0}, NEW index \in 0 .. NumBlocks - 1
  PROVE  /\ FirstOf(index) \in Nat
         /\ Registers \in Nat
         /\ FirstOf(index) + Registers * Vec <= per
  <1> DEFINE ints == block \div IntSize
  <1> DEFINE start == index * block
  <1>1. /\ NumBlocks \in Nat
        /\ block * NumBlocks <= per
    BY Division DEF NumBlocks
  <1>2. start \in Nat
    BY <1>1
  <1>3. /\ FirstOf(index) \in Nat
        /\ FirstOf(index) <= start
    <2> DEFINE x == start \div IntSize
    <2>1. x \in Nat /\ IntSize * x <= start
      BY <1>2, Positive, Division
    <2>2. FirstOf(index) = IntSize * x /\ IntSize * x \in Nat
      <3>1. FirstOf(index) = x * IntSize
        BY DEF FirstOf
      <3> HIDE DEF x
      <3> QED
        BY <2>1, <3>1, Positive
    <2> QED
      BY <2>1, <2>2
  <1>4. /\ ints \in Nat
        /\ IntSize * ints <= block
    BY Positive, Division
  <1>5. /\ Registers \in Nat
        /\ VecInts * Registers <= ints
    BY <1>4, Positive, Division DEF Registers
  <1>6. Registers * Vec <= block
    <2> DEFINE used == VecInts * Registers
    <2>1. used \in Nat
      BY <1>5, Positive
    <2>2. Registers * Vec = IntSize * used
      BY <1>5, Positive DEF Vec
    <2>3. IntSize * used <= IntSize * ints
      <3>1. PICK r \in Nat : ints = used + r
        <4>1. ints - used \in Nat
          BY <1>4, <1>5, <2>1
        <4> QED
          BY <1>4, <2>1, <4>1
      <3>2. IntSize * ints = IntSize * used + IntSize * r
        BY <2>1, <3>1, Positive
      <3>3. IntSize * r \in Nat
        BY Positive
      <3>4. IntSize * used \in Nat
        BY <2>1, Positive
      <3> QED
        BY <3>2, <3>3, <3>4
    <2>4. IntSize * ints \in Nat /\ IntSize * used \in Nat
      BY <1>4, <2>1, Positive
    <2> QED
      BY <1>4, <2>2, <2>3, <2>4
  <1>7. start + block <= NumBlocks * block
    BY <1>1, Monotone
  <1>8. Registers * Vec \in Nat
    BY <1>5, Positive
  <1>9. start + block <= per
    <2>1. NumBlocks * block = block * NumBlocks /\ NumBlocks * block \in Nat
      BY <1>1
    <2> HIDE DEF start
    <2> QED
      BY <1>1, <1>2, <1>7, <2>1
  <1>10. FirstOf(index) + Registers * Vec <= per
    <2> DEFINE first == FirstOf(index)
    <2> DEFINE length == Registers * Vec
    <2> HIDE DEF start, first, length
    <2>1. first \in Nat /\ length \in Nat
      BY <1>3, <1>8 DEF first, length
    <2>2. first <= start /\ length <= block
      BY <1>3, <1>6 DEF first, length
    <2>3. first + length <= per
      BY <1>2, <1>9, <2>1, <2>2
    <2> QED
      BY <2>3 DEF first, length
  <1> QED
    BY <1>3, <1>5, <1>10

\* A block of whole registers is all its registers.
LEMMA WholeBlock ==
  ASSUME block \in Nat \ {0}, WholeRegisters
  PROVE  Registers * Vec = block
  <1> DEFINE q == block \div Vec
  <1>1. q \in Nat /\ block = Vec * q
    <2>1. q \in Nat /\ block = Vec * q + (block % Vec)
      BY Positive, Division
    <2>2. block % Vec = 0
      BY DEF WholeRegisters
    <2> HIDE DEF q
    <2> QED
      BY <2>1, <2>2, Positive
  <1> HIDE DEF q
  <1>2. VecInts * q \in Nat /\ block = IntSize * (VecInts * q)
    BY <1>1, Positive DEF Vec
  <1>3. block \div IntSize = VecInts * q
    BY <1>2, Positive, Quotient
  <1>4. Registers = q
    BY <1>1, <1>3, Positive, Quotient DEF Registers
  <1> QED
    BY <1>1, <1>4, Positive

-----------------------------------------------------------------------------
(* The invariant *)

\* The sequential loop has not passed the end of the partition.
SeqInPartition == test \in SeqTests => done * Vec <= per

PatternInv ==
  TypeOK /\ StaysInPartition /\ ReportsAccesses /\ TraceIsComplete /\ SeqInPartition

\* What an access changes, but for the reports.
TouchedInv ==
  /\ once \subseteq 0 .. per - 1
  /\ twice \subseteq once
  /\ vectors \in Nat
  /\ aligned \in BOOLEAN

\* n accesses that end in the partition.
LEMMA TouchStays ==
  ASSUME PatternInv, UNCHANGED per,
         NEW first \in Nat, NEW n \in Nat, first + n * Vec <= per, Touch(first, n)
  PROVE  TouchedInv' /\ vectors' = vectors + n
  <1> DEFINE chunk == first .. first + n * Vec - 1
  <1>1. per \in Nat /\ n * Vec \in Nat
    BY Positive, PatternAssumption DEF PatternInv, TypeOK
  <1>2. chunk \subseteq 0 .. per - 1
    BY <1>1
  <1>3. once' = once \cup chunk /\ twice' = twice \cup (once \cap chunk)
    BY DEF Touch
  <1>4. aligned' \in BOOLEAN
    BY Zenon DEF Touch
  <1>5. vectors' = vectors + n
    BY DEF Touch
  <1> HIDE DEF chunk
  <1> QED
    BY <1>1, <1>2, <1>3, <1>4, <1>5 DEF TouchedInv, PatternInv, TypeOK, StaysInPartition

\* A round adds its bytes to what has been reported and what is still held.
LEMMA AccountAdds ==
  ASSUME PatternInv, NEW chunk \in Nat, Account(chunk)
  PROVE  /\ done' = done + 1
         /\ {done', local', reported'} \subseteq Nat
         /\ reported' + local' = reported + local + chunk
  <1>1. {done, local, reported} \subseteq Nat
    BY DEF PatternInv, TypeOK
  <1>2. CASE (done + 1) % UpdateInterval = 0
    BY <1>1, <1>2 DEF Account
  <1>3. CASE ~ ((done + 1) % UpdateInterval = 0)
    BY <1>1, <1>3 DEF Account
  <1> QED
    BY <1>2, <1>3

LEMMA InitPattern == Init => PatternInv
  <1> SUFFICES ASSUME Init
               PROVE  PatternInv
    OBVIOUS
  <1> USE DEF Init
  <1>1. per \in Nat \ {0} /\ block \in Nat \ {0}
    BY PatternAssumption
  <1>2. left \subseteq 0 .. NumBlocks - 1
    BY DEF NumBlocks
  <1>3. TypeOK
    BY <1>2 DEF TypeOK
  <1>4. vectors * Vec = 0 /\ done * Vec = 0
    BY Positive
  <1> QED
    BY <1>1, <1>3, <1>4
    DEF PatternInv, StaysInPartition, ReportsAccesses, TraceIsComplete, SeqInPartition

\* The last report changes nothing but where the bytes are accounted for.
LEMMA FinishStep ==
  ASSUME PatternInv, Finish,
         UNCHANGED <<arguments, done, left, cursor, buffers, history>>
  PROVE  PatternInv'
  <1> USE DEF Finish, arguments, cursor, buffers, history
  <1>1. {local, reported} \subseteq Nat /\ NumBlocks' = NumBlocks
    BY DEF PatternInv, TypeOK, NumBlocks
  <1>2. TypeOK'
    <2>1. running' \in BOOLEAN
      BY Zenon
    <2>2. {local', reported'} \subseteq Nat
      BY <1>1
    <2> QED
      BY <1>1, <2>1, <2>2 DEF PatternInv, TypeOK
  <1>3. ReportsAccesses'
    BY <1>1 DEF PatternInv, ReportsAccesses, WholeRegisters
  <1>4. StaysInPartition' /\ TraceIsComplete' /\ SeqInPartition'
    BY DEF PatternInv, StaysInPartition, TraceIsComplete, SeqInPartition
  <1> QED
    BY <1>2, <1>3, <1>4 DEF PatternInv

LEMMA SeqVectorStep ==
  ASSUME PatternInv, SeqVector
  PROVE  PatternInv'
  <1> USE DEF SeqVector, arguments, cursor
  <1>1. /\ {done, vectors, traced, samples, reported, local} \subseteq Nat
        /\ NumBlocks' = NumBlocks
    BY DEF PatternInv, TypeOK, NumBlocks
  <1>2. done * Vec \in Nat /\ (done + 1) * Vec = done * Vec + Vec /\ 1 * Vec = Vec
    BY <1>1, Positive
  <1>3. TouchedInv' /\ vectors' = vectors + 1
    <2>1. done * Vec + 1 * Vec <= per
      BY <1>2
    <2> QED
      BY <1>2, <2>1, TouchStays
  <1>4. /\ done' = done + 1
        /\ {done', local', reported'} \subseteq Nat
        /\ reported' + local' = reported + local + Vec
    BY Positive, AccountAdds
  <1>5. traced' \in Nat /\ samples' \in Nat
    BY <1>1
  <1>6. TypeOK'
    BY <1>1, <1>3, <1>4, <1>5 DEF PatternInv, TypeOK, TouchedInv
  <1>7. ReportsAccesses'
    <2>1. (vectors + 1) * Vec = vectors * Vec + Vec
      BY <1>1, Positive
    <2>2. vectors * Vec \in Nat
      BY <1>1, Positive
    <2> QED
      BY <1>1, <1>3, <1>4, <2>1, <2>2, Positive
      DEF PatternInv, ReportsAccesses, WholeRegisters
  <1>8. StaysInPartition'
    BY <1>3 DEF TouchedInv, StaysInPartition
  <1>9. TraceIsComplete'
    BY <1>1, <1>3 DEF PatternInv, TraceIsComplete
  <1>10. SeqInPartition'
    BY <1>2, <1>4 DEF SeqInPartition
  <1> QED
    BY <1>6, <1>7, <1>8, <1>9, <1>10 DEF PatternInv

\* A partition of whole registers leaves no ints over.
LEMMA NoRest ==
  ASSUME PatternInv, test \in SeqTests, (done + 1) * Vec > per
  PROVE  done * Vec = per /\ (per \div IntSize) - done * VecInts = 0
  <1> DEFINE k == per \div Vec
  <1>1. per \in Nat /\ per % Vec = 0 /\ done \in Nat
    BY PatternAssumption DEF PatternInv, TypeOK, Vec
  <1>2. k \in Nat /\ per = Vec * k
    <2>1. k \in Nat /\ per = Vec * k + (per % Vec)
      BY <1>1, Positive, Division
    <2> HIDE DEF k
    <2> QED
      BY <1>1, <2>1, Positive
  <1> HIDE DEF k
  <1>3. /\ (done + 1) * Vec = done * Vec + Vec /\ done * Vec \in Nat
        /\ k * Vec = per
        /\ done * Vec <= per
    BY <1>1, <1>2, Positive DEF PatternInv, SeqInPartition
  <1>4. ~ (done < k)
    <2> SUFFICES ASSUME done < k
                 PROVE  FALSE
      OBVIOUS
    <2>1. done * Vec + Vec <= k * Vec
      BY <1>1, <1>2, Positive, Monotone
    <2> QED
      BY <1>1, <1>3, <2>1, Positive
  <1>5. ~ (k < done)
    <2> SUFFICES ASSUME k < done
                 PROVE  FALSE
      OBVIOUS
    <2>1. k * Vec + Vec <= done * Vec
      BY <1>1, <1>2, Positive, Monotone
    <2> QED
      BY <1>1, <1>3, <2>1, Positive
  <1>6. done = k
    BY <1>1, <1>2, <1>4, <1>5
  <1>7. per \div IntSize = VecInts * k
    <2>1. VecInts * k \in Nat /\ per = IntSize * (VecInts * k)
      BY <1>2, Positive DEF Vec
    <2> QED
      BY <2>1, Positive, Quotient
  <1> QED
    BY <1>2, <1>3, <1>6, <1>7, Positive

LEMMA SeqRestStep ==
  ASSUME PatternInv, SeqRest
  PROVE  PatternInv'
  <1> USE DEF SeqRest, arguments, cursor
  <1>1. /\ {done, vectors, traced, samples, reported, local} \subseteq Nat
        /\ NumBlocks' = NumBlocks
        /\ per \in Nat
    BY PatternAssumption DEF PatternInv, TypeOK, NumBlocks
  <1>2. done * Vec = per /\ (per \div IntSize) - done * VecInts = 0
    BY NoRest
  <1>3. once' = once /\ twice' = twice
    <2>1. done * Vec .. per - 1 = {}
      BY <1>1, <1>2
    <2> QED
      BY <2>1
  <1>4. traced' = traced /\ reported' = reported + local
    BY <1>1, <1>2, Positive
  <1>5. TypeOK'
    <2>1. running' \in BOOLEAN
      BY Zenon
    <2>2. {local', reported', traced'} \subseteq Nat
      BY <1>1, <1>4
    <2> QED
      BY <1>1, <1>3, <2>1, <2>2 DEF PatternInv, TypeOK
  <1>6. ReportsAccesses'
    BY <1>1, <1>4 DEF PatternInv, ReportsAccesses, WholeRegisters
  <1>7. StaysInPartition' /\ TraceIsComplete' /\ SeqInPartition'
    BY <1>3, <1>4 DEF PatternInv, StaysInPartition, TraceIsComplete, SeqInPartition
  <1> QED
    BY <1>5, <1>6, <1>7 DEF PatternInv

\* A block of a random or zipfian test.
LEMMA BlockStep ==
  ASSUME PatternInv, running, test \in RandomTests \cup {"zipfian_read"},
         NEW index \in 0 .. NumBlocks - 1, Block(index),
         UNCHANGED <<arguments, running, cursor>>, left' \subseteq left
  PROVE  PatternInv'
  <1> USE DEF arguments, cursor
  <1> DEFINE extra == IF measuring /\ test \in SampledTests /\ done % SampleInterval = 0
                         /\ Registers > 0 THEN 1 ELSE 0
  <1>1. /\ {done, vectors, traced, samples, reported, local} \subseteq Nat
        /\ NumBlocks' = NumBlocks
        /\ per \in Nat /\ block \in Nat \ {0}
    BY PatternAssumption DEF PatternInv, TypeOK, NumBlocks
  <1>2. /\ Touch(FirstOf(index), Registers)
        /\ samples' = samples + extra
        /\ traced' = traced + Registers - extra
        /\ Account(block)
    BY DEF Block, FirstOf, Registers
  <1>3. /\ FirstOf(index) \in Nat /\ Registers \in Nat
        /\ FirstOf(index) + Registers * Vec <= per
    BY <1>1, BlockFits
  <1>4. TouchedInv' /\ vectors' = vectors + Registers
    BY <1>2, <1>3, TouchStays
  <1>5. /\ done' = done + 1
        /\ {done', local', reported'} \subseteq Nat
        /\ reported' + local' = reported + local + block
    BY <1>1, <1>2, AccountAdds
  <1>6. traced' \in Nat /\ samples' \in Nat /\ (~measuring => traced' = traced + Registers)
    BY <1>1, <1>2, <1>3
  <1>7. test \notin SeqTests \cup StrideTests
    BY DEF RandomTests, SeqTests, StrideTests
  <1>8. TypeOK'
    BY <1>1, <1>4, <1>5, <1>6 DEF PatternInv, TypeOK, TouchedInv
  <1>9. ReportsAccesses'
    <2>1. WholeRegisters => Registers * Vec = block
      BY <1>1, WholeBlock
    <2>2. (vectors + Registers) * Vec = vectors * Vec + Registers * Vec
      BY <1>1, <1>3, Positive
    <2>3. vectors * Vec \in Nat
      BY <1>1, Positive
    <2> QED
      BY <1>1, <1>4, <1>5, <1>7, <2>1, <2>2, <2>3
      DEF PatternInv, ReportsAccesses, WholeRegisters
  <1>10. StaysInPartition'
    BY <1>4 DEF TouchedInv, StaysInPartition
  <1>11. TraceIsComplete'
    BY <1>1, <1>4, <1>6, <1>7 DEF PatternInv, TraceIsComplete
  <1>12. SeqInPartition'
    BY <1>7 DEF SeqInPartition
  <1> QED
    BY <1>8, <1>9, <1>10, <1>11, <1>12 DEF PatternInv

LEMMA StrideVectorStep ==
  ASSUME PatternInv, StrideVector
  PROVE  PatternInv'
  <1> USE DEF StrideVector, InPhase, arguments
  <1>1. /\ {done, vectors, traced, samples, reported, local, phase, offset, b} \subseteq Nat
        /\ NumBlocks' = NumBlocks
        /\ test \notin SeqTests
    BY DEF PatternInv, TypeOK, NumBlocks, SeqTests, StrideTests
  <1>2. b' \in Nat
    BY <1>1, Positive
  <1>3. CASE offset + b + Vec <= per
    <2>1. Touch(offset + b, 1) /\ traced' = traced + 1 /\ Account(Vec)
      BY <1>3
    <2>2. TouchedInv' /\ vectors' = vectors + 1
      <3>1. offset + b \in Nat /\ offset + b + 1 * Vec <= per
        BY <1>1, <1>3, Positive
      <3> QED
        BY <2>1, <3>1, TouchStays
    <2>3. /\ {done', local', reported'} \subseteq Nat
          /\ reported' + local' = reported + local + Vec
      BY <2>1, Positive, AccountAdds
    <2>4. TypeOK'
      BY <1>1, <1>2, <2>1, <2>2, <2>3 DEF PatternInv, TypeOK, TouchedInv
    <2>5. ReportsAccesses'
      <3>1. (vectors + 1) * Vec = vectors * Vec + Vec /\ vectors * Vec \in Nat
        BY <1>1, Positive
      <3> QED
        BY <1>1, <2>2, <2>3, <3>1, Positive
        DEF PatternInv, ReportsAccesses, WholeRegisters
    <2>6. StaysInPartition' /\ TraceIsComplete' /\ SeqInPartition'
      BY <1>1, <2>1, <2>2
      DEF PatternInv, TouchedInv, StaysInPartition, TraceIsComplete, SeqInPartition
    <2> QED
      BY <2>4, <2>5, <2>6 DEF PatternInv
  <1>4. CASE ~ (offset + b + Vec <= per)
    <2>1. UNCHANGED <<history, traced, done, local, reported>>
      BY <1>4
    <2>2. TypeOK'
      BY <1>1, <1>2, <2>1 DEF PatternInv, TypeOK, history
    <2>3. ReportsAccesses'
      BY <2>1 DEF PatternInv, ReportsAccesses, WholeRegisters, history
    <2>4. StaysInPartition' /\ TraceIsComplete' /\ SeqInPartition'
      BY <2>1 DEF PatternInv, StaysInPartition, TraceIsComplete, SeqInPartition, history
    <2> QED
      BY <2>2, <2>3, <2>4 DEF PatternInv
  <1> QED
    BY <1>3, <1>4

\* Steps that only move on.
LEMMA CursorStep ==
  ASSUME PatternInv, {phase', offset', b'} \subseteq Nat,
         UNCHANGED <<arguments, running, done, left, local, reported, buffers, history>>
  PROVE  PatternInv'
  <1> USE DEF arguments, buffers, history
  <1>1. NumBlocks' = NumBlocks
    BY DEF NumBlocks
  <1>2. TypeOK'
    BY <1>1 DEF PatternInv, TypeOK
  <1>3. ReportsAccesses'
    BY DEF PatternInv, ReportsAccesses, WholeRegisters
  <1>4. StaysInPartition' /\ TraceIsComplete' /\ SeqInPartition'
    BY DEF PatternInv, StaysInPartition, TraceIsComplete, SeqInPartition
  <1> QED
    BY <1>2, <1>3, <1>4 DEF PatternInv

LEMMA PatternStep == PatternInv /\ [Next]_vars => PatternInv'
  <1> SUFFICES ASSUME PatternInv, [Next]_vars
               PROVE  PatternInv'
    OBVIOUS
  <1>0. {phase, offset, b} \subseteq Nat /\ block \in Nat /\ stride \in Nat
    BY PatternAssumption DEF PatternInv, TypeOK
  <1>1. CASE SeqVector
    BY <1>1, SeqVectorStep
  <1>2. CASE SeqRest
    BY <1>2, SeqRestStep
  <1>3. CASE RandomBlock
    <2>1. PICK index \in left : Block(index) /\ left' = left \ {index}
      BY <1>3 DEF RandomBlock
    <2>2. index \in 0 .. NumBlocks - 1
      BY DEF PatternInv, TypeOK
    <2> QED
      BY <1>3, <2>1, <2>2, BlockStep DEF RandomBlock
  <1>4. CASE ZipfianBlock
    <2>1. PICK index \in 0 .. NumBlocks - 1 : Block(index)
      BY <1>4 DEF ZipfianBlock
    <2> QED
      BY <1>4, <2>1, BlockStep DEF ZipfianBlock
  <1>5. CASE RandomDone
    BY <1>5, FinishStep DEF RandomDone
  <1>6. CASE ZipfianDone
    BY <1>6, FinishStep DEF ZipfianDone
  <1>7. CASE StrideVector
    BY <1>7, StrideVectorStep
  <1>8. CASE NextOffset
    <2>1. {phase', offset', b'} \subseteq Nat
      BY <1>0, <1>8 DEF NextOffset
    <2> QED
      BY <1>8, <2>1, CursorStep DEF NextOffset
  <1>9. CASE NextPhase
    <2>1. {phase', offset', b'} \subseteq Nat
      BY <1>0, <1>9 DEF NextPhase
    <2> QED
      BY <1>9, <2>1, CursorStep DEF NextPhase
  <1>10. CASE StrideDone
    BY <1>10, FinishStep DEF StrideDone
  <1>11. CASE UNCHANGED vars
    BY <1>0, <1>11, CursorStep DEF vars, cursor
  <1> QED
    BY <1>1, <1>2, <1>3, <1>4, <1>5, <1>6, <1>7, <1>8, <1>9, <1>10, <1>11 DEF Next

-----------------------------------------------------------------------------
(* The theorems *)

THEOREM PatternsInvariant == Spec => []PatternInv
  BY InitPattern, PatternStep, PTL DEF Spec

\* The loops' variables keep their types, for any size, block and stride.
THEOREM PatternsTypeCorrect == Spec => []TypeOK
  <1>1. PatternInv => TypeOK
    BY DEF PatternInv
  <1> QED
    BY PatternsInvariant, <1>1, PTL

\* For any block and stride, dividing or not, the loops of the seven tests stay in
\* the worker's partition.
THEOREM AccessesStayInPartition == Spec => []StaysInPartition
  <1>1. PatternInv => StaysInPartition
    BY DEF PatternInv
  <1> QED
    BY PatternsInvariant, <1>1, PTL

\* What the workers report through add_bytes is what they accessed, whatever the
\* interval, for blocks of whole registers and for the sequential and stride tests.
THEOREM ReportsAlwaysAddUp == Spec => []ReportsAccesses
  <1>1. PatternInv => ReportsAccesses
    BY DEF PatternInv
  <1> QED
    BY PatternsInvariant, <1>1, PTL

\* The trace has every access, but for those of random and zipfian tests whose
\* latency is measured.
THEOREM TracesAlwaysComplete == Spec => []TraceIsComplete
  <1>1. PatternInv => TraceIsComplete
    BY DEF PatternInv
  <1> QED
    BY PatternsInvariant, <1>1, PTL

-----------------------------------------------------------------------------
(* What is recorded *)

\* With an access measured in every interval of `done`, the last sample was due
\* before now.
Few(interval) == samples > 0 => \E k \in Nat : samples = k + 1 /\ k * interval < done

\* The samples so far, and how far the loops with samples go.
SampleInv ==
  /\ test \notin SampledTests => samples = 0
  /\ test = "seq_read" => Few(2 * SampleInterval)
  /\ test \in {"random_read", "zipfian_read"} =>
       Few(SampleInterval) /\ (samples > 0 => Registers > 0 /\ done > 0)
  /\ test \in RandomTests => IsFiniteSet(left) /\ Cardinality(left) + done = NumBlocks
  /\ test = "zipfian_read" => done <= NumBlocks

\* One more round, with a sample if one is due.
LEMMA FewMore ==
  ASSUME NEW interval \in Nat \ {0}, {samples, done, samples'} \subseteq Nat, Few(interval),
         done' = done + 1,
         samples' = samples \/ (samples' = samples + 1 /\ done % interval = 0)
  PROVE  Few(interval)'
  <1>1. CASE samples' = samples
    <2>1. CASE samples > 0
      <3>1. PICK k \in Nat : samples = k + 1 /\ k * interval < done
        BY <2>1 DEF Few
      <3>2. k * interval < done' /\ samples' = k + 1
        <4>1. k * interval \in Nat
          OBVIOUS
        <4> QED
          BY <1>1, <3>1, <4>1
      <3> QED
        BY <3>2 DEF Few
    <2>2. CASE ~ (samples > 0)
      BY <1>1, <2>2 DEF Few
    <2> QED
      BY <2>1, <2>2
  <1>2. CASE samples' = samples + 1 /\ done % interval = 0
    <2>1. CASE samples > 0
      <3>1. PICK k \in Nat : samples = k + 1 /\ k * interval < done
        BY <2>1 DEF Few
      <3> DEFINE m == k * interval
      <3>2. m \in Nat /\ m = interval * k + 0
        OBVIOUS
      <3>3. m % interval = 0
        <4>1. m \in Int /\ k \in Int /\ 0 \in 0 .. interval - 1
          BY <3>2
        <4> HIDE DEF m
        <4> QED
          BY <3>2, <4>1, RemainderOf
      <3>4. m + interval <= done
        <4>1. m < done
          BY <3>1
        <4> HIDE DEF m
        <4> QED
          BY <1>2, <3>2, <3>3, <4>1, NextMultiple
      <3>5. (k + 1) * interval = m + interval
        OBVIOUS
      <3>6. (k + 1) * interval < done' /\ samples' = (k + 1) + 1 /\ k + 1 \in Nat
        BY <1>2, <3>1, <3>2, <3>4, <3>5
      <3> QED
        BY <3>6 DEF Few
    <2>2. CASE ~ (samples > 0)
      <3>1. samples' = 0 + 1 /\ 0 * interval = 0 /\ 0 < done'
        BY <1>2, <2>2
      <3> QED
        BY <3>1 DEF Few
    <2> QED
      BY <2>1, <2>2
  <1> QED
    BY <1>1, <1>2

\* Few samples while the loop has come no further than `end` fit in a reservation for
\* twice the intervals of at least `end` accesses.
LEMMA FewFit ==
  ASSUME NEW interval \in Nat \ {0}, NEW end \in Nat, {samples, done} \subseteq Nat,
         Few(interval), samples > 0, done <= end, end >= interval
  PROVE  samples <= (end \div interval) * 2
  <1> DEFINE q == end \div interval
  <1>1. PICK k \in Nat : samples = k + 1 /\ k * interval < done
    BY DEF Few
  <1>2. q \in Nat /\ end % interval \in 0 .. interval - 1
        /\ end = interval * q + (end % interval)
    BY Division
  <1>3. k <= q
    <2> SUFFICES ASSUME ~ (k <= q)
                 PROVE  FALSE
      OBVIOUS
    <2>1. q * interval + interval <= k * interval
      <3> HIDE DEF q
      <3>1. q < k
        BY <1>2
      <3> QED
        BY <1>2, <3>1, Monotone
    <2>2. k * interval \in Nat /\ k * interval < end
      BY <1>1
    <2>3. q * interval = interval * q /\ q * interval \in Nat
      BY <1>2
    <2> HIDE DEF q
    <2> QED
      BY <1>2, <2>1, <2>2, <2>3
  <1>4. q >= 1
    <2> SUFFICES ASSUME q = 0
                 PROVE  FALSE
      BY <1>2
    <2> HIDE DEF q
    <2>1. interval * q = 0
      OBVIOUS
    <2> QED
      BY <1>2, <2>1
  <1> HIDE DEF q
  <1>5. samples <= q * 2
    BY <1>1, <1>2, <1>3, <1>4
  <1> QED
    BY <1>5 DEF q

\* Half of an interval's worth is enough: samples every second access.
LEMMA FewFitHalf ==
  ASSUME NEW interval \in Nat \ {0}, NEW end \in Nat, {samples, done} \subseteq Nat,
         Few(2 * interval), samples > 0, done <= end, end >= interval
  PROVE  samples <= (end \div interval) * 2
  <1>1. PICK k \in Nat : samples = k + 1 /\ k * (2 * interval) < done
    BY DEF Few
  <1>2. k * (2 * interval) = k * interval + k * interval /\ k * interval \in Nat
    OBVIOUS
  <1>3. k * interval < done
    BY <1>1, <1>2
  <1>4. Few(interval)
    BY <1>1, <1>3 DEF Few
  <1> QED
    BY <1>4, FewFit

\* The reservation counts the registers of a block as the loop does.
LEMMA RegistersOf ==
  ASSUME block \in Nat \ {0}
  PROVE  block \div Vec = Registers
  <1> DEFINE q == block \div Vec
  <1>1. PICK r \in 0 .. Vec - 1 : q \in Nat /\ block = Vec * q + r
    <2>1. q \in Nat /\ block % Vec \in 0 .. Vec - 1 /\ block = Vec * q + (block % Vec)
      BY Positive, Division
    <2> HIDE DEF q
    <2> QED
      BY <2>1
  <1> DEFINE r1 == r \div IntSize
  <1>2. PICK r0 \in 0 .. IntSize - 1 : r1 \in Nat /\ r = IntSize * r1 + r0
    <2>1. r \in Nat
      BY <1>1, Positive
    <2>2. r1 \in Nat /\ r % IntSize \in 0 .. IntSize - 1 /\ r = IntSize * r1 + (r % IntSize)
      BY <2>1, Positive, Division
    <2> HIDE DEF r1
    <2> QED
      BY <2>2
  <1> HIDE DEF q, r1
  <1>3. r1 < VecInts
    <2> SUFFICES ASSUME VecInts <= r1
                 PROVE  FALSE
      BY <1>2, Positive
    <2>1. VecInts * IntSize <= r1 * IntSize
      BY <1>2, Positive, Times
    <2>2. VecInts * IntSize = Vec /\ r1 * IntSize = IntSize * r1 /\ IntSize * r1 \in Nat
      BY <1>2, Positive DEF Vec
    <2> QED
      BY <1>1, <1>2, <2>1, <2>2, Positive
  <1> DEFINE ints == VecInts * q + r1
  <1>4. ints \in Nat
    BY <1>1, <1>2, Positive
  <1>5. block = IntSize * ints + r0
    <2>1. IntSize * (VecInts * q + r1) = Vec * q + IntSize * r1
      BY <1>1, <1>2, Positive DEF Vec
    <2>2. Vec * q \in Nat /\ IntSize * r1 \in Nat
      BY <1>1, <1>2, Positive
    <2> QED
      BY <1>1, <1>2, <2>1, <2>2
  <1>6. block \div IntSize = ints
    <2> HIDE DEF ints
    <2>1. block \in Int /\ ints \in Int
      BY <1>4
    <2> QED
      BY <1>5, <2>1, Positive, QuotientOf
  <1>7. ints \div VecInts = q
    <2>1. ints \in Int /\ q \in Int /\ r1 \in 0 .. VecInts - 1 /\ ints = VecInts * q + r1
      BY <1>1, <1>2, <1>3, <1>4, Positive
    <2> HIDE DEF ints
    <2> QED
      BY <2>1, Positive, QuotientOf
  <1> HIDE DEF ints
  <1> QED
    BY <1>6, <1>7 DEF Registers, q

\* A partition has as many accesses as lie between two samples, however the blocks cut
\* it: cutting wastes less than half.
LEMMA EnoughAccesses ==
  ASSUME TypeOK, NumBlocks > 0, Registers > 0
  PROVE  NumBlocks * Registers \in Nat /\ NumBlocks * Registers >= SampleInterval
         /\ NumBlocks * Registers >= NumBlocks
  <1> DEFINE n == NumBlocks
             m == Registers
             s == SampleInterval
  <1>1. /\ per \in Nat /\ block \in Nat \ {0} /\ s \in Nat \ {0}
        /\ 2 * Vec * s <= per
    BY PatternAssumption DEF TypeOK, Vec
  <1>2. n \in Nat /\ per < block * n + block
    <2>1. n \in Nat /\ per % block \in 0 .. block - 1 /\ per = block * n + (per % block)
      BY <1>1, Division DEF NumBlocks
    <2>2. block * n \in Nat
      BY <1>1, <2>1
    <2> HIDE DEF n
    <2> QED
      BY <1>1, <2>1, <2>2
  <1>3. m \in Nat /\ block <= Vec * m + Vec
    <2>1. block \div Vec = m
      BY <1>1, RegistersOf
    <2>2. m \in Nat /\ block % Vec \in 0 .. Vec - 1 /\ block = Vec * m + (block % Vec)
      <3>1. block \div Vec \in Nat /\ block % Vec \in 0 .. Vec - 1
            /\ block = Vec * (block \div Vec) + (block % Vec)
        BY <1>1, Positive, Division
      <3> HIDE DEF m
      <3> QED
        BY <2>1, <3>1
    <2>3. Vec * m \in Nat
      BY <2>2, Positive
    <2> HIDE DEF m
    <2> QED
      BY <1>1, <2>2, <2>3, Positive
  <1>4. PICK a \in Nat, c \in Nat : n = a + 1 /\ m = c + 1
    <2>1. n - 1 \in Nat /\ n = (n - 1) + 1
      BY <1>2
    <2>2. m - 1 \in Nat /\ m = (m - 1) + 1
      BY <1>3
    <2> HIDE DEF n, m
    <2> QED
      BY <2>1, <2>2
  <1> HIDE DEF n, m, s
  <1>5. n * m = a * c + a + c + 1 /\ a * c \in Nat
    BY <1>4
  <1>6. (n + 1) * (m + 1) = a * c + a + a + c + c + 4
    BY <1>4
  <1>7. n * m >= s
    <2> SUFFICES ASSUME n * m < s
                 PROVE  FALSE
      BY <1>1, <1>5
    <2>1. (n + 1) * (m + 1) <= 2 * s /\ (n + 1) * (m + 1) \in Nat
      BY <1>1, <1>4, <1>5, <1>6
    <2>2. (n + 1) * (m + 1) * Vec <= 2 * s * Vec
      <3> DEFINE x == (n + 1) * (m + 1)
                 y == 2 * s
      <3>1. x \in Nat /\ y \in Nat /\ x <= y
        BY <1>1, <2>1
      <3> HIDE DEF x, y
      <3>2. x * Vec <= y * Vec
        BY <3>1, Positive, Times
      <3> QED
        BY <3>2 DEF x, y
    <2>3. block * (n + 1) <= (Vec * m + Vec) * (n + 1)
      <3> DEFINE x == Vec * m + Vec
                 y == n + 1
      <3>1. x \in Nat /\ y \in Nat /\ block <= x
        BY <1>2, <1>3, Positive
      <3> HIDE DEF x, y
      <3>2. block * y <= x * y
        BY <1>1, <3>1, Times
      <3> QED
        BY <3>2 DEF x, y
    <2>4. block * (n + 1) = block * n + block /\ block * n \in Nat
      BY <1>1, <1>2
    <2>5. (Vec * m + Vec) * (n + 1) = (n + 1) * (m + 1) * Vec
      BY <1>2, <1>3, Positive
    <2>6. 2 * s * Vec = 2 * Vec * s /\ 2 * s * Vec \in Nat
      BY <1>1, Positive
    <2>7. (n + 1) * (m + 1) * Vec \in Nat
      BY <1>2, <1>3, Positive
    <2> HIDE DEF Vec
    <2> QED
      BY <1>1, <1>2, <2>2, <2>3, <2>4, <2>5, <2>6, <2>7
  <1> QED
    BY <1>4, <1>5, <1>7 DEF n, m, s

\* Records fit.
LEMMA SamplesAlwaysFit ==
  ASSUME PatternInv, SampleInv
  PROVE  SamplesFit
  <1>1. /\ {samples, done} \subseteq Nat /\ per \in Nat /\ block \in Nat \ {0}
        /\ 2 * Vec * SampleInterval <= per
        /\ left \subseteq 0 .. NumBlocks - 1
    BY PatternAssumption DEF PatternInv, TypeOK, Vec
  <1>2. CASE samples = 0
    <2>1. per \div Vec \in Nat /\ block \div Vec \in Nat /\ NumBlocks \in Nat
      BY <1>1, Positive, Division DEF NumBlocks
    <2> DEFINE x == per \div Vec
               y == block \div Vec
    <2>2. NumBlocks * y \in Nat
      BY <2>1
    <2> DEFINE z == NumBlocks * y
    <2> HIDE DEF x, y
    <2>3. x \in Nat
      BY <2>1 DEF x
    <2>4. z \in Nat
      BY <2>2
    <2> HIDE DEF z
    <2>5. (x \div SampleInterval) \in Nat /\ (z \div SampleInterval) \in Nat
      BY <2>3, <2>4, Positive, Division
    <2>6. (x \div SampleInterval) * 2 \in Nat /\ (z \div SampleInterval) * 2 \in Nat
      BY <2>5
    <2>7. ExpectedSamples \in Nat
      BY <2>6 DEF ExpectedSamples, x, y, z
    <2> QED
      BY <1>2, <2>7 DEF SamplesFit
  <1>3. CASE samples > 0 /\ test = "seq_read"
    <2> DEFINE end == per \div Vec
    <2>1. end \in Nat /\ per % Vec \in 0 .. Vec - 1 /\ per = Vec * end + (per % Vec)
      BY <1>1, Positive, Division
    <2> HIDE DEF end
    <2>2. done <= end
      <3> SUFFICES ASSUME end + 1 <= done
                   PROVE  FALSE
        BY <1>1, <2>1
      <3>1. (end + 1) * Vec <= done * Vec
        BY <1>1, <2>1, Positive, Times
      <3>2. (end + 1) * Vec = Vec * end + Vec /\ Vec * end \in Nat
        BY <2>1, Positive
      <3>3. done * Vec <= per
        BY <1>3 DEF PatternInv, SeqInPartition, SeqTests
      <3>4. done * Vec \in Nat
        BY <1>1, Positive
      <3> QED
        BY <1>1, <2>1, <3>1, <3>2, <3>3, <3>4, Positive
    <2>3. end >= SampleInterval
      <3> SUFFICES ASSUME end + 1 <= SampleInterval
                   PROVE  FALSE
        BY <2>1, Positive
      <3>1. (end + 1) * Vec <= SampleInterval * Vec
        BY <2>1, Positive, Times
      <3>2. (end + 1) * Vec = Vec * end + Vec /\ Vec * end \in Nat
        BY <2>1, Positive
      <3>3. /\ 2 * Vec * SampleInterval = SampleInterval * Vec + SampleInterval * Vec
            /\ SampleInterval * Vec \in Nat
        BY Positive
      <3> QED
        BY <1>1, <2>1, <3>1, <3>2, <3>3, Positive
    <2>4. Few(2 * SampleInterval)
      BY <1>3 DEF SampleInv
    <2>5. samples <= (end \div SampleInterval) * 2
      BY <1>1, <1>3, <2>1, <2>2, <2>3, <2>4, Positive, FewFitHalf
    <2> QED
      BY <1>3, <2>5 DEF SamplesFit, ExpectedSamples, end
  <1>4. CASE samples > 0 /\ test # "seq_read"
    <2>1. test \in {"random_read", "zipfian_read"}
      BY <1>1, <1>4 DEF SampleInv, SampledTests
    <2>2. Few(SampleInterval) /\ Registers > 0 /\ done > 0
      BY <1>4, <2>1 DEF SampleInv
    <2>3. done <= NumBlocks /\ NumBlocks \in Nat
      <3>1. NumBlocks \in Nat
        BY <1>1, Division DEF NumBlocks
      <3>2. CASE test = "random_read"
        <4>1. IsFiniteSet(left) /\ Cardinality(left) + done = NumBlocks
          BY <3>2 DEF SampleInv, RandomTests
        <4>2. Cardinality(left) \in Nat
          BY <4>1, FS_CardinalityType
        <4> QED
          BY <1>1, <3>1, <4>1, <4>2
      <3> QED
        BY <2>1, <3>1, <3>2 DEF SampleInv
    <2>4. NumBlocks > 0
      BY <1>1, <2>2, <2>3
    <2> DEFINE end == NumBlocks * Registers
    <2>5. end \in Nat /\ end >= SampleInterval /\ done <= end
      <3>1. end \in Nat /\ end >= SampleInterval /\ end >= NumBlocks
        BY <2>2, <2>4, EnoughAccesses DEF PatternInv
      <3> HIDE DEF end
      <3> QED
        BY <1>1, <2>3, <3>1
    <2> HIDE DEF end
    <2>6. samples <= (end \div SampleInterval) * 2
      BY <1>1, <1>4, <2>2, <2>5, Positive, FewFit
    <2>7. ExpectedSamples = (end \div SampleInterval) * 2
      BY <1>1, <1>4, RegistersOf DEF ExpectedSamples, end
    <2> QED
      BY <2>6, <2>7 DEF SamplesFit
  <1> QED
    BY <1>1, <1>2, <1>3, <1>4

LEMMA InitSamples == Init => SampleInv
  <1> SUFFICES ASSUME Init
               PROVE  SampleInv
    OBVIOUS
  <1>1. samples = 0 /\ done = 0
    BY DEF Init
  <1>2. NumBlocks \in Nat
    BY PatternAssumption, Division DEF Init, NumBlocks
  <1>3. CASE test \in RandomTests
    <2>1. left = 0 .. NumBlocks - 1
      BY <1>3 DEF Init
    <2>2. IsFiniteSet(left) /\ Cardinality(left) = NumBlocks
      <3>1. CASE NumBlocks = 0
        <4>1. left = {}
          BY <2>1, <3>1
        <4> QED
          BY <3>1, <4>1, FS_EmptySet
      <3>2. CASE NumBlocks # 0
        BY <1>2, <2>1, <3>2, BelowIsFinite
      <3> QED
        BY <3>1, <3>2
    <2> QED
      BY <1>1, <1>2, <2>2 DEF SampleInv, Few, RandomTests, SampledTests
  <1>4. CASE test \notin RandomTests
    BY <1>1, <1>2, <1>4 DEF SampleInv, Few
  <1> QED
    BY <1>3, <1>4

\* Steps that measure nothing.
LEMMA NoSampleStep ==
  ASSUME SampleInv, UNCHANGED <<arguments, done, left, samples>>
  PROVE  SampleInv'
  <1>1. UNCHANGED <<test, per, block, stride, measuring>>
    BY DEF arguments
  <1> QED
    BY <1>1 DEF SampleInv, Few, NumBlocks, Registers

LEMMA SeqSampleStep ==
  ASSUME PatternInv, SampleInv, SeqVector
  PROVE  SampleInv'
  <1>1. /\ {samples, done} \subseteq Nat
        /\ test \in SeqTests /\ test \notin RandomTests /\ test # "zipfian_read"
        /\ test' = test
    BY DEF PatternInv, TypeOK, SeqVector, SeqTests, RandomTests, arguments
  <1>2. done' = done + 1
    BY <1>1 DEF SeqVector, Account
  <1>3. CASE test # "seq_read"
    <2>1. samples = 0 /\ samples' = 0
      <3>1. samples = 0
        BY <1>1, <1>3 DEF SampleInv, SampledTests, SeqTests
      <3> QED
        BY <1>3, <3>1 DEF SeqVector
    <2> QED
      BY <1>1, <1>3, <2>1 DEF SampleInv, SeqTests
  <1>4. CASE test = "seq_read"
    <2>1. samples' = samples \/ (samples' = samples + 1 /\ done % 2 = 0
                                  /\ (done \div 2) % SampleInterval = 0)
      BY <1>1 DEF SeqVector
    <2>2. done % 2 = 0 /\ (done \div 2) % SampleInterval = 0
            => done % (2 * SampleInterval) = 0
      <3> SUFFICES ASSUME done % 2 = 0, (done \div 2) % SampleInterval = 0
                   PROVE  done % (2 * SampleInterval) = 0
        OBVIOUS
      <3> DEFINE h == done \div 2
      <3>1. h \in Nat /\ done = 2 * h
        BY <1>1
      <3> DEFINE q == h \div SampleInterval
      <3>2. q \in Nat /\ h = SampleInterval * q
        <4> HIDE DEF h
        <4>1. q \in Nat /\ h = SampleInterval * q + (h % SampleInterval)
          BY <3>1, Positive, Division
        <4>2. h % SampleInterval = 0
          BY DEF h
        <4> HIDE DEF q
        <4>3. SampleInterval * q \in Nat
          BY <4>1, Positive
        <4> QED
          BY <4>1, <4>2, <4>3
      <3> HIDE DEF h, q
      <3> DEFINE d == 2 * SampleInterval
      <3>3. done = d * q + 0 /\ d \in Nat \ {0}
        BY <3>1, <3>2, Positive
      <3> HIDE DEF d
      <3>4. done \in Int /\ q \in Int /\ 0 \in 0 .. d - 1
        BY <1>1, <3>2, <3>3
      <3>5. done % d = 0
        BY <3>3, <3>4, RemainderOf
      <3> QED
        BY <3>5 DEF d
    <2>3. {samples, done, samples'} \subseteq Nat /\ Few(2 * SampleInterval)
          /\ 2 * SampleInterval \in Nat \ {0}
      BY <1>1, <1>4, <2>1, Positive DEF SampleInv
    <2>4. Few(2 * SampleInterval)'
      <3> DEFINE d == 2 * SampleInterval
      <3>1. samples' = samples \/ (samples' = samples + 1 /\ done % d = 0)
        BY <2>1, <2>2
      <3>2. d \in Nat \ {0} /\ Few(d)
        BY <2>3
      <3>3. Few(d)'
        <4> HIDE DEF d
        <4> QED
          BY <1>2, <2>3, <3>1, <3>2, FewMore
      <3> QED
        BY <3>3
    <2> QED
      BY <1>1, <1>4, <2>4 DEF SampleInv, SampledTests, RandomTests
  <1> QED
    BY <1>3, <1>4

LEMMA BlockSampleStep ==
  ASSUME PatternInv, SampleInv, NEW index \in 0 .. NumBlocks - 1, Block(index),
         UNCHANGED arguments, test \in RandomTests \cup {"zipfian_read"},
         test \in RandomTests => index \in left /\ left' = left \ {index},
         test = "zipfian_read" => done < NumBlocks
  PROVE  SampleInv'
  <1>1. /\ {samples, done} \subseteq Nat
        /\ test # "seq_read" /\ test' = test
        /\ NumBlocks' = NumBlocks /\ Registers' = Registers
        /\ NumBlocks \in Int
    BY PatternAssumption DEF PatternInv, TypeOK, RandomTests, arguments, NumBlocks, Registers
  <1>2. done' = done + 1
    BY DEF Block, Account
  <1>3. samples' = samples \/ ( /\ samples' = samples + 1
                                /\ done % SampleInterval = 0
                                /\ Registers > 0
                                /\ test \in SampledTests)
    BY <1>1 DEF Block, Registers
  <1>4. CASE test \notin SampledTests
    <2>1. samples = 0 /\ samples' = 0
      BY <1>3, <1>4 DEF SampleInv
    <2>2. test \in RandomTests /\ test # "random_read" /\ test # "zipfian_read"
      BY <1>4 DEF SampledTests
    <2>3. IsFiniteSet(left)' /\ Cardinality(left') + done' = NumBlocks
      <3>1. /\ IsFiniteSet(left) /\ Cardinality(left) + done = NumBlocks
            /\ index \in left /\ left' = left \ {index}
        BY <2>2 DEF SampleInv
      <3>2. IsFiniteSet(left') /\ Cardinality(left') = Cardinality(left) - 1
        BY <3>1, FS_RemoveElement
      <3>3. Cardinality(left) \in Nat
        BY <3>1, FS_CardinalityType
      <3> QED
        BY <1>1, <1>2, <3>1, <3>2, <3>3
    <2> QED
      BY <1>1, <2>1, <2>2, <2>3 DEF SampleInv
  <1>5. CASE test \in SampledTests
    <2>1. test \in {"random_read", "zipfian_read"}
      BY <1>1, <1>5 DEF SampledTests
    <2>2. {samples, done, samples'} \subseteq Nat /\ Few(SampleInterval)
      BY <1>1, <1>3, <2>1 DEF SampleInv
    <2>3. Few(SampleInterval)'
      BY <1>2, <1>3, <2>2, Positive, FewMore
    <2>4. samples' > 0 => Registers > 0 /\ done' > 0
      BY <1>1, <1>2, <1>3, <2>1 DEF SampleInv
    <2>5. test \in RandomTests => IsFiniteSet(left)' /\ Cardinality(left') + done' = NumBlocks
      <3> SUFFICES ASSUME test \in RandomTests
                   PROVE  IsFiniteSet(left)' /\ Cardinality(left') + done' = NumBlocks
        OBVIOUS
      <3>1. /\ IsFiniteSet(left) /\ Cardinality(left) + done = NumBlocks
            /\ index \in left /\ left' = left \ {index}
        BY DEF SampleInv
      <3>2. IsFiniteSet(left') /\ Cardinality(left') = Cardinality(left) - 1
        BY <3>1, FS_RemoveElement
      <3>3. Cardinality(left) \in Nat
        BY <3>1, FS_CardinalityType
      <3> QED
        BY <1>1, <1>2, <3>1, <3>2, <3>3
    <2>6. test = "zipfian_read" => done' <= NumBlocks
      BY <1>1, <1>2
    <2> QED
      BY <1>1, <1>5, <2>3, <2>4, <2>5, <2>6 DEF SampleInv
  <1> QED
    BY <1>4, <1>5

LEMMA SampleStep == PatternInv /\ SampleInv /\ [Next]_vars => SampleInv'
  <1> SUFFICES ASSUME PatternInv, SampleInv, [Next]_vars
               PROVE  SampleInv'
    OBVIOUS
  <1> USE DEF buffers, vars
  <1>1. CASE SeqVector
    BY <1>1, SeqSampleStep
  <1>2. CASE SeqRest
    BY <1>2, NoSampleStep DEF SeqRest
  <1>3. CASE RandomBlock
    <2>1. PICK index \in left : Block(index) /\ left' = left \ {index}
      BY <1>3 DEF RandomBlock
    <2>2. index \in 0 .. NumBlocks - 1 /\ test \in RandomTests /\ test # "zipfian_read"
          /\ UNCHANGED arguments
      BY <1>3 DEF PatternInv, TypeOK, RandomBlock, RandomTests
    <2> QED
      BY <2>1, <2>2, BlockSampleStep
  <1>4. CASE ZipfianBlock
    <2>1. PICK index \in 0 .. NumBlocks - 1 : Block(index)
      BY <1>4 DEF ZipfianBlock
    <2>2. test = "zipfian_read" /\ done < NumBlocks /\ test \notin RandomTests
          /\ UNCHANGED arguments
      BY <1>4 DEF ZipfianBlock, RandomTests
    <2> QED
      BY <2>1, <2>2, BlockSampleStep
  <1>5. CASE RandomDone \/ ZipfianDone \/ StrideDone
    BY <1>5, NoSampleStep DEF RandomDone, ZipfianDone, StrideDone
  <1>6. CASE StrideVector
    <2>1. UNCHANGED <<arguments, left, samples>> /\ test' = test
      BY <1>6 DEF StrideVector, arguments
    <2>2. test \notin SampledTests \cup RandomTests
      BY <1>6 DEF StrideVector, InPhase, StrideTests, SampledTests, RandomTests
    <2> QED
      BY <2>1, <2>2 DEF SampleInv, SampledTests
  <1>7. CASE NextOffset \/ NextPhase
    BY <1>7, NoSampleStep DEF NextOffset, NextPhase
  <1>8. CASE UNCHANGED vars
    BY <1>8, NoSampleStep
  <1> QED
    BY <1>1, <1>2, <1>3, <1>4, <1>5, <1>6, <1>7, <1>8 DEF Next

\* What --trace and --latency keep: every access is traced but the measured ones, and
\* the latencies never outgrow what reserveLatencyBuffer was given, for any partition
\* of the code's sizes, any block and any interval.
THEOREM RecordsAlwaysComplete == Spec => []RecordsAreComplete
  <1>1. Init => SampleInv
    BY InitSamples
  <1>2. PatternInv /\ SampleInv /\ [Next]_vars => SampleInv'
    BY SampleStep
  <1>3. PatternInv /\ SampleInv => RecordsAreComplete
    BY SamplesAlwaysFit DEF RecordsAreComplete, PatternInv
  <1> QED
    BY PatternsInvariant, <1>1, <1>2, <1>3, PTL DEF Spec

-----------------------------------------------------------------------------
(* Which bytes are accessed *)

\* The stride loops: phases every block, rounds every period, registers in the block.
Period == stride + block
Place(p, o, c) == p % block = 0 /\ p <= o /\ (o - p) % Period = 0 /\ c % Vec = 0
InLoop(p, o, c) == p < Period /\ o < per /\ c < block
Earlier(p, o, c) ==
  p < phase \/ (p = phase /\ o < offset) \/ (p = phase /\ o = offset /\ c < b)
Bytes(o, c) == o + c .. o + c + Vec - 1

\* Every place the loops have passed, if its register fits.
PassedIsTouched ==
  \A p, o, c \in Nat :
    Place(p, o, c) /\ InLoop(p, o, c) /\ Earlier(p, o, c) /\ o + c + Vec <= per
      => Bytes(o, c) \subseteq once

\* Nothing but the places the loops have passed.
TouchedIsPassed ==
  \A x \in once : \E p, o, c \in Nat :
    Place(p, o, c) /\ InLoop(p, o, c) /\ Earlier(p, o, c) /\ x \in Bytes(o, c)

StrideInv ==
  test \in StrideTests =>
    /\ Place(phase, offset, b)
    /\ ~running => phase >= Period
    /\ PassedIsTouched
    /\ Tiled => TouchedIsPassed /\ twice = {} /\ aligned

\* When the phases tile a period, a byte has one place, that can be told from it.
LEMMA PlaceOf ==
  ASSUME block \in Nat \ {0}, stride \in Nat \ {0}, block % Vec = 0, stride % block = 0,
         NEW p \in Nat, NEW o \in Nat, NEW c \in Nat, NEW x \in Nat,
         Place(p, o, c), InLoop(p, o, c), x \in Bytes(o, c)
  PROVE  LET y == x % Period
             z == y % block
             w == z % Vec
         IN  p = y - z /\ o = x - z /\ c = z - w
  <1>1. Period \in Nat \ {0} /\ Vec \in Nat \ {0}
    BY Positive DEF Period
  <1>2. Period % block = 0
    <2>1. stride \in Int /\ block \in Int /\ block = block * 1 + 0 /\ 0 \in 0 .. block - 1
      OBVIOUS
    <2>2. block % block = 0
      BY <2>1, RemainderOf
    <2> QED
      BY <2>1, <2>2, SumOfMultiples DEF Period
  <1>3. p + block <= Period
    BY <1>1, <1>2, NextMultiple DEF Place, InLoop
  <1>4. c + Vec <= block
    BY <1>1, NextMultiple DEF Place, InLoop
  <1>5. PICK r \in 0 .. Vec - 1 : x = o + c + r
    <2>1. x - (o + c) \in 0 .. Vec - 1 /\ x = o + c + (x - (o + c))
      BY <1>1 DEF Bytes
    <2> QED
      BY <2>1
  <1>6. PICK q \in Int : o - p = Period * q
    <2>1. o - p \in Int /\ (o - p) % Period = 0
      BY DEF Place
    <2> DEFINE d == o - p
    <2>2. d \in Int /\ d % Period = 0
      BY <2>1
    <2> HIDE DEF d
    <2>3. \E q \in Int : d = Period * q
      BY <1>1, <2>2, MultipleOf
    <2> QED
      BY <2>3 DEF d
  <1>7. PICK k \in Int : p = block * k
    <2>1. p \in Int /\ p % block = 0
      BY DEF Place
    <2> QED
      BY <2>1, MultipleOf
  <1>8. PICK j \in Int : c = Vec * j
    <2>1. c \in Int /\ c % Vec = 0
      BY DEF Place
    <2> QED
      BY <1>1, <2>1, MultipleOf
  <1> DEFINE s == c + r
             t == p + c + r
  <1>9. s \in 0 .. block - 1 /\ t \in 0 .. Period - 1
    BY <1>1, <1>3, <1>4
  <1>10. x = Period * q + t /\ t = block * k + s /\ s = Vec * j + r
         /\ t \in Int /\ s \in Int /\ x \in Int
    <2>1. o = p + Period * q
      <3>1. Period * q \in Int
        BY <1>1
      <3> QED
        BY <1>6, <3>1
    <2>2. Period * q \in Int /\ block * k \in Int /\ Vec * j \in Int
      BY <1>1
    <2> QED
      BY <1>5, <1>7, <1>8, <2>1, <2>2
  <1>11. p = t - s /\ o = x - s /\ c = s - r
    BY <1>5
  <1> HIDE DEF s, t
  <1>12. x % Period = t
    BY <1>1, <1>9, <1>10, RemainderOf
  <1>13. t % block = s
    BY <1>9, <1>10, RemainderOf
  <1>14. s % Vec = r
    BY <1>1, <1>10, RemainderOf
  <1> QED
    BY <1>11, <1>12, <1>13, <1>14

\* So two places of one byte are one.
LEMMA OnePlace ==
  ASSUME block \in Nat \ {0}, stride \in Nat \ {0}, block % Vec = 0, stride % block = 0,
         NEW p \in Nat, NEW o \in Nat, NEW c \in Nat, NEW x \in Nat,
         NEW p2 \in Nat, NEW o2 \in Nat, NEW c2 \in Nat,
         Place(p, o, c), InLoop(p, o, c), x \in Bytes(o, c),
         Place(p2, o2, c2), InLoop(p2, o2, c2), x \in Bytes(o2, c2)
  PROVE  p = p2 /\ o = o2 /\ c = c2
  <1> DEFINE y == x % Period
             z == y % block
             w == z % Vec
  <1>1. p = y - z /\ o = x - z /\ c = z - w
    BY PlaceOf
  <1>2. p2 = y - z /\ o2 = x - z /\ c2 = z - w
    BY PlaceOf
  <1> HIDE DEF y, z, w
  <1> QED
    BY <1>1, <1>2

\* Every byte a register can start at has a place, with any block and stride.
LEMMA SomePlace ==
  ASSUME block \in Nat \ {0}, stride \in Nat \ {0}, per \in Nat,
         NEW x \in Nat, x + Vec <= per
  PROVE  \E p, o, c \in Nat :
           Place(p, o, c) /\ InLoop(p, o, c) /\ o + c + Vec <= per /\ x \in Bytes(o, c)
  <1>1. Period \in Nat \ {0} /\ Vec \in Nat \ {0}
    BY Positive DEF Period
  <1>2. PICK q \in Int, t \in 0 .. Period - 1 : x = Period * q + t
    <2>1. x \in Int
      OBVIOUS
    <2>2. x = Period * (x \div Period) + (x % Period) /\ x \div Period \in Int /\ x % Period \in 0 .. Period - 1
      BY <1>1, <2>1, DivModIs
    <2> QED
      BY <2>2
  <1>3. PICK k \in Int, s \in 0 .. block - 1 : t = block * k + s
    <2>1. t \in Int
      OBVIOUS
    <2>2. t = block * (t \div block) + (t % block) /\ t \div block \in Int /\ t % block \in 0 .. block - 1
      BY <1>1, <2>1, DivModIs
    <2> QED
      BY <2>2
  <1>4. PICK j \in Int, r \in 0 .. Vec - 1 : s = Vec * j + r
    <2>1. s \in Int
      OBVIOUS
    <2>2. s = Vec * (s \div Vec) + (s % Vec) /\ s \div Vec \in Int /\ s % Vec \in 0 .. Vec - 1
      BY <1>1, <2>1, DivModIs
    <2> QED
      BY <2>2
  <1> DEFINE p == t - s
             o == x - s
             c == s - r
  <1>5. p = block * k /\ c = Vec * j /\ o - p = Period * q
    BY <1>1, <1>2, <1>3, <1>4
  <1>6. x \div Period = q /\ t \div block = k /\ s \div Vec = j
    <2>1. x \div Period = q
      BY <1>1, <1>2, QuotientOf
    <2>2. t \div block = k
      BY <1>1, <1>3, QuotientOf
    <2>3. s \div Vec = j
      BY <1>1, <1>4, QuotientOf
    <2> QED
      BY <2>1, <2>2, <2>3
  <1>7. q \in Nat /\ k \in Nat /\ j \in Nat
    <2>1. x \div Period \in Nat
      BY <1>1, Division
    <2>2. t \div block \in Nat
      BY <1>1, Division
    <2>3. s \div Vec \in Nat
      BY <1>1, Division
    <2> QED
      BY <1>6, <2>1, <2>2, <2>3
  <1>8. p \in Nat /\ c \in Nat /\ o - p \in Nat
    <2>1. block * k \in Nat /\ Vec * j \in Nat /\ Period * q \in Nat
      BY <1>1, <1>7
    <2> QED
      BY <1>5, <2>1
  <1>9. o \in Nat /\ p <= o
    <2>1. o = p + (o - p)
      BY <1>1, <1>2, <1>3
    <2> HIDE DEF p, o
    <2>2. o - p \in Nat /\ p \in Nat
      BY <1>8
    <2> DEFINE e == o - p
    <2>3. e \in Nat /\ o = p + e
      BY <2>1, <2>2
    <2> HIDE DEF e
    <2> QED
      BY <2>2, <2>3
  <1>10. Place(p, o, c)
    <2>1. 0 \in 0 .. block - 1 /\ 0 \in 0 .. Vec - 1 /\ 0 \in 0 .. Period - 1
      BY <1>1
    <2>2. block * k = block * k + 0 /\ Vec * j = Vec * j + 0 /\ Period * q = Period * q + 0
          /\ block * k \in Int /\ Vec * j \in Int /\ Period * q \in Int
      BY <1>1
    <2>3. (block * k) % block = 0
      <3> DEFINE n == block * k
      <3>1. n = block * k + 0 /\ n \in Int
        BY <2>2
      <3> HIDE DEF n
      <3>2. n % block = 0
        BY <2>1, <3>1, RemainderOf
      <3> QED
        BY <3>2 DEF n
    <2>4. (Vec * j) % Vec = 0
      <3> DEFINE n == Vec * j
      <3>1. n = Vec * j + 0 /\ n \in Int
        BY <2>2
      <3> HIDE DEF n
      <3>2. n % Vec = 0
        BY <1>1, <2>1, <3>1, RemainderOf
      <3> QED
        BY <3>2 DEF n
    <2>5. (Period * q) % Period = 0
      <3> DEFINE n == Period * q
      <3>1. n = Period * q + 0 /\ n \in Int
        BY <2>2
      <3> HIDE DEF n
      <3>2. n % Period = 0
        BY <1>1, <2>1, <3>1, RemainderOf
      <3> QED
        BY <3>2 DEF n
    <2> HIDE DEF p, o, c
    <2> QED
      BY <1>5, <1>9, <2>3, <2>4, <2>5 DEF Place
  <1>11. InLoop(p, o, c) /\ o + c + Vec <= per /\ x \in Bytes(o, c)
    <2>1. p < Period /\ c < block /\ o + c = x - r /\ o <= x
      BY <1>1, <1>2, <1>3, <1>4
    <2>2. r \in Int /\ r >= 0 /\ r < Vec
      BY <1>1
    <2> HIDE DEF p, o, c
    <2>3. o \in Nat /\ c \in Nat
      BY <1>8, <1>9
    <2> QED
      BY <1>1, <2>1, <2>2, <2>3 DEF InLoop, Bytes
  <1> HIDE DEF p, o, c
  <1> QED
    BY <1>8, <1>9, <1>10, <1>11

\* What a stride test's state is made of.
LEMMA StrideFacts ==
  ASSUME PatternInv
  PROVE  /\ {phase, offset, b} \subseteq Nat /\ per \in Nat
         /\ block \in Nat \ {0} /\ stride \in Nat \ {0} /\ Period \in Nat \ {0}
         /\ once \subseteq Nat
  BY PatternAssumption DEF PatternInv, TypeOK, Period

\* Steps that pass no place whose register fits.
LEMMA MoveOn ==
  ASSUME PatternInv, StrideInv, test \in StrideTests, running,
         UNCHANGED <<arguments, running, once, twice, aligned>>,
         Place(phase', offset', b'),
         \A p, o, c \in Nat : Earlier(p, o, c) => Earlier(p, o, c)',
         \A p, o, c \in Nat :
           Place(p, o, c) /\ InLoop(p, o, c) /\ o + c + Vec <= per /\ Earlier(p, o, c)'
             => Earlier(p, o, c)
  PROVE  StrideInv'
  <1>1. UNCHANGED <<test, per, block, stride, running, once, twice, aligned>>
    BY DEF arguments
  <1>2. /\ \A p, o, c : Place(p, o, c)' <=> Place(p, o, c)
        /\ \A p, o, c : InLoop(p, o, c)' <=> InLoop(p, o, c)
        /\ \A o, c : Bytes(o, c)' = Bytes(o, c)
        /\ Tiled' <=> Tiled
    BY <1>1 DEF Place, InLoop, Bytes, Tiled, WholeRegisters, Period
  <1>3. PassedIsTouched /\ (Tiled => TouchedIsPassed /\ twice = {} /\ aligned)
    BY DEF StrideInv
  <1>4. PassedIsTouched'
    BY <1>1, <1>2, <1>3 DEF PassedIsTouched
  <1>5. Tiled' => TouchedIsPassed'
    <2> SUFFICES ASSUME Tiled'
                 PROVE  TouchedIsPassed'
      OBVIOUS
    <2>1. TouchedIsPassed
      BY <1>2, <1>3
    <2> QED
      BY <1>1, <1>2, <2>1 DEF TouchedIsPassed
  <1>6. Place(phase, offset, b)'
    BY <1>1 DEF Place, Period
  <1> QED
    BY <1>1, <1>2, <1>3, <1>4, <1>5, <1>6 DEF StrideInv

\* One register on: the only place passed is the one the loops were at.
LEMMA OneRegisterOn ==
  ASSUME PatternInv, Place(phase, offset, b), UNCHANGED <<arguments, phase, offset>>,
         b' = b + Vec
  PROVE  /\ Place(phase', offset', b')
         /\ \A p, o, c \in Nat : Earlier(p, o, c) => Earlier(p, o, c)'
         /\ \A p, o, c \in Nat : p = phase /\ o = offset /\ c = b => Earlier(p, o, c)'
         /\ \A p, o, c \in Nat : Place(p, o, c) /\ Earlier(p, o, c)' =>
              Earlier(p, o, c) \/ (p = phase /\ o = offset /\ c = b)
  <1>1. {phase, offset, b} \subseteq Nat /\ Vec \in Nat \ {0}
    BY Positive, StrideFacts
  <1>2. Place(phase', offset', b')
    <2>1. Vec % Vec = 0
      <3>1. Vec = Vec * 1 + 0 /\ 0 \in 0 .. Vec - 1
        BY <1>1
      <3>2. Vec \in Int
        BY <1>1
      <3> QED
        BY <1>1, <3>1, <3>2, RemainderOf
    <2>2. (b + Vec) % Vec = 0
      BY <1>1, <2>1, SumOfMultiples DEF Place
    <2> QED
      BY <2>2 DEF Place
  <1>3. \A p, o, c \in Nat : Earlier(p, o, c) => Earlier(p, o, c)'
    BY <1>1 DEF Earlier
  <1>4. \A p, o, c \in Nat : p = phase /\ o = offset /\ c = b => Earlier(p, o, c)'
    BY <1>1 DEF Earlier
  <1>5. ASSUME NEW p \in Nat, NEW o \in Nat, NEW c \in Nat,
               Place(p, o, c), Earlier(p, o, c)'
        PROVE  Earlier(p, o, c) \/ (p = phase /\ o = offset /\ c = b)
    <2>1. CASE p = phase /\ o = offset
      <3>1. c < b + Vec
        BY <1>1, <1>5, <2>1 DEF Earlier
      <3>2. ~ (b < c)
        <4> SUFFICES ASSUME b < c
                     PROVE  FALSE
          OBVIOUS
        <4>1. b % Vec = 0 /\ c % Vec = 0
          BY <1>5 DEF Place
        <4>2. b + Vec <= c
          BY <1>1, <4>1, NextMultiple
        <4> QED
          BY <1>1, <3>1, <4>2
      <3> QED
        BY <1>1, <2>1, <3>2 DEF Earlier
    <2>2. CASE ~ (p = phase /\ o = offset)
      BY <1>1, <1>5, <2>2 DEF Earlier
    <2> QED
      BY <2>1, <2>2
  <1> QED
    BY <1>2, <1>3, <1>4, <1>5

LEMMA StrideAccess ==
  ASSUME PatternInv, StrideInv, StrideVector
  PROVE  StrideInv'
  <1>1. /\ test \in StrideTests /\ running /\ phase < Period /\ offset < per /\ b < block
        /\ b' = b + Vec
        /\ UNCHANGED <<test, per, block, stride, measuring, running, phase, offset>>
        /\ UNCHANGED arguments
    BY DEF StrideVector, InPhase, Period, arguments
  <1>2. /\ {phase, offset, b} \subseteq Nat /\ per \in Nat /\ Vec \in Nat \ {0}
        /\ block \in Nat \ {0} /\ stride \in Nat \ {0}
    BY Positive, StrideFacts
  <1>3. Place(phase, offset, b) /\ InLoop(phase, offset, b) /\ PassedIsTouched
    BY <1>1 DEF StrideInv, InLoop
  <1>4. /\ Place(phase', offset', b')
        /\ \A p, o, c \in Nat : Earlier(p, o, c) => Earlier(p, o, c)'
        /\ \A p, o, c \in Nat : p = phase /\ o = offset /\ c = b => Earlier(p, o, c)'
        /\ \A p, o, c \in Nat : Place(p, o, c) /\ Earlier(p, o, c)' =>
             Earlier(p, o, c) \/ (p = phase /\ o = offset /\ c = b)
    BY <1>1, <1>3, OneRegisterOn
  <1>5. CASE ~ (offset + b + Vec <= per)
    <2>1. UNCHANGED <<once, twice, aligned>>
      BY <1>5 DEF StrideVector, history
    <2>2. UNCHANGED <<arguments, running, once, twice, aligned>>
      BY <1>1, <2>1
    <2>3. \A p, o, c \in Nat :
            Place(p, o, c) /\ InLoop(p, o, c) /\ o + c + Vec <= per /\ Earlier(p, o, c)'
              => Earlier(p, o, c)
      BY <1>4, <1>5
    <2> QED
      BY <1>1, <1>4, <2>2, <2>3, MoveOn
  <1>6. CASE offset + b + Vec <= per
    <2> DEFINE chunk == Bytes(offset, b)
    <2>1. /\ once' = once \cup chunk
          /\ twice' = twice \cup (once \cap chunk)
          /\ aligned' = (aligned /\ (offset + b) % Vec = 0)
      <3>1. Touch(offset + b, 1)
        BY <1>6 DEF StrideVector
      <3>2. offset + b .. offset + b + 1 * Vec - 1 = chunk
        BY <1>2 DEF Bytes
      <3>3. /\ once' = once \cup chunk
            /\ twice' = twice \cup (once \cap chunk)
        BY <3>1, <3>2 DEF Touch
      <3>4. aligned' = (aligned /\ (offset + b) % Vec = 0)
        <4>1. aligned' = (aligned /\ (1 > 0 => (offset + b) % Vec = 0))
          BY <3>1, Zenon DEF Touch
        <4>2. 1 > 0
          OBVIOUS
        <4> QED
          BY <4>1, <4>2, Zenon
      <3> QED
        BY <3>3, <3>4
    <2>2. /\ \A p, o, c : Place(p, o, c)' <=> Place(p, o, c)
          /\ \A p, o, c : InLoop(p, o, c)' <=> InLoop(p, o, c)
          /\ \A o, c : Bytes(o, c)' = Bytes(o, c)
          /\ Tiled' <=> Tiled
      BY <1>1 DEF Place, InLoop, Bytes, Tiled, WholeRegisters, Period
    <2> HIDE DEF chunk
    <2>3. PassedIsTouched'
      <3> SUFFICES ASSUME NEW p \in Nat, NEW o \in Nat, NEW c \in Nat,
                          Place(p, o, c), InLoop(p, o, c), Earlier(p, o, c)',
                          o + c + Vec <= per
                   PROVE  Bytes(o, c) \subseteq once'
        BY <1>1, <2>2 DEF PassedIsTouched
      <3>1. CASE Earlier(p, o, c)
        BY <1>3, <2>1, <3>1 DEF PassedIsTouched
      <3>2. CASE p = phase /\ o = offset /\ c = b
        BY <2>1, <3>2 DEF chunk
      <3> QED
        BY <1>4, <3>1, <3>2
    <2>4. ASSUME Tiled
          PROVE  TouchedIsPassed' /\ twice' = {} /\ aligned'
      <3>1. TouchedIsPassed /\ twice = {} /\ aligned
        BY <1>1, <2>4 DEF StrideInv
      <3>2. block % Vec = 0 /\ stride % block = 0
        BY <1>1, <2>4 DEF Tiled, WholeRegisters
      <3>3. TouchedIsPassed'
        <4> SUFFICES ASSUME NEW x \in once'
                     PROVE  \E p, o, c \in Nat :
                              Place(p, o, c) /\ InLoop(p, o, c) /\ Earlier(p, o, c)'
                              /\ x \in Bytes(o, c)
          BY <2>2 DEF TouchedIsPassed
        <4>1. CASE x \in once
          <5>1. PICK p \in Nat, o \in Nat, c \in Nat :
                  Place(p, o, c) /\ InLoop(p, o, c) /\ Earlier(p, o, c) /\ x \in Bytes(o, c)
            BY <3>1, <4>1 DEF TouchedIsPassed
          <5> QED
            BY <1>4, <5>1
        <4>2. CASE x \in chunk
          BY <1>2, <1>3, <1>4, <4>2 DEF chunk
        <4> QED
          BY <2>1, <4>1, <4>2
      <3>4. once \cap chunk = {}
        <4> SUFFICES ASSUME NEW x \in once, x \in chunk
                     PROVE  FALSE
          OBVIOUS
        <4>1. PICK p \in Nat, o \in Nat, c \in Nat :
                Place(p, o, c) /\ InLoop(p, o, c) /\ Earlier(p, o, c) /\ x \in Bytes(o, c)
          BY <3>1 DEF TouchedIsPassed
        <4>2. x \in Nat
          BY StrideFacts
        <4>3. x \in Bytes(offset, b)
          BY DEF chunk
        <4>4. PICK p2 \in Nat, o2 \in Nat, c2 \in Nat : p2 = phase /\ o2 = offset /\ c2 = b
          BY <1>2
        <4>5. Place(p2, o2, c2) /\ InLoop(p2, o2, c2) /\ x \in Bytes(o2, c2)
          BY <1>3, <4>3, <4>4
        <4>6. p = p2 /\ o = o2 /\ c = c2
          BY <1>2, <3>2, <4>1, <4>2, <4>5, OnePlace
        <4>7. ~ Earlier(phase, offset, b)
          BY <1>2 DEF Earlier
        <4> QED
          BY <4>1, <4>4, <4>6, <4>7
      <3>5. (offset + b) % Vec = 0
        <4>1. phase % block = 0 /\ (offset - phase) % Period = 0 /\ b % Vec = 0
          BY <1>3 DEF Place
        <4>0. phase \in Int /\ stride \in Int
          BY <1>2
        <4>2. phase % Vec = 0
          BY <1>2, <3>2, <4>0, <4>1, MultipleOfMultiple
        <4>3. stride % Vec = 0
          BY <1>2, <3>2, <4>0, MultipleOfMultiple
        <4>4. Period % Vec = 0 /\ Period \in Nat \ {0}
          BY <1>2, <3>2, <4>3, SumOfMultiples DEF Period
        <4>5. (offset - phase) % Vec = 0
          <5> DEFINE d == offset - phase
          <5>1. d \in Int /\ d % Period = 0
            BY <1>2, <4>1
          <5> HIDE DEF d
          <5>2. d % Vec = 0
            BY <1>2, <4>4, <5>1, MultipleOfMultiple
          <5> QED
            BY <5>2 DEF d
        <4>6. (offset - phase + phase) % Vec = 0
          <5> DEFINE d == offset - phase
          <5>1. d \in Int /\ d % Vec = 0 /\ phase \in Int
            BY <1>2, <4>5
          <5> HIDE DEF d
          <5>2. (d + phase) % Vec = 0
            BY <1>2, <4>2, <5>1, SumOfMultiples
          <5> QED
            BY <5>2 DEF d
        <4>7. offset % Vec = 0
          <5>1. offset - phase + phase = offset
            BY <1>2
          <5> QED
            BY <4>6, <5>1
        <4> QED
          BY <1>2, <4>1, <4>7, SumOfMultiples
      <3>6. twice' = {}
        BY <2>1, <3>1, <3>4
      <3>7. aligned'
        BY <2>1, <3>1, <3>5, Zenon
      <3> QED
        BY <3>3, <3>6, <3>7
    <2>5. Tiled' => TouchedIsPassed' /\ twice' = {} /\ aligned'
      BY <2>2, <2>4
    <2> QED
      BY <1>1, <1>4, <2>2, <2>3, <2>5 DEF StrideInv
  <1> QED
    BY <1>5, <1>6

\* A round on: no register is left in the block.
LEMMA StrideRound ==
  ASSUME PatternInv, StrideInv, NextOffset
  PROVE  StrideInv'
  <1>1. /\ test \in StrideTests /\ running /\ b >= block /\ offset' = offset + Period /\ b' = 0
        /\ UNCHANGED <<arguments, running, once, twice, aligned, phase>>
    <2>1. offset + stride + block = offset + Period
      BY StrideFacts DEF Period
    <2> QED
      BY <2>1 DEF NextOffset, InPhase, history
  <1>2. /\ {phase, offset, b} \subseteq Nat /\ Vec \in Nat \ {0} /\ Period \in Nat \ {0}
        /\ block \in Nat \ {0}
    BY Positive, StrideFacts
  <1>3. Place(phase, offset, b)
    BY <1>1 DEF StrideInv
  <1>4. Place(phase', offset', b')
    <2> DEFINE d == offset - phase
    <2>1. d \in Int /\ d % Period = 0
      BY <1>2, <1>3 DEF Place
    <2>2. Period % Period = 0
      <3>1. Period = Period * 1 + 0 /\ 0 \in 0 .. Period - 1 /\ Period \in Int
        BY <1>2
      <3> QED
        BY <1>2, <3>1, RemainderOf
    <2>3. (d + Period) % Period = 0
      <3> HIDE DEF d
      <3>1. Period \in Int
        BY <1>2
      <3> QED
        BY <1>2, <2>1, <2>2, <3>1, SumOfMultiples
    <2>4. phase <= offset
      BY <1>3 DEF Place
    <2>5. 0 % Vec = 0
      BY <1>2, ZeroMultiple
    <2>6. phase' = phase /\ offset' - phase' = d + Period /\ phase' <= offset'
      BY <1>1, <1>2, <2>4
    <2> HIDE DEF d
    <2> QED
      BY <1>1, <1>3, <2>3, <2>5, <2>6 DEF Place
  <1>5. \A p, o, c \in Nat : Earlier(p, o, c) => Earlier(p, o, c)'
    BY <1>1, <1>2 DEF Earlier
  <1>6. ASSUME NEW p \in Nat, NEW o \in Nat, NEW c \in Nat,
               Place(p, o, c), InLoop(p, o, c), Earlier(p, o, c)'
        PROVE  Earlier(p, o, c)
    <2>1. CASE p = phase
      <3>1. o < offset + Period
        BY <1>1, <1>2, <1>6, <2>1 DEF Earlier
      <3>2. ~ (offset < o)
        <4> SUFFICES ASSUME offset < o
                     PROVE  FALSE
          OBVIOUS
        <4> DEFINE d == offset - phase
                   e == o - p
        <4>1. d \in Nat /\ e \in Nat /\ d < e /\ d % Period = 0 /\ e % Period = 0
          BY <1>2, <1>3, <1>6, <2>1 DEF Place
        <4>2. d + Period <= e
          <5> HIDE DEF d, e
          <5> QED
            BY <1>2, <4>1, NextMultiple
        <4> QED
          BY <1>2, <2>1, <3>1, <4>2
      <3>3. c < b
        BY <1>1, <1>2, <1>6 DEF InLoop
      <3> QED
        BY <1>2, <2>1, <3>2, <3>3 DEF Earlier
    <2>2. CASE p # phase
      BY <1>1, <1>6, <2>2 DEF Earlier
    <2> QED
      BY <2>1, <2>2
  <1> QED
    BY <1>1, <1>4, <1>5, <1>6, MoveOn

\* A phase on: no round of the old one is left in the partition.
LEMMA StridePhase ==
  ASSUME PatternInv, StrideInv, NextPhase
  PROVE  StrideInv'
  <1>1. /\ test \in StrideTests /\ running /\ offset >= per
        /\ phase' = phase + block /\ offset' = phase' /\ b' = 0
        /\ UNCHANGED <<arguments, running, once, twice, aligned>>
    BY DEF NextPhase, InPhase, history
  <1>2. /\ {phase, offset, b} \subseteq Nat /\ Vec \in Nat \ {0} /\ Period \in Nat \ {0}
        /\ block \in Nat \ {0} /\ per \in Nat
    BY Positive, StrideFacts
  <1>3. Place(phase, offset, b)
    BY <1>1 DEF StrideInv
  <1>4. Place(phase', offset', b')
    <2>1. block % block = 0
      <3>1. block = block * 1 + 0 /\ 0 \in 0 .. block - 1 /\ block \in Int
        BY <1>2
      <3> QED
        BY <1>2, <3>1, RemainderOf
    <2>2. phase \in Int /\ block \in Int /\ phase % block = 0
      BY <1>2, <1>3 DEF Place
    <2>3. (phase + block) % block = 0
      BY <1>2, <2>1, <2>2, SumOfMultiples
    <2>4. 0 % Vec = 0 /\ 0 % Period = 0
      BY <1>2, ZeroMultiple
    <2>5. phase' - phase' = 0 /\ phase' \in Nat
      BY <1>1, <1>2
    <2> QED
      BY <1>1, <2>3, <2>4, <2>5 DEF Place
  <1>5. \A p, o, c \in Nat : Earlier(p, o, c) => Earlier(p, o, c)'
    BY <1>1, <1>2 DEF Earlier
  <1>6. ASSUME NEW p \in Nat, NEW o \in Nat, NEW c \in Nat,
               Place(p, o, c), InLoop(p, o, c), Earlier(p, o, c)'
        PROVE  Earlier(p, o, c)
    <2>1. CASE phase < p
      <3>1. phase + block <= p
        BY <1>2, <1>3, <1>6, <2>1, NextMultiple DEF Place
      <3>2. p = phase' /\ o < phase'
        BY <1>1, <1>2, <1>6, <3>1 DEF Earlier
      <3> QED
        BY <1>1, <1>2, <1>6, <3>2 DEF Place
    <2>2. CASE p = phase
      BY <1>1, <1>2, <1>6, <2>2 DEF Earlier, InLoop
    <2>3. CASE p < phase
      BY <2>3 DEF Earlier
    <2> QED
      BY <1>2, <2>1, <2>2, <2>3
  <1> QED
    BY <1>1, <1>4, <1>5, <1>6, MoveOn

LEMMA StrideFinish ==
  ASSUME PatternInv, StrideInv, StrideDone
  PROVE  StrideInv'
  <1>1. UNCHANGED <<test, per, block, stride, phase, offset, b, once, twice, aligned>>
    BY DEF StrideDone, arguments, cursor, history
  <1>2. test \in StrideTests /\ phase >= Period
    BY DEF StrideDone, Period
  <1>3. Place(phase, offset, b)' /\ (PassedIsTouched' <=> PassedIsTouched)
        /\ (TouchedIsPassed' <=> TouchedIsPassed) /\ (Tiled' <=> Tiled) /\ Period' = Period
    BY <1>1, <1>2 DEF StrideInv, Place, PassedIsTouched, TouchedIsPassed, InLoop, Earlier, Bytes,
                      Tiled, WholeRegisters, Period
  <1> QED
    BY <1>1, <1>2, <1>3 DEF StrideInv

\* All of the stride tests' partition, once: from the invariant.
LEMMA StrideTiles ==
  ASSUME PatternInv, StrideInv, test \in StrideTests
  PROVE  TilesThePartition
  <1>1. /\ {phase, offset, b} \subseteq Nat /\ Vec \in Nat \ {0} /\ Period \in Nat \ {0}
        /\ block \in Nat \ {0} /\ stride \in Nat \ {0} /\ per \in Nat
    BY Positive, StrideFacts
  <1>2. test \notin SeqTests \cup RandomTests
    BY DEF SeqTests, RandomTests, StrideTests
  <1>3. ASSUME ~running
        PROVE  0 .. per - Vec \subseteq once
    <2> SUFFICES ASSUME NEW x \in 0 .. per - Vec
                 PROVE  x \in once
      OBVIOUS
    <2>1. x \in Nat /\ x + Vec <= per
      BY <1>1
    <2>2. PICK p \in Nat, o \in Nat, c \in Nat :
            Place(p, o, c) /\ InLoop(p, o, c) /\ o + c + Vec <= per /\ x \in Bytes(o, c)
      BY <1>1, <2>1, SomePlace
    <2>3. Earlier(p, o, c)
      BY <1>1, <1>3, <2>2 DEF StrideInv, InLoop, Earlier
    <2> QED
      BY <2>2, <2>3 DEF StrideInv, PassedIsTouched
  <1>4. NothingTwice
    BY <1>2 DEF StrideInv, NothingTwice
  <1>5. NothingSkipped
    BY <1>2, <1>3 DEF NothingSkipped
  <1>6. AlignedIfTiled
    BY DEF StrideInv, AlignedIfTiled
  <1> QED
    BY <1>4, <1>5, <1>6 DEF TilesThePartition

-----------------------------------------------------------------------------

SeqTileInv ==
  test \in SeqTests =>
    /\ once = 0 .. done * Vec - 1
    /\ twice = {} /\ aligned
    /\ ~running => done * Vec = per

Chunk(i) == FirstOf(i) .. FirstOf(i) + Registers * Vec - 1

\* The blocks done are touched, those to come are not.
BlockTileInv ==
  /\ test \in RandomTests =>
       /\ \A i \in (0 .. NumBlocks - 1) \ left : Chunk(i) \subseteq once
       /\ \A i \in left : once \cap Chunk(i) = {}
       /\ twice = {}
       /\ ~running => left = {}
  /\ test \notin SeqTests \cup StrideTests /\ WholeRegisters => aligned

TileInv == SeqTileInv /\ BlockTileInv /\ StrideInv

\* The registers of a block end where those of the next begin, or before.
LEMMA BlocksInOrder ==
  ASSUME per \in Nat, block \in Nat \ {0}, NEW i \in Nat, NEW j \in Nat, i < j
  PROVE  FirstOf(i) + Registers * Vec <= FirstOf(j)
  <1> DEFINE m == i * block
             n == j * block
             x == m \div IntSize
             z == n \div IntSize
             u == block \div IntSize
  <1>1. m \in Nat /\ n \in Nat /\ m + block <= n
    BY Monotone
  <1> HIDE DEF m, n
  <1>2. x \in Nat /\ IntSize * x <= m
    BY <1>1, Positive, Division
  <1>3. z \in Nat /\ n < IntSize * z + IntSize
    <2>1. z \in Nat /\ n % IntSize \in 0 .. IntSize - 1 /\ n = IntSize * z + (n % IntSize)
      BY <1>1, Positive, Division
    <2> HIDE DEF z
    <2>2. IntSize * z \in Nat
      BY <2>1, Positive
    <2> QED
      BY <1>1, <2>1, <2>2, Positive
  <1>4. u \in Nat /\ IntSize * u <= block
    BY Positive, Division
  <1>5. Registers \in Nat /\ VecInts * Registers <= u
    BY <1>4, Positive, Division DEF Registers
  <1> HIDE DEF x, z, u
  <1>6. x + u <= z
    <2> SUFFICES ASSUME z + 1 <= x + u
                 PROVE  FALSE
      BY <1>2, <1>3, <1>4
    <2>1. (z + 1) * IntSize <= (x + u) * IntSize
      BY <1>2, <1>3, <1>4, Positive, Times
    <2>2. (z + 1) * IntSize = IntSize * z + IntSize
          /\ (x + u) * IntSize = IntSize * x + IntSize * u
      BY <1>2, <1>3, <1>4, Positive
    <2>3. IntSize * z \in Nat /\ IntSize * x \in Nat /\ IntSize * u \in Nat
      BY <1>2, <1>3, <1>4, Positive
    <2> QED
      BY <1>1, <1>2, <1>3, <1>4, <2>1, <2>2, <2>3, Positive
  <1>7. (x + u) * IntSize <= z * IntSize
    BY <1>2, <1>3, <1>4, <1>6, Positive, Times
  <1>8. (x + u) * IntSize = x * IntSize + u * IntSize /\ x * IntSize \in Nat
        /\ u * IntSize \in Nat /\ z * IntSize \in Nat
    BY <1>2, <1>3, <1>4, Positive
  <1>9. Registers * Vec <= u * IntSize /\ Registers * Vec \in Nat
    <2>1. VecInts * Registers \in Nat
      BY <1>5, Positive
    <2> DEFINE e == VecInts * Registers
    <2>2. e * IntSize <= u * IntSize
      <3>1. e \in Nat /\ e <= u
        BY <1>5, <2>1
      <3> HIDE DEF e
      <3> QED
        BY <1>4, <3>1, Positive, Times
    <2>3. e * IntSize = Registers * Vec /\ Registers * Vec \in Nat
      BY <1>5, Positive DEF Vec
    <2> QED
      BY <2>2, <2>3
  <1>10. FirstOf(i) = x * IntSize /\ FirstOf(j) = z * IntSize
    BY DEF FirstOf, x, z, m, n
  <1> QED
    BY <1>7, <1>8, <1>9, <1>10

LEMMA ChunksApart ==
  ASSUME TypeOK, NEW i \in 0 .. NumBlocks - 1, NEW j \in 0 .. NumBlocks - 1, i # j
  PROVE  Chunk(i) \cap Chunk(j) = {}
  <1>1. per \in Nat /\ block \in Nat \ {0}
    BY PatternAssumption DEF TypeOK
  <1>2. /\ FirstOf(i) \in Nat /\ FirstOf(j) \in Nat
        /\ Registers * Vec \in Nat
        /\ i \in Nat /\ j \in Nat
    <2>1. FirstOf(i) \in Nat /\ FirstOf(j) \in Nat /\ Registers \in Nat
      BY <1>1, BlockFits
    <2>2. NumBlocks \in Nat
      BY <1>1, Division DEF NumBlocks
    <2> QED
      BY <2>1, <2>2, Positive
  <1>3. CASE i < j
    <2>1. FirstOf(i) + Registers * Vec <= FirstOf(j)
      BY <1>1, <1>2, <1>3, BlocksInOrder
    <2> QED
      BY <1>2, <2>1 DEF Chunk
  <1>4. CASE j < i
    <2>1. FirstOf(j) + Registers * Vec <= FirstOf(i)
      BY <1>1, <1>2, <1>4, BlocksInOrder
    <2> QED
      BY <1>2, <2>1 DEF Chunk
  <1> QED
    BY <1>2, <1>3, <1>4

\* Blocks of whole registers start where they should, aligned.
LEMMA WholeBlockStart ==
  ASSUME block \in Nat \ {0}, WholeRegisters, NEW i \in Nat
  PROVE  FirstOf(i) = i * block /\ (i * block) % Vec = 0
  <1>1. block \in Int /\ block % Vec = 0
    BY DEF WholeRegisters
  <1>2. PICK q \in Int : block = Vec * q
    BY <1>1, Positive, MultipleOf
  <1> DEFINE n == i * block
             k == i * q
  <1>3. n = Vec * k + 0 /\ k \in Int /\ n \in Int /\ n \in Nat /\ 0 \in 0 .. Vec - 1
    <2>1. i * (Vec * q) = Vec * (i * q)
      BY <1>2, Positive
    <2> QED
      BY <1>2, <2>1, Positive
  <1> HIDE DEF k, n
  <1>4. n % Vec = 0
    BY <1>3, Positive, RemainderOf
  <1>5. (n \div IntSize) * IntSize = n
    <2> DEFINE e == VecInts * k
    <2>1. n = IntSize * e + 0 /\ e \in Int /\ 0 \in 0 .. IntSize - 1
      BY <1>3, Positive DEF Vec
    <2> HIDE DEF e
    <2>2. n \div IntSize = e
      BY <1>3, <2>1, Positive, QuotientOf
    <2>3. e * IntSize = n
      BY <2>1, Positive
    <2> QED
      BY <2>2, <2>3
  <1> QED
    BY <1>4, <1>5 DEF FirstOf, n

LEMMA InitTiles == Init => TileInv
  <1> SUFFICES ASSUME Init
               PROVE  TileInv
    OBVIOUS
  <1>1. PatternInv /\ block \in Nat \ {0} /\ stride \in Nat \ {0} /\ Period \in Nat \ {0}
    BY InitPattern, StrideFacts
  <1>2. /\ phase = 0 /\ offset = 0 /\ b = 0 /\ done = 0 /\ running = TRUE
        /\ once = {} /\ twice = {} /\ aligned = TRUE
        /\ test \in RandomTests => left = 0 .. NumBlocks - 1
    BY DEF Init
  <1>3. SeqTileInv
    <2>1. 0 .. 0 * Vec - 1 = {}
      BY Positive
    <2> QED
      BY <1>2, <2>1 DEF SeqTileInv
  <1>4. BlockTileInv
    BY <1>2 DEF BlockTileInv
  <1>5. StrideInv
    <2>1. Place(phase, offset, b)
      <3>1. 0 % block = 0 /\ 0 % Period = 0 /\ 0 % Vec = 0
        BY <1>1, Positive, ZeroMultiple
      <3> QED
        BY <1>2, <3>1 DEF Place
    <2>2. PassedIsTouched
      BY <1>2 DEF PassedIsTouched, Earlier, Place
    <2>3. TouchedIsPassed
      BY <1>2 DEF TouchedIsPassed
    <2> QED
      BY <1>2, <2>1, <2>2, <2>3 DEF StrideInv
  <1> QED
    BY <1>3, <1>4, <1>5 DEF TileInv

LEMMA KindsApart ==
  /\ test \in SeqTests => test \notin RandomTests /\ test \notin StrideTests
                          /\ test # "zipfian_read"
  /\ test \in RandomTests => test \notin SeqTests /\ test \notin StrideTests
                             /\ test # "zipfian_read"
  /\ test \in StrideTests => test \notin SeqTests /\ test \notin RandomTests
                             /\ test # "zipfian_read"
  BY DEF SeqTests, RandomTests, StrideTests

LEMMA SeqTiles ==
  ASSUME PatternInv, TileInv, SeqVector
  PROVE  TileInv'
  <1>1. /\ test \in SeqTests /\ test' = test /\ running /\ running' = running /\ per' = per
        /\ Touch(done * Vec, 1) /\ done' = done + 1
    BY DEF SeqVector, Account, arguments
  <1>2. done \in Nat /\ done * Vec \in Nat /\ (done + 1) * Vec = done * Vec + Vec
        /\ 1 * Vec = Vec
    <2>1. done \in Nat
      BY DEF PatternInv, TypeOK
    <2> QED
      BY <2>1, Positive
  <1>3. once = 0 .. done * Vec - 1 /\ twice = {} /\ aligned
    BY <1>1 DEF TileInv, SeqTileInv
  <1> DEFINE chunk == done * Vec .. done * Vec + 1 * Vec - 1
  <1>4. once' = once \cup chunk /\ twice' = twice \cup (once \cap chunk)
    BY <1>1 DEF Touch
  <1>5. once \cap chunk = {} /\ once \cup chunk = 0 .. (done + 1) * Vec - 1
    BY <1>2, <1>3, Positive
  <1>6. (done * Vec) % Vec = 0
    <2> DEFINE n == done * Vec
    <2>1. n = Vec * done + 0 /\ n \in Int /\ done \in Int /\ 0 \in 0 .. Vec - 1
      BY <1>2, Positive
    <2> HIDE DEF n
    <2>2. n % Vec = 0
      BY <2>1, Positive, RemainderOf
    <2> QED
      BY <2>2 DEF n
  <1>7. aligned'
    <2>1. aligned' = (aligned /\ (1 > 0 => (done * Vec) % Vec = 0))
      BY <1>1, Zenon DEF Touch
    <2> QED
      BY <1>3, <1>6, <2>1, Zenon
  <1> HIDE DEF chunk
  <1>8. SeqTileInv'
    BY <1>1, <1>3, <1>4, <1>5, <1>7 DEF SeqTileInv
  <1>9. BlockTileInv' /\ StrideInv'
    BY <1>1, KindsApart DEF BlockTileInv, StrideInv
  <1> QED
    BY <1>8, <1>9 DEF TileInv

LEMMA SeqRestTiles ==
  ASSUME PatternInv, TileInv, SeqRest
  PROVE  TileInv'
  <1>1. /\ test \in SeqTests /\ test' = test /\ per' = per /\ done' = done
        /\ aligned' = aligned /\ (done + 1) * Vec > per
    BY DEF SeqRest, arguments
  <1>2. done * Vec = per
    BY <1>1, NoRest
  <1>3. done * Vec .. per - 1 = {}
    <2>1. per \in Nat
      BY StrideFacts
    <2> QED
      BY <1>2, <2>1
  <1>4. once' = once /\ twice' = twice
    BY <1>3 DEF SeqRest
  <1>5. SeqTileInv'
    BY <1>1, <1>2, <1>4 DEF TileInv, SeqTileInv
  <1>6. BlockTileInv' /\ StrideInv'
    BY <1>1, KindsApart DEF BlockTileInv, StrideInv
  <1> QED
    BY <1>5, <1>6 DEF TileInv

\* A block of a random test is one still to come.
LEMMA BlockTiles ==
  ASSUME PatternInv, TileInv, running, test \in RandomTests \cup {"zipfian_read"},
         NEW index \in 0 .. NumBlocks - 1, Block(index), UNCHANGED <<arguments, running>>,
         test \in RandomTests => index \in left /\ left' = left \ {index}
  PROVE  TileInv'
  <1>1. /\ UNCHANGED <<test, per, block, stride, running>> /\ NumBlocks' = NumBlocks
        /\ test \notin SeqTests /\ test \notin StrideTests
        /\ \A i : Chunk(i)' = Chunk(i)
        /\ WholeRegisters' <=> WholeRegisters
    BY KindsApart
    DEF arguments, NumBlocks, Chunk, FirstOf, Registers, WholeRegisters, SeqTests, StrideTests
  <1>2. TypeOK /\ block \in Nat \ {0} /\ left \subseteq 0 .. NumBlocks - 1 /\ index \in Nat
    <2>1. TypeOK /\ block \in Nat \ {0} /\ per \in Nat
      BY StrideFacts DEF PatternInv
    <2>2. NumBlocks \in Nat
      BY <2>1, Division DEF NumBlocks
    <2> QED
      BY <2>1, <2>2 DEF TypeOK
  <1>3. Touch(FirstOf(index), Registers)
    BY DEF Block, FirstOf, Registers
  <1>4. once' = once \cup Chunk(index) /\ twice' = twice \cup (once \cap Chunk(index))
    BY <1>3 DEF Touch, Chunk
  <1>5. aligned' = (aligned /\ (Registers > 0 => FirstOf(index) % Vec = 0))
    BY <1>3, Zenon DEF Touch
  <1>6. ASSUME test \in RandomTests
        PROVE  /\ \A i \in (0 .. NumBlocks - 1) \ left' : Chunk(i) \subseteq once'
               /\ \A i \in left' : once' \cap Chunk(i) = {}
               /\ twice' = {}
    <2>1. /\ \A i \in (0 .. NumBlocks - 1) \ left : Chunk(i) \subseteq once
          /\ \A i \in left : once \cap Chunk(i) = {}
          /\ twice = {}
          /\ index \in left /\ left' = left \ {index}
      BY <1>6 DEF TileInv, BlockTileInv
    <2>2. \A i \in left' : Chunk(index) \cap Chunk(i) = {}
      BY <1>2, <2>1, ChunksApart
    <2> HIDE DEF Chunk
    <2> QED
      BY <1>4, <2>1, <2>2
  <1>7. ASSUME WholeRegisters
        PROVE  aligned'
    <2>1. FirstOf(index) % Vec = 0
      BY <1>2, <1>7, WholeBlockStart
    <2>2. aligned
      BY <1>1, <1>7 DEF TileInv, BlockTileInv
    <2> QED
      BY <1>5, <2>1, <2>2, Zenon
  <1>8. BlockTileInv'
    <2>1. test' \in RandomTests =>
            /\ \A i \in (0 .. NumBlocks' - 1) \ left' : Chunk(i)' \subseteq once'
            /\ \A i \in left' : once' \cap Chunk(i)' = {}
            /\ twice' = {}
            /\ ~running' => left' = {}
      BY <1>1, <1>6
    <2>2. WholeRegisters' => aligned'
      BY <1>1, <1>7
    <2> QED
      BY <2>1, <2>2 DEF BlockTileInv
  <1>9. SeqTileInv' /\ StrideInv'
    BY <1>1 DEF SeqTileInv, StrideInv
  <1> QED
    BY <1>8, <1>9 DEF TileInv

\* The end of a random or zipfian test.
LEMMA BlocksDone ==
  ASSUME TileInv, test \in RandomTests => left = {},
         test \in RandomTests \cup {"zipfian_read"},
         UNCHANGED <<arguments, done, left, history>>
  PROVE  TileInv'
  <1>1. /\ UNCHANGED <<test, per, block, stride, once, twice, aligned, left>>
        /\ NumBlocks' = NumBlocks
        /\ test \notin SeqTests /\ test \notin StrideTests
        /\ \A i : Chunk(i)' = Chunk(i)
        /\ WholeRegisters' <=> WholeRegisters
    BY KindsApart
    DEF arguments, history, NumBlocks, Chunk, FirstOf, Registers, WholeRegisters, SeqTests,
        StrideTests
  <1>2. BlockTileInv'
    BY <1>1 DEF TileInv, BlockTileInv
  <1>3. SeqTileInv' /\ StrideInv'
    BY <1>1 DEF SeqTileInv, StrideInv
  <1> QED
    BY <1>2, <1>3 DEF TileInv

LEMMA StutterTiles ==
  ASSUME TileInv, UNCHANGED vars
  PROVE  TileInv'
  <1>1. UNCHANGED <<test, per, block, stride, running, done, left, phase, offset, b,
                    once, twice, aligned>>
    BY DEF vars, arguments, cursor, history
  <1>2. SeqTileInv'
    BY <1>1 DEF TileInv, SeqTileInv
  <1>3. BlockTileInv'
    BY <1>1 DEF TileInv, BlockTileInv, NumBlocks, Chunk, FirstOf, Registers, WholeRegisters
  <1>4. Place(phase, offset, b)' <=> Place(phase, offset, b)
    BY <1>1 DEF Place, Period
  <1>5. (PassedIsTouched' <=> PassedIsTouched) /\ (TouchedIsPassed' <=> TouchedIsPassed)
        /\ (Tiled' <=> Tiled) /\ Period' = Period
    BY <1>1 DEF Place, PassedIsTouched, TouchedIsPassed, InLoop, Earlier, Bytes, Tiled,
                WholeRegisters, Period
  <1>6. StrideInv'
    BY <1>1, <1>4, <1>5 DEF TileInv, StrideInv
  <1> QED
    BY <1>2, <1>3, <1>6 DEF TileInv

LEMMA TileStep == PatternInv /\ TileInv /\ [Next]_vars => TileInv'
  <1> SUFFICES ASSUME PatternInv, TileInv, [Next]_vars
               PROVE  TileInv'
    OBVIOUS
  <1>1. CASE SeqVector
    BY <1>1, SeqTiles
  <1>2. CASE SeqRest
    BY <1>2, SeqRestTiles
  <1>3. CASE RandomBlock
    <2>1. PICK index \in left : Block(index) /\ left' = left \ {index}
      BY <1>3 DEF RandomBlock
    <2>2. index \in 0 .. NumBlocks - 1 /\ test \in RandomTests /\ running
          /\ UNCHANGED <<arguments, running>>
      BY <1>3 DEF PatternInv, TypeOK, RandomBlock
    <2> QED
      BY <2>1, <2>2, BlockTiles
  <1>4. CASE ZipfianBlock
    <2>1. PICK index \in 0 .. NumBlocks - 1 : Block(index)
      BY <1>4 DEF ZipfianBlock
    <2>2. test = "zipfian_read" /\ test \notin RandomTests /\ running
          /\ UNCHANGED <<arguments, running>>
      BY <1>4, KindsApart DEF ZipfianBlock
    <2> QED
      BY <2>1, <2>2, BlockTiles
  <1>5. CASE RandomDone
    BY <1>5, BlocksDone DEF RandomDone
  <1>6. CASE ZipfianDone
    BY <1>6, BlocksDone, KindsApart DEF ZipfianDone
  <1>7. ASSUME StrideVector \/ NextOffset \/ NextPhase \/ StrideDone
        PROVE  TileInv'
    <2>1. StrideInv'
      BY <1>7, StrideAccess, StrideRound, StridePhase, StrideFinish DEF TileInv
    <2>2. test' = test /\ test \in StrideTests
      BY <1>7 DEF StrideVector, NextOffset, NextPhase, StrideDone, InPhase, arguments
    <2>3. SeqTileInv' /\ BlockTileInv'
      BY <2>2, KindsApart DEF SeqTileInv, BlockTileInv
    <2> QED
      BY <2>1, <2>3 DEF TileInv
  <1>8. CASE UNCHANGED vars
    BY <1>8, StutterTiles
  <1> QED
    BY <1>1, <1>2, <1>3, <1>4, <1>5, <1>6, <1>7, <1>8 DEF Next

\* A test that is through has touched what NothingSkipped says.
LEMMA TilesFromInv ==
  ASSUME PatternInv, TileInv
  PROVE  TilesThePartition
  <1>1. CASE test \in StrideTests
    BY <1>1, StrideTiles DEF TileInv
  <1>2. CASE test \in SeqTests
    <2>1. /\ once = 0 .. done * Vec - 1 /\ twice = {} /\ aligned
          /\ ~running => done * Vec = per
      BY <1>2 DEF TileInv, SeqTileInv
    <2>2. NothingTwice /\ AlignedIfTiled
      BY <2>1 DEF NothingTwice, AlignedIfTiled
    <2>3. NothingSkipped
      BY <1>2, <2>1, KindsApart DEF NothingSkipped
    <2> QED
      BY <2>2, <2>3 DEF TilesThePartition
  <1>3. CASE test \notin SeqTests \cup StrideTests
    <2>1. NothingTwice /\ AlignedIfTiled
      BY <1>3 DEF TileInv, BlockTileInv, NothingTwice, AlignedIfTiled, Tiled
    <2>2. NothingSkipped
      <3> SUFFICES ASSUME ~running, test \in RandomTests, WholeRegisters,
                          NEW x \in 0 .. NumBlocks * block - 1
                   PROVE  x \in once
        BY <1>3 DEF NothingSkipped
      <3>1. block \in Nat \ {0} /\ per \in Nat
        BY StrideFacts
      <3>2. NumBlocks \in Nat /\ NumBlocks * block \in Nat
        <4>1. NumBlocks \in Nat
          BY <3>1, Division DEF NumBlocks
        <4> QED
          BY <3>1, <4>1
      <3>3. x \in Nat /\ x < NumBlocks * block
        BY <3>2
      <3> DEFINE i == x \div block
      <3>4. PICK r \in 0 .. block - 1 : i \in Nat /\ x = block * i + r
        <4>1. i \in Nat /\ x % block \in 0 .. block - 1 /\ x = block * i + (x % block)
          BY <3>1, <3>3, Division
        <4> HIDE DEF i
        <4> QED
          BY <4>1
      <3> HIDE DEF i
      <3>5. i < NumBlocks
        <4> SUFFICES ASSUME NumBlocks <= i
                     PROVE  FALSE
          BY <3>2, <3>4
        <4>1. NumBlocks * block <= i * block
          BY <3>1, <3>2, <3>4, Times
        <4>2. i * block = block * i /\ block * i \in Nat
          BY <3>1, <3>4
        <4> QED
          BY <3>1, <3>2, <3>3, <3>4, <4>1, <4>2
      <3>6. Chunk(i) \subseteq once
        BY <3>2, <3>4, <3>5 DEF TileInv, BlockTileInv
      <3>7. x \in Chunk(i)
        <4>1. FirstOf(i) = i * block /\ Registers * Vec = block
          BY <3>1, <3>4, WholeBlockStart, WholeBlock
        <4>2. i * block = block * i /\ block * i \in Nat
          BY <3>1, <3>4
        <4> QED
          BY <3>1, <3>4, <4>1, <4>2 DEF Chunk
      <3> QED
        BY <3>6, <3>7
    <2> QED
      BY <2>1, <2>2 DEF TilesThePartition
  <1> QED
    BY <1>1, <1>2, <1>3

\* For every size of partition, block and stride: the sequential and random tests
\* touch no byte twice and skip none (random: of the whole blocks, if these are of
\* whole registers), the stride tests skip none whether or not anything divides
\* anything, and touch none twice, with aligned registers, when the phases tile a
\* period.
THEOREM PartitionAlwaysTiled == Spec => []TilesThePartition
  <1>1. Init => TileInv
    BY InitTiles
  <1>2. PatternInv /\ TileInv /\ [Next]_vars => TileInv'
    BY TileStep
  <1>3. PatternInv /\ TileInv => TilesThePartition
    BY TilesFromInv
  <1> QED
    BY PatternsInvariant, <1>1, <1>2, <1>3, PTL DEF Spec

-----------------------------------------------------------------------------
(* The protocol of a test (BenchRun) *)

USE BenchAssumption DEF Thread

Preparing == {"none", "prepare"}
Ready == {t \in Thread : worker[t] \notin Preparing}
CountInv == readyCount = Cardinality(Ready)

WorkerInv ==
  \A t \in Thread :
    /\ worker[t] \in {"none", "prepare", "spin"} => ops[t] = 0
    /\ worker[t] \in {"collect", "exit"} => ops[t] = Ops
    /\ worker[t] \in {"access", "collect", "exit"} => startFlag

StageInv ==
  /\ main # "clear" => testNo <= Len(Order)
  /\ main \notin {"clear", "spawn"} => \A t \in Thread : worker[t] # "none"
  /\ main \in {"start", "join"} \/ startFlag => \A t \in Thread : worker[t] \notin Preparing
  /\ startFlag => main \in {"join", "stop", "joinMonitor", "clear"}
  /\ main \in {"stop", "joinMonitor"} => \A t \in Thread : worker[t] = "exit"
  /\ main = "clear" =>
       (\A t \in Thread : worker[t] \in {"none", "exit"}) /\ monitor \in {"none", "exit"}

\* What worker t hands in, and what has been handed in of the current test.
Own(k, t) == [test |-> k, thread |-> t, made |-> Ops]
Handed == {Own(testNo, t) : t \in {u \in Thread : worker[u] = "exit"}}

BufferInv ==
  main # "clear" => traces = Handed /\ (Order[testNo] \in Sampled => latencies = Handed)

SavedInv == Len(saved) = testNo - 1 /\ SavedAreOwnAndComplete

IInv == RunTypeOK /\ CountInv /\ WorkerInv /\ StageInv /\ BufferInv /\ SavedInv

-----------------------------------------------------------------------------
(* Facts about the data *)

LEMMA OrderLen == Len(Order) \in Nat
  BY LenProperties

LEMMA ReadyFinite == IsFiniteSet(Thread) /\ IsFiniteSet(Ready) /\ Cardinality(Ready) \in 0 .. N
  <1>1. IsFiniteSet(1 .. N) /\ Cardinality(1 .. N) = N
    BY FS_Interval
  <1> QED
    BY <1>1, FS_Subset, FS_CardinalityType DEF Ready

LEMMA AllReady == CountInv /\ readyCount >= N => \A t \in Thread : worker[t] \notin Preparing
  <1> SUFFICES ASSUME CountInv, readyCount >= N
               PROVE  Ready = Thread
    BY DEF Ready
  <1>1. IsFiniteSet(1 .. N) /\ Cardinality(1 .. N) = N
    BY FS_Interval
  <1>2. Ready \subseteq Thread
    BY DEF Ready
  <1> QED
    <2>1. Cardinality(Ready) = N
      BY ReadyFinite DEF CountInv
    <2> HIDE DEF Ready, Thread
    <2> QED
      BY <1>1, <1>2, <2>1, FS_Subset DEF Thread

\* A step that changes no worker keeps the counts; so does one after which the same
\* workers are ready.
LEMMA SameReady ==
  ASSUME CountInv, UNCHANGED readyCount,
         \A t \in Thread : worker'[t] \in Preparing <=> worker[t] \in Preparing
  PROVE  CountInv'
  BY DEF CountInv, Ready

LEMMA OwnIsBuffer ==
  ASSUME RunTypeOK, main # "clear", StageInv, NEW t \in Thread
  PROVE  Own(testNo, t) \in Buffer
  BY OrderLen DEF RunTypeOK, StageInv, Own, Buffer

-----------------------------------------------------------------------------
LEMMA InitInv == InitRun => IInv
  <1> SUFFICES ASSUME InitRun
               PROVE  IInv
    OBVIOUS
  <1> USE DEF InitRun, Each
  <1>1. RunTypeOK
    <2>1. /\ ops \in [Thread -> 0 .. Ops] /\ local_bytes \in [Thread -> Nat]
          /\ worker \in [Thread -> {"none", "prepare", "spin", "access", "collect", "exit"}]
      OBVIOUS
    <2>2. testNo \in 1 .. Len(Order) + 1 /\ readyCount \in 0 .. N
      BY OrderLen
    <2>3. \A S : <<>> \in Seq(S)
      BY EmptySeq
    <2>4. saved \in Seq([trace : SUBSET Buffer, latency : SUBSET Buffer])
      BY <2>3
    <2> QED
      BY <2>1, <2>2, <2>4 DEF RunTypeOK
  <1>2. CountInv
    <2>1. Ready = {}
      BY DEF Ready, Preparing
    <2> QED
      BY <2>1, FS_EmptySet DEF CountInv
  <1>3. WorkerInv /\ StageInv /\ BufferInv
    BY DEF WorkerInv, StageInv, BufferInv
  <1>4. SavedInv
    BY DEF SavedInv, SavedAreOwnAndComplete
  <1> QED
    BY <1>1, <1>2, <1>3, <1>4 DEF IInv

-----------------------------------------------------------------------------
(* main thread *)

LEMMA ClearBuffersInv == ASSUME IInv, ClearBuffers PROVE IInv'
  <1> USE DEF IInv, ClearBuffers, FreshTest, Each
  <1>1. RunTypeOK'
    <2>1. /\ ops' \in [Thread -> 0 .. Ops] /\ local_bytes' \in [Thread -> Nat]
          /\ worker' \in [Thread -> {"none", "prepare", "spin", "access", "collect", "exit"}]
          /\ readyCount' \in 0 .. N
      OBVIOUS
    <2>2. /\ UNCHANGED <<testNo, saved>> /\ main' = "spawn" /\ monitor' = "none"
          /\ startFlag' = FALSE /\ stopFlag' = FALSE /\ bytes' = 0 /\ finalPrint' = 0
          /\ traces' \subseteq Buffer /\ latencies' \subseteq Buffer
      BY DEF RunTypeOK
    <2>3. saved' \in Seq([trace : SUBSET Buffer, latency : SUBSET Buffer])
      BY <2>2 DEF RunTypeOK
    <2>4. testNo' \in 1 .. Len(Order) + 1
      BY <2>2 DEF RunTypeOK
    <2> HIDE DEF ClearBuffers, FreshTest, IInv
    <2> QED
      BY <2>1, <2>2, <2>3, <2>4 DEF RunTypeOK
  <1>2. CountInv'
    <2>1. Ready' = {}
      BY DEF Ready, Preparing
    <2> QED
      BY <2>1, FS_EmptySet DEF CountInv
  <1>3. WorkerInv' /\ StageInv'
    BY DEF WorkerInv, StageInv
  <1>4. BufferInv'
    <2>1. Handed' = {}
      BY DEF Handed
    <2> QED
      BY <2>1 DEF BufferInv
  <1>5. SavedInv'
    BY DEF SavedInv, SavedAreOwnAndComplete
  <1> QED
    BY <1>1, <1>2, <1>3, <1>4, <1>5

LEMMA SpawnWorkerInv == ASSUME IInv, NEW t \in Thread, SpawnWorker(t) PROVE IInv'
  <1> USE DEF IInv, SpawnWorker, barrier, progress, collected
  <1>1. RunTypeOK'
    BY DEF RunTypeOK
  <1>2. CountInv'
    BY SameReady DEF RunTypeOK, Preparing
  <1>3. WorkerInv'
    BY DEF WorkerInv, RunTypeOK
  <1>4. StageInv'
    BY DEF StageInv, RunTypeOK, Preparing
  <1>5. BufferInv'
    <2>1. Handed' = Handed
      BY DEF Handed, RunTypeOK
    <2> QED
      BY <2>1 DEF BufferInv
  <1>6. SavedInv'
    BY DEF SavedInv, SavedAreOwnAndComplete
  <1> QED
    BY <1>1, <1>2, <1>3, <1>4, <1>5, <1>6

\* The steps of main between the last spawn and the saving: no worker changes.
LEMMA MainWaitsInv ==
  ASSUME IInv, StartMonitor \/ RaiseStartFlag \/ JoinWorkers \/ StopMonitor
  PROVE  IInv'
  <1> USE DEF IInv, StartMonitor, RaiseStartFlag, JoinWorkers, StopMonitor, workers, barrier,
          progress, collected
  <1>1. RunTypeOK'
    BY DEF RunTypeOK
  <1>2. CountInv'
    BY SameReady
  <1>3. WorkerInv'
    BY DEF WorkerInv
  <1>4. StageInv'
    BY AllReady DEF StageInv
  <1>5. BufferInv'
    BY DEF BufferInv, Handed
  <1>6. SavedInv'
    BY DEF SavedInv, SavedAreOwnAndComplete
  <1> QED
    BY <1>1, <1>2, <1>3, <1>4, <1>5, <1>6

LEMMA SaveResultsInv == ASSUME IInv, SaveResults PROVE IInv'
  <1> USE DEF IInv, SaveResults, workers, barrier, progress, collected
  <1> DEFINE S == [trace : SUBSET Buffer, latency : SUBSET Buffer]
             x == [trace |-> traces,
                   latency |-> IF Order[testNo] \in Sampled THEN latencies ELSE {}]
  <1>1. saved \in Seq(S) /\ x \in S
    BY DEF RunTypeOK
  <1>2. saved' = Append(saved, x)
    OBVIOUS
  <1>3. /\ saved' \in Seq(S) /\ Len(saved') = Len(saved) + 1 /\ Len(saved) \in Nat
        /\ \A k \in 1 .. Len(saved) : saved'[k] = saved[k]
        /\ saved'[Len(saved) + 1] = x
    <2> HIDE DEF S, x
    <2> QED
      BY <1>1, <1>2
  <1>4. RunTypeOK'
    BY <1>3, OrderLen DEF RunTypeOK, StageInv
  <1>5. CountInv'
    BY SameReady
  <1>6. WorkerInv' /\ StageInv' /\ BufferInv'
    BY DEF WorkerInv, StageInv, BufferInv
  <1>7. SavedAreOwnAndComplete'
    <2> SUFFICES ASSUME NEW k \in 1 .. Len(saved) + 1
                 PROVE  /\ saved'[k].trace = {Own(k, t) : t \in Thread}
                        /\ saved'[k].latency = IF Order[k] \in Sampled
                                               THEN {Own(k, t) : t \in Thread} ELSE {}
      BY <1>3 DEF SavedAreOwnAndComplete, Own
    <2>1. CASE k \in 1 .. Len(saved)
      BY <1>3, <2>1 DEF SavedInv, SavedAreOwnAndComplete, Own
    <2>2. CASE k = Len(saved) + 1
      <3>1. k = testNo
        BY <2>2, <1>3 DEF SavedInv, RunTypeOK
      <3>2. Handed = {Own(k, t) : t \in Thread}
        BY <3>1 DEF Handed, StageInv
      <3>3. saved'[k] = x /\ k = testNo
        BY <1>3, <2>2, <3>1
      <3>4. main # "clear"
        OBVIOUS
      <3>5. traces = Handed /\ (Order[testNo] \in Sampled => latencies = Handed)
        BY <3>4 DEF BufferInv
      <3>6. /\ x.trace = traces
            /\ x.latency = IF Order[testNo] \in Sampled THEN latencies ELSE {}
        OBVIOUS
      <3> HIDE DEF x
      <3> QED
        BY <3>2, <3>3, <3>5, <3>6
    <2> QED
      BY <1>3, <2>1, <2>2
  <1>8. SavedInv'
    BY <1>3, <1>7 DEF SavedInv, RunTypeOK
  <1> QED
    BY <1>4, <1>5, <1>6, <1>8

-----------------------------------------------------------------------------
(* worker threads *)

LEMMA ReportReadyInv == ASSUME IInv, NEW t \in Thread, ReportReady(t) PROVE IInv'
  <1> USE DEF IInv, ReportReady, Move, progress, collected
  <1>1. worker' = [worker EXCEPT ![t] = "spin"] /\ worker[t] = "prepare"
    OBVIOUS
  <1>2. CountInv'
    <2>1. Ready' = Ready \cup {t} /\ t \notin Ready
      BY <1>1 DEF Ready, Preparing, RunTypeOK
    <2>2. Cardinality(Ready') = Cardinality(Ready) + 1
      BY <2>1, ReadyFinite, FS_AddElement
    <2> QED
      BY <2>2 DEF CountInv
  <1>3. readyCount' \in 0 .. N
    <2>1. Ready' \subseteq 1 .. N
      BY DEF Ready
    <2>2. IsFiniteSet(1 .. N) /\ Cardinality(1 .. N) = N
      BY FS_Interval
    <2>3. Cardinality(Ready') <= N /\ Cardinality(Ready') \in Nat
      <3> HIDE DEF Ready
      <3> QED
        BY <2>1, <2>2, FS_Subset, FS_CardinalityType
    <2> QED
      BY <1>2, <2>3 DEF CountInv
  <1>4. RunTypeOK'
    BY <1>1, <1>3 DEF RunTypeOK
  <1>5. WorkerInv'
    BY <1>1 DEF WorkerInv, RunTypeOK
  <1>6. StageInv'
    BY <1>1 DEF StageInv, RunTypeOK, Preparing
  <1>7. BufferInv'
    <2>1. Handed' = Handed
      BY <1>1 DEF Handed, RunTypeOK
    <2> QED
      BY <2>1 DEF BufferInv
  <1>8. SavedInv'
    BY DEF SavedInv, SavedAreOwnAndComplete
  <1> QED
    BY <1>2, <1>4, <1>5, <1>6, <1>7, <1>8

LEMMA SeeStartFlagInv == ASSUME IInv, NEW t \in Thread, SeeStartFlag(t) PROVE IInv'
  <1> USE DEF IInv, SeeStartFlag, Move, barrier, progress, collected
  <1>1. RunTypeOK'
    BY DEF RunTypeOK
  <1>2. CountInv'
    BY SameReady DEF RunTypeOK, Preparing
  <1>3. WorkerInv'
    BY DEF WorkerInv, RunTypeOK
  <1>4. StageInv'
    BY DEF StageInv, RunTypeOK, Preparing
  <1>5. BufferInv'
    <2>1. Handed' = Handed
      BY DEF Handed, RunTypeOK
    <2> QED
      BY <2>1 DEF BufferInv
  <1>6. SavedInv'
    BY DEF SavedInv, SavedAreOwnAndComplete
  <1> QED
    BY <1>1, <1>2, <1>3, <1>4, <1>5, <1>6

LEMMA AccessInv == ASSUME IInv, NEW t \in Thread, Access(t) PROVE IInv'
  <1> USE DEF IInv, Access, barrier, collected
  <1>1. RunTypeOK'
    <2> DEFINE n == ops[t]
    <2>1. ops' \in [Thread -> 0 .. Ops]
      <3>1. n \in 0 .. Ops /\ n < Ops
        BY DEF RunTypeOK
      <3>2. n + 1 \in 0 .. Ops
        BY <3>1
      <3> QED
        BY <3>2 DEF RunTypeOK
    <2>2. local_bytes' \in [Thread -> Nat] /\ bytes' \in Nat
      <3>1. local_bytes[t] \in Nat /\ bytes \in Nat /\ local_bytes \in [Thread -> Nat]
        BY DEF RunTypeOK
      <3>2. CASE (ops[t] + 1) % U = 0
        <4>1. bytes' = bytes + local_bytes[t] + 1 /\ local_bytes' = [local_bytes EXCEPT ![t] = 0]
          BY <3>2
        <4> QED
          BY <3>1, <4>1
      <3>3. CASE (ops[t] + 1) % U # 0
        <4>1. bytes' = bytes /\ local_bytes' = [local_bytes EXCEPT ![t] = @ + 1]
          BY <3>3
        <4> QED
          BY <3>1, <4>1
      <3> QED
        BY <3>2, <3>3
    <2> QED
      BY <2>1, <2>2 DEF RunTypeOK
  <1>2. CountInv'
    BY SameReady
  <1>3. WorkerInv'
    BY DEF WorkerInv, RunTypeOK
  <1>4. StageInv' /\ BufferInv'
    BY DEF StageInv, BufferInv, Handed
  <1>5. SavedInv'
    BY DEF SavedInv, SavedAreOwnAndComplete
  <1> QED
    BY <1>1, <1>2, <1>3, <1>4, <1>5

LEMMA ReportRestInv == ASSUME IInv, NEW t \in Thread, ReportRest(t) PROVE IInv'
  <1> USE DEF IInv, ReportRest, Move, barrier, collected
  <1>1. RunTypeOK'
    <2>1. local_bytes[t] \in Nat /\ bytes \in Nat
      BY DEF RunTypeOK
    <2>2. bytes' \in Nat
      BY <2>1
    <2>3. local_bytes' \in [Thread -> Nat]
      BY DEF RunTypeOK
    <2> QED
      BY <2>2, <2>3 DEF RunTypeOK
  <1>2. CountInv'
    BY SameReady DEF RunTypeOK, Preparing
  <1>3. WorkerInv'
    BY DEF WorkerInv, RunTypeOK
  <1>4. StageInv'
    BY DEF StageInv, RunTypeOK, Preparing
  <1>5. BufferInv'
    <2>1. Handed' = Handed
      BY DEF Handed, RunTypeOK
    <2> QED
      BY <2>1 DEF BufferInv
  <1>6. SavedInv'
    BY DEF SavedInv, SavedAreOwnAndComplete
  <1> QED
    BY <1>1, <1>2, <1>3, <1>4, <1>5, <1>6

LEMMA CollectInv == ASSUME IInv, NEW t \in Thread, Collect(t) PROVE IInv'
  <1> USE DEF IInv, Collect, Move, barrier, progress
  <1>1. main # "clear"
    BY DEF StageInv
  <1>2. Samples(t) = Own(testNo, t)
    BY DEF WorkerInv, Samples, Own
  <1>3. RunTypeOK'
    BY <1>1, <1>2, OwnIsBuffer DEF RunTypeOK
  <1>4. CountInv'
    BY SameReady DEF RunTypeOK, Preparing
  <1>5. WorkerInv'
    BY DEF WorkerInv, RunTypeOK
  <1>6. StageInv'
    BY <1>1 DEF StageInv, RunTypeOK, Preparing
  <1>7. BufferInv'
    <2>1. {u \in Thread : worker'[u] = "exit"} = {u \in Thread : worker[u] = "exit"} \cup {t}
      BY DEF RunTypeOK
    <2>2. Handed' = Handed \cup {Own(testNo, t)}
      BY <2>1 DEF Handed
    <2> QED
      BY <1>1, <1>2, <2>2 DEF BufferInv
  <1>8. SavedInv'
    BY DEF SavedInv, SavedAreOwnAndComplete
  <1> QED
    BY <1>3, <1>4, <1>5, <1>6, <1>7, <1>8

-----------------------------------------------------------------------------
(* monitor thread *)

LEMMA MonitorInv == ASSUME IInv, MonitorStep PROVE IInv'
  <1> USE DEF IInv, MonitorStep, MonitorSleep, MonitorWake, MonitorLastPrint, workers, barrier,
          collected
  <1>1. RunTypeOK'
    BY DEF RunTypeOK
  <1>2. CountInv'
    BY SameReady
  <1>3. WorkerInv' /\ StageInv'
    BY DEF WorkerInv, StageInv
  <1>4. BufferInv' /\ SavedInv'
    BY DEF BufferInv, Handed, SavedInv, SavedAreOwnAndComplete
  <1> QED
    BY <1>1, <1>2, <1>3, <1>4

LEMMA NextInv == IInv /\ [NextRun]_runVars => IInv'
  <1> SUFFICES ASSUME IInv, [NextRun]_runVars
               PROVE  IInv'
    OBVIOUS
  <1>1. CASE MainStep
    BY <1>1, ClearBuffersInv, SpawnWorkerInv, MainWaitsInv, SaveResultsInv DEF MainStep
  <1>2. CASE \E t \in Thread : WorkerStep(t)
    BY <1>2, ReportReadyInv, SeeStartFlagInv, AccessInv, ReportRestInv, CollectInv DEF WorkerStep
  <1>3. CASE MonitorStep
    BY <1>3, MonitorInv
  <1>4. CASE UNCHANGED runVars
    <2> USE <1>4 DEF runVars, workers, barrier, progress, collected, IInv
    <2>1. RunTypeOK'
      BY DEF RunTypeOK
    <2>2. CountInv'
      BY SameReady
    <2>3. WorkerInv' /\ StageInv' /\ BufferInv'
      BY DEF WorkerInv, StageInv, BufferInv, Handed
    <2>4. SavedInv'
      BY DEF SavedInv, SavedAreOwnAndComplete
    <2> QED
      BY <2>1, <2>2, <2>3, <2>4
  <1> QED
    BY <1>1, <1>2, <1>3, <1>4 DEF NextRun

LEMMA Always == SpecRun => []IInv
  BY InitInv, NextInv, PTL DEF SpecRun

-----------------------------------------------------------------------------
\* Every variable keeps its type; no worker is counted ready twice.
THEOREM BenchTypeCorrect == SpecRun => []RunTypeOK
  <1>1. IInv => RunTypeOK
    BY DEF IInv
  <1> QED
    BY Always, <1>1, PTL

\* The barrier holds for any number of workers: an access means a raised flag, which
\* main raises when all have reported ready.
THEOREM NobodyAccessesEarly == SpecRun => []NoAccessWhilePreparing
  <1>1. IInv => NoAccessWhilePreparing
    <2> SUFFICES ASSUME IInv, NEW t \in Thread, ops[t] > 0
                 PROVE  \A u \in Thread : worker[u] \notin {"none", "prepare"}
      BY DEF NoAccessWhilePreparing
    <2>1. ops[t] # 0
      OBVIOUS
    <2>2. worker[t] \in {"access", "collect", "exit"}
      BY <2>1 DEF IInv, RunTypeOK, WorkerInv
    <2>3. startFlag
      BY <2>2 DEF IInv, WorkerInv
    <2> QED
      BY <2>3 DEF IInv, StageInv, Preparing
  <1> QED
    BY Always, <1>1, PTL

\* The files of every test hold all buffers of that test and nothing else.
THEOREM SavedAlwaysOwn == SpecRun => []SavedAreOwnAndComplete
  <1>1. IInv => SavedAreOwnAndComplete
    BY DEF IInv, SavedInv
  <1> QED
    BY Always, <1>1, PTL

\* When main clears or saves the buffers no worker or monitor of the test is left.
THEOREM MainIsAlone == SpecRun => MainAloneWithBuffers
  <1>1. IInv /\ [NextRun]_runVars =>
          [ main = "clear" \/ saved' # saved =>
              /\ \A t \in Thread : worker[t] \in {"none", "exit"}
              /\ monitor \in {"none", "exit"} ]_runVars
    <2> SUFFICES ASSUME IInv, [NextRun]_runVars, saved' # saved
                 PROVE  /\ \A t \in Thread : worker[t] \in {"none", "exit"}
                        /\ monitor \in {"none", "exit"}
      BY DEF IInv, StageInv
    <2>1. SaveResults
      BY DEF NextRun, runVars, MainStep, ClearBuffers, SpawnWorker, StartMonitor, RaiseStartFlag,
         JoinWorkers, StopMonitor, WorkerStep, ReportReady, SeeStartFlag, Access, ReportRest,
         Collect, MonitorStep, MonitorSleep, MonitorWake, MonitorLastPrint
    <2> QED
      BY <2>1 DEF SaveResults, IInv, StageInv
  <1> QED
    BY Always, <1>1, PTL DEF SpecRun, MainAloneWithBuffers

-----------------------------------------------------------------------------
(* The progress line: the bytes reported are a sum over the workers *)

Made == [t \in Thread |-> ops[t] - local_bytes[t]]

\* That sum, and the one after a step, as a fold of Made.
LEMMA SumNow ==
  ASSUME IsFiniteSet(Thread)
  PROVE \E g : Adds(g, Made, SUBSET Thread) /\ MapThenSumSet(Reported, Thread) = g[Thread]
  <1> DEFINE iter == CHOOSE g : g = [s \in SUBSET Thread |->
                IF s = {} THEN 0 ELSE LET x == CHOOSE x \in s : TRUE IN Reported(x) + g[s \ {x}]]
  <1>1. MapThenSumSet(Reported, Thread) = iter[Thread]
    BY DEF MapThenSumSet, MapThenFoldSet
  <1>2. PICK g : Adds(g, Made, SUBSET Thread)
    BY SumExists
  <1>3. g = [s \in SUBSET Thread |->
               IF s = {} THEN 0 ELSE LET x == CHOOSE x \in s : TRUE IN Reported(x) + g[s \ {x}]]
    BY <1>2 DEF Adds, Made, Chosen, Reported
  <1>4. iter = [s \in SUBSET Thread |->
               IF s = {} THEN 0 ELSE LET x == CHOOSE x \in s : TRUE IN Reported(x) + iter[s \ {x}]]
    BY <1>3
  <1>5. Adds(iter, Made, SUBSET Thread)
    BY <1>4 DEF Adds, Made, Chosen, Reported
  <1> QED
    BY <1>1, <1>5

LEMMA SumNext ==
  ASSUME IsFiniteSet(Thread)
  PROVE \E g : Adds(g, Made', SUBSET Thread) /\ MapThenSumSet(Reported, Thread)' = g[Thread]
  <1> DEFINE iter == CHOOSE g : g = [s \in SUBSET Thread |->
                IF s = {} THEN 0 ELSE LET x == CHOOSE x \in s : TRUE IN Reported(x)' + g[s \ {x}]]
  <1>1. MapThenSumSet(Reported, Thread)' = iter[Thread]
    BY DEF MapThenSumSet, MapThenFoldSet
  <1>2. PICK g : Adds(g, Made', SUBSET Thread)
    BY SumExists
  <1>3. g = [s \in SUBSET Thread |->
               IF s = {} THEN 0 ELSE LET x == CHOOSE x \in s : TRUE IN Reported(x)' + g[s \ {x}]]
    BY <1>2 DEF Adds, Made, Chosen, Reported
  <1>4. iter = [s \in SUBSET Thread |->
               IF s = {} THEN 0 ELSE LET x == CHOOSE x \in s : TRUE IN Reported(x)' + iter[s \ {x}]]
    BY <1>3
  <1>5. Adds(iter, Made', SUBSET Thread)
    BY <1>4 DEF Adds, Made, Chosen, Reported
  <1> QED
    BY <1>1, <1>5

LEMMA MadeType == ASSUME RunTypeOK PROVE Made \in [Thread -> Int]
  BY DEF RunTypeOK, Made

\* A step that changes what one worker has reported changes the sum by as much.
LEMMA SumStep ==
  ASSUME RunTypeOK, NEW t \in Thread, NEW d \in Int, Moved(Made', Made, t, d)
  PROVE  MapThenSumSet(Reported, Thread)' = MapThenSumSet(Reported, Thread) + d
  <1>1. PICK g : Adds(g, Made, SUBSET Thread) /\ MapThenSumSet(Reported, Thread) = g[Thread]
    BY SumNow, ReadyFinite
  <1>2. PICK h : Adds(h, Made', SUBSET Thread) /\ MapThenSumSet(Reported, Thread)' = h[Thread]
    BY SumNext, ReadyFinite
  <1>3. PICK f : f = Made
    OBVIOUS
  <1>4. PICK e : e = Made'
    OBVIOUS
  <1>5. /\ f \in [Thread -> Int] /\ Adds(g, f, SUBSET Thread) /\ IsFiniteSet(Thread)
        /\ Adds(h, e, SUBSET Thread) /\ Moved(e, f, t, d)
    BY <1>1, <1>2, <1>3, <1>4, MadeType, ReadyFinite
  <1>6. h[Thread] = g[Thread] + d
    <2> HIDE BenchAssumption DEF Thread
    <2> QED
      BY <1>5, SumChange
  <1> QED
    BY <1>1, <1>2, <1>6

LEMMA SumSame ==
  ASSUME RunTypeOK, UNCHANGED Made
  PROVE  MapThenSumSet(Reported, Thread)' = MapThenSumSet(Reported, Thread)
  <1>1. PICK g : Adds(g, Made, SUBSET Thread) /\ MapThenSumSet(Reported, Thread) = g[Thread]
    BY SumNow, ReadyFinite
  <1>2. 1 \in Thread /\ Made \in [Thread -> Int] /\ 0 \in Int
    BY MadeType
  <1>3. g[Thread] \in Int
    <2> HIDE DEF Thread
    <2> QED
      BY <1>1, <1>2, ReadyFinite, SumType
  <1>4. Moved(Made', Made, 1, 0)
    <2>1. PICK f \in [Thread -> Int] : f = Made
      BY <1>2
    <2>2. f = [f EXCEPT ![1] = f[1] + 0]
      BY <1>2
    <2> QED
      BY <2>1, <2>2 DEF Moved
  <1>5. MapThenSumSet(Reported, Thread)' = MapThenSumSet(Reported, Thread) + 0
    <2> HIDE DEF Thread, Made
    <2> QED
      BY <1>2, <1>4, SumStep
  <1> QED
    BY <1>1, <1>3, <1>5

\* Nothing is kept back once a worker has left its loop; the monitor is stopped after
\* the workers are joined.
RestInv ==
  /\ \A t \in Thread : worker[t] \in {"collect", "exit"} => local_bytes[t] = 0
  /\ stopFlag => main \in {"joinMonitor", "clear"}

LEMMA ThreadsAreN == IsFiniteSet(Thread) /\ Cardinality(Thread) = N
  BY BelowIsFinite

\* When all have handed in, the sum is what all of them accessed.
LEMMA SumOfAll ==
  ASSUME IInv, RestInv, \A t \in Thread : worker[t] = "exit"
  PROVE  MapThenSumSet(Reported, Thread) = N * Ops
  <1>1. PICK g : Adds(g, Made, SUBSET Thread) /\ MapThenSumSet(Reported, Thread) = g[Thread]
    BY SumNow, ReadyFinite
  <1>2. \A t \in Thread : Made[t] = Ops
    BY DEF Made, IInv, WorkerInv, RestInv
  <1>3. Ops \in Int
    OBVIOUS
  <1>4. g[Thread] = Cardinality(Thread) * Ops
    <2> HIDE DEF Thread, Made
    <2> QED
      BY <1>1, <1>2, <1>3, ReadyFinite, SumOfEqual
  <1> QED
    BY <1>1, <1>4, ThreadsAreN

LEMMA ReportInit == InitRun => ProgressIsExact /\ RestInv
  <1> SUFFICES ASSUME InitRun
               PROVE  ProgressIsExact /\ RestInv
    OBVIOUS
  <1>1. PICK g : Adds(g, Made, SUBSET Thread) /\ MapThenSumSet(Reported, Thread) = g[Thread]
    BY SumNow, ReadyFinite
  <1>2. \A t \in Thread : Made[t] = 0
    BY DEF InitRun, Each, Made
  <1>5. 0 \in Int
    OBVIOUS
  <1>3. g[Thread] = Cardinality(Thread) * 0
    <2> HIDE DEF Thread, Made
    <2> QED
      BY <1>1, <1>2, <1>5, ReadyFinite, SumOfEqual
  <1>4. MapThenSumSet(Reported, Thread) = 0
    BY <1>1, <1>3, ThreadsAreN
  <1> QED
    BY <1>4 DEF InitRun, Each, ProgressIsExact, RestInv

\* After the buffers are cleared nothing has been made.
LEMMA ReportCleared ==
  ASSUME \A t \in Thread : Made'[t] = 0
  PROVE  MapThenSumSet(Reported, Thread)' = 0
  <1>1. PICK g : Adds(g, Made', SUBSET Thread) /\ MapThenSumSet(Reported, Thread)' = g[Thread]
    BY SumNext, ReadyFinite
  <1>2. PICK f : f = Made'
    OBVIOUS
  <1>3. Adds(g, f, SUBSET Thread) /\ \A t \in Thread : f[t] = 0
    BY <1>1, <1>2
  <1>4. 0 \in Int /\ IsFiniteSet(Thread)
    BY ReadyFinite
  <1>5. g[Thread] = Cardinality(Thread) * 0
    <2> HIDE DEF Thread
    <2> QED
      BY <1>3, <1>4, SumOfEqual
  <1> QED
    BY <1>1, <1>5, ThreadsAreN

ReportInv == ProgressIsExact /\ RestInv

\* A step that reports nothing.
LEMMA ReportSame ==
  ASSUME RunTypeOK, ReportInv, UNCHANGED <<ops, local_bytes, bytes>>,
         monitor' = "exit" => monitor = "exit" /\ UNCHANGED finalPrint
  PROVE  ProgressIsExact'
  <1>1. MapThenSumSet(Reported, Thread)' = MapThenSumSet(Reported, Thread)
    BY SumSame DEF Made
  <1> QED
    BY <1>1 DEF ReportInv, ProgressIsExact

LEMMA ReportStep == ASSUME IInv, ReportInv, [NextRun]_runVars PROVE ReportInv'
  <1> USE DEF IInv
  <1>1. CASE ClearBuffers
    <2>1. \A t \in Thread : Made'[t] = 0
      BY <1>1 DEF ClearBuffers, FreshTest, Each, Made
    <2>2. MapThenSumSet(Reported, Thread)' = 0
      BY <2>1, ReportCleared
    <2> QED
      BY <1>1, <2>2 DEF ClearBuffers, FreshTest, Each, ReportInv, ProgressIsExact, RestInv
  <1>2. CASE \E t \in Thread : SpawnWorker(t)
    <2>1. PICK t \in Thread : SpawnWorker(t)
      BY <1>2
    <2>2. ProgressIsExact'
      BY <2>1, ReportSame DEF SpawnWorker, progress
    <2>3. RestInv'
      <3>1. worker \in [Thread -> {"none", "prepare", "spin", "access", "collect", "exit"}]
        BY DEF RunTypeOK
      <3> QED
        BY <2>1, <3>1 DEF SpawnWorker, progress, ReportInv, RestInv
    <2> QED
      BY <2>2, <2>3 DEF ReportInv
  <1>3. CASE StartMonitor \/ RaiseStartFlag \/ JoinWorkers \/ StopMonitor \/ SaveResults
    <2>1. UNCHANGED <<workers, bytes, finalPrint>> /\ (monitor' = monitor \/ monitor' = "check")
      BY <1>3 DEF StartMonitor, RaiseStartFlag, JoinWorkers, StopMonitor, SaveResults, progress
    <2>2. ProgressIsExact'
      BY <2>1, ReportSame DEF workers
    <2>3. stopFlag' => main' \in {"joinMonitor", "clear"}
      BY <1>3 DEF StartMonitor, RaiseStartFlag, JoinWorkers, StopMonitor, SaveResults, progress,
         ReportInv, RestInv
    <2> QED
      BY <2>1, <2>2, <2>3 DEF workers, ReportInv, RestInv
  <1>4. ASSUME NEW t \in Thread, ReportReady(t) \/ SeeStartFlag(t) \/ Collect(t)
        PROVE  ReportInv'
    <2>1. ProgressIsExact'
      BY <1>4, ReportSame DEF ReportReady, SeeStartFlag, Collect, progress
    <2>2. RestInv'
      <3>1. /\ worker \in [Thread -> {"none", "prepare", "spin", "access", "collect", "exit"}]
            /\ worker[t] = "collect" => local_bytes[t] = 0
        BY DEF RunTypeOK, ReportInv, RestInv
      <3>2. UNCHANGED <<main, stopFlag, local_bytes>>
        BY <1>4 DEF ReportReady, SeeStartFlag, Collect, progress
      <3> QED
        BY <1>4, <3>1, <3>2 DEF ReportReady, SeeStartFlag, Collect, Move, ReportInv, RestInv
    <2> QED
      BY <2>1, <2>2 DEF ReportInv
  <1>5. ASSUME NEW t \in Thread, Access(t)
        PROVE  ReportInv'
    <2>1. /\ ops[t] \in Nat /\ local_bytes[t] \in Nat
          /\ ops \in [Thread -> 0 .. Ops] /\ local_bytes \in [Thread -> Nat]
      BY DEF RunTypeOK
    <2>2. RestInv'
      BY <1>5, <2>1 DEF Access, ReportInv, RestInv
    <2>3. CASE (ops[t] + 1) % U = 0
      <3>1. bytes' = bytes + (local_bytes[t] + 1)
        BY <1>5, <2>1, <2>3 DEF Access, RunTypeOK
      <3>2. Moved(Made', Made, t, local_bytes[t] + 1)
        <4>1. /\ ops' = [ops EXCEPT ![t] = ops[t] + 1] /\ local_bytes' = [local_bytes EXCEPT ![t] = 0]
              /\ Made \in [Thread -> Int]
          BY <1>5, <2>3, MadeType DEF Access
        <4>2. \A s \in Thread : ops'[s] - local_bytes'[s] =
                IF s = t THEN (ops[t] - local_bytes[t]) + (local_bytes[t] + 1) ELSE ops[s] - local_bytes[s]
          BY <2>1, <4>1
        <4> QED
          BY <4>1, <4>2 DEF Made, Moved
      <3>3. MapThenSumSet(Reported, Thread)' = MapThenSumSet(Reported, Thread) + (local_bytes[t] + 1)
        BY <2>1, <3>2, SumStep
      <3>4. UNCHANGED <<monitor, finalPrint>>
        BY <1>5 DEF Access
      <3> QED
        BY <2>2, <3>1, <3>3, <3>4 DEF ReportInv, ProgressIsExact
    <2>4. CASE (ops[t] + 1) % U # 0
      <3>1. UNCHANGED <<bytes, monitor, finalPrint>>
        BY <1>5, <2>4 DEF Access
      <3>2. Made' = Made
        <4>1. ops' = [ops EXCEPT ![t] = ops[t] + 1] /\ local_bytes' = [local_bytes EXCEPT ![t] = local_bytes[t] + 1]
          BY <1>5, <2>4 DEF Access
        <4>2. \A s \in Thread : ops'[s] - local_bytes'[s] = ops[s] - local_bytes[s]
          BY <2>1, <4>1
        <4> QED
          BY <4>2 DEF Made
      <3>3. MapThenSumSet(Reported, Thread)' = MapThenSumSet(Reported, Thread)
        BY <3>2, SumSame
      <3> QED
        BY <2>2, <3>1, <3>3 DEF ReportInv, ProgressIsExact
    <2> QED
      BY <2>3, <2>4
  <1>6. ASSUME NEW t \in Thread, ReportRest(t)
        PROVE  ReportInv'
    <2>1. /\ ops[t] \in Nat /\ local_bytes[t] \in Nat
          /\ ops \in [Thread -> 0 .. Ops] /\ local_bytes \in [Thread -> Nat]
      BY DEF RunTypeOK
    <2>2. RestInv'
      <3>1. worker \in [Thread -> {"none", "prepare", "spin", "access", "collect", "exit"}]
        BY DEF RunTypeOK
      <3> QED
        BY <1>6, <2>1, <3>1 DEF ReportRest, Move, ReportInv, RestInv
    <2>3. Moved(Made', Made, t, local_bytes[t])
      <3>1. ops' = ops /\ local_bytes' = [local_bytes EXCEPT ![t] = 0] /\ Made \in [Thread -> Int]
        BY <1>6, MadeType DEF ReportRest
      <3>2. \A s \in Thread : ops'[s] - local_bytes'[s] =
              IF s = t THEN (ops[t] - local_bytes[t]) + local_bytes[t] ELSE ops[s] - local_bytes[s]
        BY <2>1, <3>1
      <3> QED
        BY <3>1, <3>2 DEF Made, Moved
    <2>4. MapThenSumSet(Reported, Thread)' = MapThenSumSet(Reported, Thread) + local_bytes[t]
      BY <2>1, <2>3, SumStep
    <2>5. bytes' = bytes + local_bytes[t] /\ UNCHANGED <<monitor, finalPrint>>
      BY <1>6 DEF ReportRest
    <2> QED
      BY <2>2, <2>4, <2>5 DEF ReportInv, ProgressIsExact
  <1>7. CASE MonitorStep
    <2>1. CASE MonitorSleep \/ MonitorWake
      <3>1. ProgressIsExact'
        BY <2>1, ReportSame DEF MonitorSleep, MonitorWake, workers
      <3> QED
        BY <2>1, <3>1 DEF MonitorSleep, MonitorWake, workers, ReportInv, RestInv
    <2>2. CASE MonitorLastPrint
      <3> USE <2>2 DEF MonitorLastPrint, workers
      <3>1. main = "joinMonitor"
        BY DEF StageInv, ReportInv, RestInv
      <3>2. \A t \in Thread : worker[t] = "exit"
        BY <3>1 DEF StageInv
      <3>3. MapThenSumSet(Reported, Thread) = N * Ops
        BY <3>2, SumOfAll DEF ReportInv
      <3>4. MapThenSumSet(Reported, Thread)' = MapThenSumSet(Reported, Thread)
        BY SumSame DEF Made
      <3>5. finalPrint' = bytes /\ bytes' = bytes /\ bytes = MapThenSumSet(Reported, Thread)
        BY DEF ReportInv, ProgressIsExact
      <3>6. RestInv'
        BY DEF ReportInv, RestInv
      <3> QED
        BY <3>3, <3>4, <3>5, <3>6 DEF ReportInv, ProgressIsExact
    <2> QED
      BY <1>7, <2>1, <2>2 DEF MonitorStep
  <1>8. CASE UNCHANGED runVars
    <2>1. ProgressIsExact'
      BY <1>8, ReportSame DEF runVars, workers, progress
    <2> QED
      BY <1>8, <2>1 DEF runVars, workers, progress, ReportInv, RestInv
  <1> QED
    BY <1>1, <1>2, <1>3, <1>4, <1>5, <1>6, <1>7, <1>8 DEF NextRun, MainStep, WorkerStep

\* Every access is reported once, whatever the number of workers and the interval
\* between reports; the last line printed counts every access of the test.
THEOREM ProgressNeverLies == SpecRun => []ProgressIsExact
  <1>1. InitRun => IInv /\ ReportInv
    BY InitInv, ReportInit DEF ReportInv
  <1>2. (IInv /\ ReportInv) /\ [NextRun]_runVars => (IInv /\ ReportInv)'
    BY NextInv, ReportStep
  <1>3. IInv /\ ReportInv => ProgressIsExact
    BY DEF ReportInv
  <1> QED
    BY <1>1, <1>2, <1>3, PTL DEF SpecRun

HIDE BenchAssumption DEF Thread

-----------------------------------------------------------------------------
(* The chase and its load (PointerChase) *)

USE ChaseAssumption

ChaseState == {"none", "begin", "ready", "chase", "done"}
LoadState == {"none", "begin", "ready", "load", "done"}

ChaseTypeInv ==
  /\ size \in Nat
  /\ caller \in {"size", "refused", "aux", "alloc", "shuffle", "build", "spawn", "wait", "join",
                 "total", "free", "freed", "numa_freed"}
  /\ start_flag \in BOOLEAN /\ stop_flag \in BOOLEAN /\ ready_count \in Nat
  /\ chase \in ChaseState
  /\ current \in Node /\ trail \in Seq(Node)
  /\ load \in [Load -> LoadState]
  /\ loadOffset \in [Load -> Nat]

\* The list is built before the first thread is created.
Building == {"size", "refused", "aux", "alloc", "shuffle", "build"}

BuiltInv ==
  /\ caller = "build" \/ caller \notin Building => indices \in Orders
  /\ caller \notin Building => next_node = [n \in Node |-> Successor(n)]
  /\ caller \in Building => chase = "none" /\ \A t \in Load : load[t] = "none"

\* The node in place k of the circle.
Around(k) == indices[(k % NumNodes) + 1]

\* The chase has gone around the circle from where it started.
TrailInv ==
  /\ chase \in {"none", "begin", "ready"} => current = 0 /\ trail = <<>>
  /\ chase # "none" =>
       \E s \in 0 .. NumNodes - 1 :
         /\ \A k \in 1 .. Len(trail) : trail[k] = Around(s + k - 1)
         /\ current = Around(s + Len(trail))
         /\ Around(s) = 0

\* The threads that have counted themselves ready.
Waiting == {"none", "begin"}
ReadyLoads == {t \in Load : load[t] \notin Waiting}
ReadyInv ==
  /\ ready_count = Cardinality(ReadyLoads) + (IF chase \in Waiting THEN 0 ELSE 1)
  /\ start_flag => ready_count = NumLoad + 1
  /\ chase \in {"chase", "done"} => start_flag
  /\ stop_flag => chase = "done"
  /\ \A t \in Load : load[t] \in {"load", "done"} => start_flag
  /\ \A t \in Load : load[t] = "done" => stop_flag

\* An offset is of an access, and of one in the partition unless that is empty.
OffsetInv ==
  \A t \in Load :
    /\ loadOffset[t] % VectorInts = 0
    /\ IF total_ints > 0 THEN loadOffset[t] < total_ints ELSE loadOffset[t] = 0

ChaseInv == ChaseTypeInv /\ BuiltInv /\ TrailInv /\ ReadyInv /\ OffsetInv

-----------------------------------------------------------------------------
(* The circle *)

LEMMA NodesAreFinite ==
  /\ NumNodes \in Nat \ {0} /\ 0 \in Node
  /\ IsFiniteSet(1 .. NumNodes) /\ Cardinality(1 .. NumNodes) = NumNodes
  /\ IsFiniteSet(Node) /\ Cardinality(Node) = NumNodes
  <1>1. NumNodes \in Nat \ {0} /\ 0 \in Node
    BY DEF Node
  <1> QED
    BY <1>1, BelowIsFinite DEF Node

\* A place of the circle is an index of indices.
LEMMA PlaceInOrder ==
  ASSUME NEW k \in Int
  PROVE  k % NumNodes \in 0 .. NumNodes - 1 /\ (k % NumNodes) + 1 \in 1 .. NumNodes
  <1>1. k % NumNodes \in 0 .. NumNodes - 1
    BY DivMod
  <1> QED
    BY <1>1

LEMMA AroundIsNode == ASSUME indices \in Orders, NEW k \in Int PROVE Around(k) \in Node
  BY PlaceInOrder DEF Around, Orders

\* Build, in terms of places: the node after the one in place k is in place k + 1.
LEMMA SuccessorAround ==
  ASSUME indices \in Orders, NEW k \in Int
  PROVE  Successor(Around(k)) = Around(k + 1)
  <1> DEFINE at == (k % NumNodes) + 1
             i == CHOOSE j \in 1 .. NumNodes : indices[j] = Around(k)
  <1>1. at \in 1 .. NumNodes /\ indices[at] = Around(k)
    BY PlaceInOrder DEF Around
  <1>2. i \in 1 .. NumNodes /\ indices[i] = Around(k)
    BY <1>1
  <1>3. i = at
    <2> HIDE DEF i, at
    <2> QED
      BY <1>1, <1>2 DEF Orders
  <1>4. (at % NumNodes) = (k + 1) % NumNodes
    BY NextPlace
  <1> QED
    BY <1>3, <1>4 DEF Successor, Around

\* The shuffle leaves node 0 somewhere.
LEMMA ZeroIsSomewhere ==
  ASSUME indices \in Orders
  PROVE  \E s \in 0 .. NumNodes - 1 : Around(s) = 0
  <1>1. indices \in Injection(1 .. NumNodes, Node)
    BY DEF Orders, Injection, IsInjective
  <1>2. indices \in Surjection(1 .. NumNodes, Node)
    BY <1>1, NodesAreFinite, FS_Injection
  <1>3. PICK i \in 1 .. NumNodes : indices[i] = 0
    BY <1>2, NodesAreFinite DEF Surjection
  <1>4. i - 1 \in 0 .. NumNodes - 1 /\ i - 1 \in Int /\ i - 1 = NumNodes * 0 + (i - 1)
    OBVIOUS
  <1>5. (i - 1) % NumNodes = i - 1
    <2> DEFINE x == i - 1
    <2>1. x \in Int /\ x \in 0 .. NumNodes - 1 /\ x = NumNodes * 0 + x
      BY <1>4
    <2> HIDE DEF x
    <2>2. x % NumNodes = x
      BY <2>1, RemainderOf, NodesAreFinite
    <2> QED
      BY <2>2 DEF x
  <1> QED
    BY <1>3, <1>4, <1>5 DEF Around

-----------------------------------------------------------------------------
(* The count of the threads that are ready *)

LEMMA LoadsAreFinite ==
  /\ IsFiniteSet(Load) /\ Cardinality(Load) = NumLoad
  /\ IsFiniteSet(ReadyLoads) /\ Cardinality(ReadyLoads) \in 0 .. NumLoad
  /\ Cardinality(ReadyLoads) = NumLoad => ReadyLoads = Load
  <1>1. IsFiniteSet(Load) /\ Cardinality(Load) = NumLoad
    BY BelowIsFinite DEF Load
  <1>2. ReadyLoads \in SUBSET Load
    BY DEF ReadyLoads
  <1>3. IsFiniteSet(ReadyLoads) /\ Cardinality(ReadyLoads) <= NumLoad
          /\ (Cardinality(ReadyLoads) = NumLoad => ReadyLoads = Load)
    <2> HIDE DEF Load, ReadyLoads
    <2> QED
      BY <1>1, <1>2, FS_Subset
  <1>4. Cardinality(ReadyLoads) \in Nat
    BY <1>3, FS_CardinalityType
  <1> QED
    BY <1>1, <1>3, <1>4

\* The calling thread waits for all of them.
LEMMA AllAreReady ==
  ASSUME ReadyInv, ready_count >= NumLoad + 1
  PROVE  ready_count = NumLoad + 1 /\ chase \notin Waiting /\ \A t \in Load : load[t] \notin Waiting
  <1> DEFINE c == Cardinality(ReadyLoads)
  <1>1. c \in 0 .. NumLoad /\ (c = NumLoad => ReadyLoads = Load)
    BY LoadsAreFinite
  <1>2. ready_count = c + (IF chase \in Waiting THEN 0 ELSE 1)
    BY DEF ReadyInv
  <1> HIDE DEF c
  <1>3. chase \notin Waiting /\ c = NumLoad /\ ready_count = NumLoad + 1
    BY <1>1, <1>2
  <1> QED
    BY <1>1, <1>3 DEF ReadyLoads

-----------------------------------------------------------------------------
LEMMA InitChaseInv == InitChase => ChaseInv
  <1> SUFFICES ASSUME InitChase
               PROVE  ChaseInv
    OBVIOUS
  <1> USE DEF InitChase
  <1>1. ChaseTypeInv
    BY NodesAreFinite DEF ChaseTypeInv, ChaseState, LoadState
  <1>2. BuiltInv
    BY DEF BuiltInv, Building
  <1>3. TrailInv
    BY DEF TrailInv
  <1>4. ReadyInv
    <2>1. ReadyLoads = {}
      BY DEF ReadyLoads, Waiting
    <2> QED
      BY <2>1, FS_EmptySet DEF ReadyInv, Waiting
  <1>5. OffsetInv
    <2>1. 0 % VectorInts = 0
      <3>1. VectorInts \in Nat \ {0} /\ 0 = VectorInts * 0 + 0 /\ 0 \in 0 .. VectorInts - 1
        OBVIOUS
      <3> QED
        BY <3>1, RemainderOf
    <2> QED
      BY <2>1 DEF OffsetInv
  <1> QED
    BY <1>1, <1>2, <1>3, <1>4, <1>5 DEF ChaseInv

LEMMA TypeStep == ASSUME ChaseInv, NextChase PROVE ChaseTypeInv'
  <1> USE DEF ChaseInv, ChaseTypeInv, ChaseState, LoadState, args, setup, chasing, loading
  <1>1. CASE CallerStep
    <2>1. CASE CheckSize
      BY <2>1 DEF CheckSize
    <2>2. CASE FindAuxNode
      BY <2>2 DEF FindAuxNode
    <2>3. CASE AllocIndices
      BY <2>3 DEF AllocIndices
    <2>4. CASE Shuffle
      BY <2>4 DEF Shuffle
    <2>5. CASE BuildList
      BY <2>5 DEF BuildList
    <2>6. ASSUME NEW t \in Load, SpawnLoad(t) PROVE ChaseTypeInv'
      BY <2>6 DEF SpawnLoad
    <2>7. CASE StartAll
      BY <2>7 DEF StartAll
    <2>8. CASE JoinThreads
      BY <2>8 DEF JoinThreads
    <2>9. CASE Total
      BY <2>9 DEF Total
    <2>10. CASE FreeIndices
      BY <2>10 DEF FreeIndices
    <2> QED
      BY <1>1, <2>1, <2>2, <2>3, <2>4, <2>5, <2>6, <2>7, <2>8, <2>9, <2>10 DEF CallerStep
  <1>2. CASE ChaseStep
    <2>1. CASE ChaseReady
      BY <2>1 DEF ChaseReady
    <2>2. CASE SeeStart
      BY <2>2, NodesAreFinite DEF SeeStart
    <2>3. CASE Follow
      <3>1. chase # "none" /\ next_node[current] \in Node
        <4>1. caller \notin Building /\ indices \in Orders
          BY <2>3 DEF BuiltInv, Follow
        <4>2. PICK k \in Int : current = Around(k)
          BY <2>3 DEF TrailInv, Follow
        <4>3. next_node[current] = Around(k + 1)
          BY <4>1, <4>2, SuccessorAround DEF BuiltInv
        <4> QED
          BY <2>3, <4>1, <4>3, AroundIsNode DEF Follow
      <3> QED
        BY <2>3, <3>1 DEF Follow
    <2>4. CASE StopLoads
      BY <2>4 DEF StopLoads
    <2> QED
      BY <1>2, <2>1, <2>2, <2>3, <2>4 DEF ChaseStep
  <1>3. ASSUME NEW t \in Load, LoadStep(t) PROVE ChaseTypeInv'
    <2>1. CASE LoadReady(t)
      BY <2>1 DEF LoadReady
    <2>2. CASE LoadSeesStart(t)
      BY <2>2 DEF LoadSeesStart
    <2>3. CASE LoadAccess(t)
      BY <2>3 DEF LoadAccess, Wrapped
    <2>4. CASE LoadStops(t)
      BY <2>4 DEF LoadStops
    <2> QED
      BY <1>3, <2>1, <2>2, <2>3, <2>4 DEF LoadStep
  <1> QED
    BY <1>1, <1>2, <1>3 DEF NextChase

LEMMA BuiltStep == ASSUME ChaseInv, NextChase PROVE BuiltInv'
  <1> USE DEF ChaseInv, args, setup, chasing, loading
  <1>1. CASE CallerStep
    <2>1. CASE CheckSize
      BY <2>1 DEF CheckSize, BuiltInv, Building
    <2>2. CASE FindAuxNode
      BY <2>2 DEF FindAuxNode, BuiltInv, Building
    <2>3. CASE AllocIndices
      BY <2>3 DEF AllocIndices, BuiltInv, Building
    <2>4. CASE Shuffle
      BY <2>4 DEF Shuffle, BuiltInv, Building
    <2>5. CASE BuildList
      <3>1. UNCHANGED indices /\ caller' = "spawn" /\ indices \in Orders
              /\ next_node' = [n \in Node |-> Successor(n)]
        BY <2>5 DEF BuildList, BuiltInv
      <3>2. [n \in Node |-> Successor(n)]' = [n \in Node |-> Successor(n)]
        BY <3>1 DEF Successor
      <3> QED
        BY <3>1, <3>2 DEF BuiltInv, Building
    <2>6. ASSUME NEW t \in Load, SpawnLoad(t) PROVE BuiltInv'
      <3>1. caller' \in {"spawn", "wait"} /\ caller = "spawn" /\ UNCHANGED <<indices, next_node>>
        BY <2>6 DEF SpawnLoad
      <3> QED
        BY <3>1 DEF BuiltInv, Building, Successor
    <2>7. CASE StartAll \/ JoinThreads \/ Total \/ FreeIndices
      <3>1. caller \notin Building /\ caller' \notin Building /\ UNCHANGED <<indices, next_node>>
              /\ caller' # "build"
        BY <2>7 DEF StartAll, JoinThreads, Total, FreeIndices, Building
      <3> QED
        BY <3>1 DEF BuiltInv, Successor
    <2> QED
      BY <1>1, <2>1, <2>2, <2>3, <2>4, <2>5, <2>6, <2>7 DEF CallerStep
  <1>2. CASE ChaseStep
    <2>1. chase # "none" /\ UNCHANGED <<caller, indices, next_node>>
      BY <1>2 DEF ChaseStep, ChaseReady, SeeStart, Follow, StopLoads
    <2> QED
      BY <2>1 DEF BuiltInv, Successor
  <1>3. ASSUME NEW t \in Load, LoadStep(t) PROVE BuiltInv'
    <2>1. load[t] # "none" /\ UNCHANGED <<caller, indices, next_node>>
      BY <1>3 DEF LoadStep, LoadReady, LoadSeesStart, LoadAccess, LoadStops
    <2> QED
      BY <2>1 DEF BuiltInv, Successor
  <1> QED
    BY <1>1, <1>2, <1>3 DEF NextChase

LEMMA TrailStep == ASSUME ChaseInv, NextChase PROVE TrailInv'
  <1> USE DEF ChaseInv
  <1>1. ASSUME UNCHANGED <<chase, current, trail>>, UNCHANGED indices \/ chase = "none"
        PROVE  TrailInv'
    BY <1>1 DEF TrailInv, Around
  <1>2. CASE CallerStep
    <2>1. CASE BuildList
      <3>1. chase = "none" /\ chase' = "begin" /\ UNCHANGED <<indices, current, trail>>
              /\ indices \in Orders
        BY <2>1 DEF BuildList, setup, BuiltInv, Building
      <3>2. PICK s \in 0 .. NumNodes - 1 : Around(s) = 0
        BY <3>1, ZeroIsSomewhere
      <3>3. current = 0 /\ trail = <<>>
        BY <3>1 DEF TrailInv
      <3>4. s + Len(<<>>) = s
        OBVIOUS
      <3> QED
        BY <3>1, <3>2, <3>3, <3>4 DEF TrailInv, Around
    <2>2. CASE Shuffle
      BY <1>1, <2>2 DEF Shuffle, chasing, BuiltInv, Building
    <2>3. CASE ~ BuildList /\ ~ Shuffle
      <3>1. UNCHANGED <<chase, current, trail, indices>>
        BY <1>2, <2>3 DEF CallerStep, CheckSize, FindAuxNode, AllocIndices, SpawnLoad, StartAll,
                          JoinThreads, Total, FreeIndices, setup, chasing
      <3> QED
        BY <1>1, <3>1
    <2> QED
      BY <2>1, <2>2, <2>3
  <1>3. CASE ChaseStep
    <2>1. CASE Follow
      <3>1. /\ indices \in Orders /\ next_node = [n \in Node |-> Successor(n)]
            /\ UNCHANGED <<chase, indices>> /\ chase = "chase"
            /\ current' = next_node[current] /\ trail' = Append(trail, current)
        BY <2>1 DEF Follow, BuiltInv, setup
      <3>2. PICK s \in 0 .. NumNodes - 1 :
              /\ \A k \in 1 .. Len(trail) : trail[k] = Around(s + k - 1)
              /\ current = Around(s + Len(trail))
              /\ Around(s) = 0
        BY <3>1 DEF TrailInv
      <3>3. /\ Len(trail) \in Nat /\ Len(trail') = Len(trail) + 1
            /\ \A k \in 1 .. Len(trail) : trail'[k] = trail[k]
            /\ trail'[Len(trail) + 1] = current
        BY <3>1 DEF ChaseTypeInv
      <3>4. s + Len(trail) \in Int /\ s + Len(trail') = (s + Len(trail)) + 1
              /\ s + Len(trail) = s + (Len(trail) + 1) - 1
        BY <3>3
      <3>5. current' = Around(s + Len(trail'))
        BY <3>1, <3>2, <3>4, SuccessorAround, AroundIsNode
      <3>6. ASSUME NEW k \in 1 .. Len(trail') PROVE trail'[k] = Around(s + k - 1)
        <4>1. CASE k = Len(trail) + 1
          BY <3>2, <3>3, <3>4, <4>1
        <4>2. CASE k \in 1 .. Len(trail)
          BY <3>2, <3>3, <4>2
        <4> QED
          BY <3>3, <4>1, <4>2
      <3> QED
        BY <3>1, <3>2, <3>5, <3>6 DEF TrailInv, Around
    <2>2. CASE SeeStart
      <3>1. current = 0 /\ trail = <<>> /\ chase # "none"
        BY <2>2 DEF SeeStart, TrailInv
      <3> QED
        BY <2>2, <3>1 DEF SeeStart, TrailInv, Around, setup
    <2>3. CASE ChaseReady
      BY <2>3 DEF ChaseReady, TrailInv, Around, setup
    <2>4. CASE StopLoads
      BY <2>4 DEF StopLoads, TrailInv, Around, setup
    <2> QED
      BY <1>3, <2>1, <2>2, <2>3, <2>4 DEF ChaseStep
  <1>4. ASSUME NEW t \in Load, LoadStep(t) PROVE TrailInv'
    <2>1. UNCHANGED <<chase, current, trail, indices>>
      BY <1>4 DEF LoadStep, LoadReady, LoadSeesStart, LoadAccess, LoadStops, setup, chasing
    <2> QED
      BY <1>1, <2>1
  <1> QED
    BY <1>2, <1>3, <1>4 DEF NextChase

LEMMA ReadyStep == ASSUME ChaseInv, NextChase PROVE ReadyInv'
  <1> USE DEF ChaseInv, ChaseTypeInv
  <1>1. ASSUME UNCHANGED <<chase, ready_count, start_flag, stop_flag, load>> PROVE ReadyInv'
    BY <1>1 DEF ReadyInv, ReadyLoads
  <1>2. CASE CallerStep
    <2>1. CASE BuildList
      <3>1. chase = "none" /\ chase' = "begin" /\ UNCHANGED <<ready_count, start_flag, stop_flag, load>>
        BY <2>1 DEF BuildList, loading, BuiltInv, Building
      <3>2. ReadyLoads' = ReadyLoads
        BY <3>1 DEF ReadyLoads
      <3> QED
        BY <3>1, <3>2 DEF ReadyInv, Waiting
    <2>2. ASSUME NEW t \in Load, SpawnLoad(t) PROVE ReadyInv'
      <3>1. load[t] = "none" /\ load' = [load EXCEPT ![t] = "begin"]
              /\ UNCHANGED <<chase, ready_count, start_flag, stop_flag>>
        BY <2>2 DEF SpawnLoad, chasing
      <3>2. ReadyLoads' = ReadyLoads
        BY <3>1 DEF ReadyLoads, Waiting
      <3> QED
        BY <3>1, <3>2 DEF ReadyInv
    <2>3. CASE StartAll
      <3>1. ready_count = NumLoad + 1 /\ start_flag' = TRUE
              /\ UNCHANGED <<chase, ready_count, stop_flag, load>>
        BY <2>3, AllAreReady DEF StartAll, chasing, loading
      <3>2. ReadyLoads' = ReadyLoads
        BY <3>1 DEF ReadyLoads
      <3> QED
        BY <3>1, <3>2 DEF ReadyInv
    <2>4. CASE CheckSize \/ FindAuxNode \/ AllocIndices \/ Shuffle \/ JoinThreads \/ Total
               \/ FreeIndices
      BY <1>1, <2>4 DEF CheckSize, FindAuxNode, AllocIndices, Shuffle, JoinThreads, Total,
                        FreeIndices, chasing, loading
    <2> QED
      BY <1>2, <2>1, <2>2, <2>3, <2>4 DEF CallerStep
  <1>3. CASE ChaseStep
    <2>1. UNCHANGED <<start_flag, load>> /\ ReadyLoads' = ReadyLoads
      BY <1>3 DEF ChaseStep, ChaseReady, SeeStart, Follow, StopLoads, loading, ReadyLoads
    <2> DEFINE c == Cardinality(ReadyLoads)
    <2>2. c' = c
      BY <2>1
    <2>3. c \in 0 .. NumLoad
      BY LoadsAreFinite
    <2> HIDE DEF c
    <2>4. CASE ChaseReady
      <3>1. chase = "begin" /\ chase' = "ready" /\ ready_count' = ready_count + 1
              /\ UNCHANGED stop_flag
        BY <2>4 DEF ChaseReady
      <3>2. ready_count = c /\ ready_count' = c + 1
        BY <2>3, <3>1 DEF ReadyInv, Waiting, c
      <3>3. ~ start_flag
        BY <2>3, <3>2 DEF ReadyInv
      <3>4. ready_count' = c' + (IF chase' \in Waiting THEN 0 ELSE 1)
        BY <2>2, <2>3, <3>1, <3>2 DEF Waiting
      <3> QED
        BY <2>1, <3>1, <3>3, <3>4 DEF ReadyInv, c
    <2>5. CASE ~ ChaseReady
      <3>1. UNCHANGED ready_count /\ chase \notin Waiting /\ chase' \notin Waiting
              /\ (stop_flag' => chase' = "done") /\ (chase' \in {"chase", "done"} => start_flag)
              /\ (stop_flag => stop_flag')
        BY <1>3, <2>5 DEF ChaseStep, SeeStart, Follow, StopLoads, ReadyInv, Waiting
      <3>2. ready_count' = c' + (IF chase' \in Waiting THEN 0 ELSE 1)
        BY <2>2, <3>1 DEF ReadyInv, c
      <3> QED
        BY <2>1, <3>1, <3>2 DEF ReadyInv, c
    <2> QED
      BY <2>4, <2>5
  <1>4. ASSUME NEW t \in Load, LoadStep(t) PROVE ReadyInv'
    <2>1. UNCHANGED <<chase, start_flag, stop_flag>>
      BY <1>4 DEF LoadStep, LoadReady, LoadSeesStart, LoadAccess, LoadStops, chasing
    <2> DEFINE c == Cardinality(ReadyLoads)
               own == IF chase \in Waiting THEN 0 ELSE 1
    <2>2. c \in 0 .. NumLoad /\ own \in 0 .. 1 /\ UNCHANGED own /\ ready_count = c + own
      BY <2>1, LoadsAreFinite DEF ReadyInv
    <2>3. CASE LoadReady(t)
      <3>1. load[t] = "begin" /\ load' = [load EXCEPT ![t] = "ready"] /\ ready_count' = ready_count + 1
        BY <2>3 DEF LoadReady
      <3>2. t \notin ReadyLoads /\ ReadyLoads' = ReadyLoads \cup {t}
        BY <3>1 DEF ReadyLoads, Waiting
      <3>3. c' = c + 1
        BY <3>2, LoadsAreFinite, FS_AddElement
      <3>4. ~ start_flag
        <4> SUFFICES ASSUME start_flag
                     PROVE  FALSE
          OBVIOUS
        <4>1. ready_count >= NumLoad + 1
          BY DEF ReadyInv
        <4> QED
          BY <3>1, <4>1, AllAreReady DEF Waiting
      <3> HIDE DEF c, own
      <3>5. ready_count' = c' + own'
        BY <2>2, <3>1, <3>3
      <3> QED
        BY <2>1, <3>1, <3>4, <3>5 DEF ReadyInv, c, own
    <2>4. CASE ~ LoadReady(t)
      <3>1. load[t] \notin Waiting /\ load' \in [Load -> LoadState] /\ load'[t] \notin Waiting
              /\ (\A u \in Load \ {t} : load'[u] = load[u]) /\ UNCHANGED ready_count
              /\ (load'[t] \in {"load", "done"} => start_flag) /\ (load'[t] = "done" => stop_flag)
        BY <1>4, <2>4 DEF LoadStep, LoadSeesStart, LoadAccess, LoadStops, Waiting, LoadState, ReadyInv
      <3>2. ReadyLoads' = ReadyLoads
        <4>1. \A u \in Load : load'[u] \notin Waiting <=> load[u] \notin Waiting
          BY <3>1
        <4> QED
          BY <4>1 DEF ReadyLoads
      <3>3. ready_count' = c' + own'
        BY <2>2, <3>1, <3>2
      <3>4. \A u \in Load : /\ load'[u] \in {"load", "done"} => start_flag'
                            /\ load'[u] = "done" => stop_flag'
        BY <2>1, <3>1 DEF ReadyInv
      <3> HIDE DEF c, own
      <3> QED
        BY <2>1, <3>1, <3>3, <3>4 DEF ReadyInv, c, own
    <2> QED
      BY <2>3, <2>4
  <1> QED
    BY <1>2, <1>3, <1>4 DEF NextChase

LEMMA TotalIntsType == ASSUME ChaseTypeInv PROVE total_ints \in Int
  BY DEF ChaseTypeInv, total_ints, load_size, ChaseInts

LEMMA OffsetStep == ASSUME ChaseInv, NextChase PROVE OffsetInv'
  <1> USE DEF ChaseInv
  <1>1. UNCHANGED size
    BY DEF NextChase, CallerStep, CheckSize, FindAuxNode, AllocIndices, Shuffle, BuildList, SpawnLoad,
           StartAll, JoinThreads, Total, FreeIndices, ChaseStep, ChaseReady, SeeStart, Follow,
           StopLoads, LoadStep, LoadReady, LoadSeesStart, LoadAccess, LoadStops, args
  <1>2. UNCHANGED total_ints
    BY <1>1 DEF total_ints, load_size
  <1>3. CASE UNCHANGED loadOffset
    BY <1>2, <1>3 DEF OffsetInv
  <1>4. ASSUME NEW t \in Load, LoadAccess(t) PROVE OffsetInv'
    <2> DEFINE next == Wrapped(loadOffset[t] + VectorInts)
    <2>1. loadOffset \in [Load -> Nat] /\ loadOffset' = [loadOffset EXCEPT ![t] = next]
      BY <1>4 DEF LoadAccess, ChaseTypeInv
    <2>2. IF total_ints > 0 THEN next < total_ints ELSE next = 0
      BY <2>1, TotalIntsType DEF Wrapped
    <2>3. next % VectorInts = 0
      <3>1. 0 % VectorInts = 0 /\ VectorInts % VectorInts = 0
        <4>1. VectorInts \in Nat \ {0} /\ VectorInts \in Int
              /\ VectorInts = VectorInts * 1 + 0 /\ 0 \in 0 .. VectorInts - 1
          OBVIOUS
        <4> QED
          BY <4>1, ZeroMultiple, RemainderOf
      <3>2. (loadOffset[t] + VectorInts) % VectorInts = 0
        <4>1. loadOffset[t] \in Int /\ VectorInts \in Int /\ loadOffset[t] % VectorInts = 0
          BY <2>1 DEF OffsetInv
        <4> QED
          BY <3>1, <4>1, SumOfMultiples
      <3> QED
        BY <3>1, <3>2 DEF Wrapped
    <2> HIDE DEF next
    <2> QED
      BY <1>2, <2>1, <2>2, <2>3 DEF OffsetInv
  <1>5. UNCHANGED loadOffset \/ \E t \in Load : LoadAccess(t)
    BY DEF NextChase, CallerStep, CheckSize, FindAuxNode, AllocIndices, Shuffle, BuildList, SpawnLoad,
           StartAll, JoinThreads, Total, FreeIndices, ChaseStep, ChaseReady, SeeStart, Follow,
           StopLoads, LoadStep, LoadReady, LoadSeesStart, LoadStops, loading
  <1> QED
    BY <1>3, <1>4, <1>5

LEMMA NextChaseInv == ChaseInv /\ [NextChase]_chaseVars => ChaseInv'
  <1>1. ASSUME ChaseInv, NextChase PROVE ChaseInv'
    BY <1>1, TypeStep, BuiltStep, TrailStep, ReadyStep, OffsetStep DEF ChaseInv
  <1>2. ASSUME ChaseInv, UNCHANGED chaseVars PROVE ChaseInv'
    <2>1. UNCHANGED <<size, caller, indices, next_node, start_flag, stop_flag, ready_count, chase,
                      current, trail, load, loadOffset>>
      BY <1>2 DEF chaseVars, args, setup, chasing, loading
    <2>2. UNCHANGED <<ReadyLoads, total_ints>>
      BY <2>1 DEF ReadyLoads, total_ints, load_size
    <2>3. ChaseTypeInv'
      BY <1>2, <2>1 DEF ChaseInv, ChaseTypeInv
    <2>4. BuiltInv'
      BY <1>2, <2>1 DEF ChaseInv, BuiltInv, Successor
    <2>5. TrailInv'
      BY <1>2, <2>1 DEF ChaseInv, TrailInv, Around
    <2>6. ReadyInv'
      BY <1>2, <2>1, <2>2 DEF ChaseInv, ReadyInv
    <2>7. OffsetInv'
      BY <1>2, <2>1, <2>2 DEF ChaseInv, OffsetInv
    <2> QED
      BY <2>3, <2>4, <2>5, <2>6, <2>7 DEF ChaseInv
  <1> QED
    BY <1>1, <1>2

\* The invariant holds in every state.
LEMMA AlwaysChaseInv == SpecChase => []ChaseInv
  BY InitChaseInv, NextChaseInv, PTL DEF SpecChase

-----------------------------------------------------------------------------
\* Build (lines 1383-1390) makes one circle of any shuffle: two visits of the chase to the
\* same node are a whole number of rounds apart.
THEOREM ChaseGoesRound == SpecChase => []ChaseVisitsAll
  <1>1. ChaseInv => ChaseVisitsAll
    <2> SUFFICES ASSUME ChaseInv, NEW i \in DOMAIN trail, NEW j \in DOMAIN trail,
                        trail[i] = trail[j]
                 PROVE  (j - i) % NumNodes = 0
      BY DEF ChaseVisitsAll
    <2>1. trail \in Seq(Node) /\ i \in 1 .. Len(trail) /\ j \in 1 .. Len(trail)
      BY DEF ChaseInv, ChaseTypeInv
    <2>2. chase # "none" /\ indices \in Orders
      <3>1. chase # "none"
        BY <2>1 DEF ChaseInv, TrailInv
      <3> QED
        BY <3>1 DEF ChaseInv, BuiltInv
    <2>3. PICK s \in 0 .. NumNodes - 1 : \A k \in 1 .. Len(trail) : trail[k] = Around(s + k - 1)
      BY <2>2 DEF ChaseInv, TrailInv
    <2> DEFINE u == s + i - 1
               v == s + j - 1
    <2>4. u \in Int /\ v \in Int /\ Around(u) = Around(v) /\ v - u = j - i
      <3>1. Around(s + i - 1) = trail[i] /\ Around(s + j - 1) = trail[j]
        BY <2>1, <2>3
      <3>2. s \in Int /\ i \in Int /\ j \in Int
        BY <2>1
      <3> QED
        BY <3>1, <3>2
    <2> HIDE DEF u, v
    <2>5. u % NumNodes = v % NumNodes
      <3>1. (u % NumNodes) + 1 = (v % NumNodes) + 1
        BY <2>2, <2>4, PlaceInOrder DEF Around, Orders
      <3> QED
        BY <2>4, <3>1, PlaceInOrder
    <2>6. (v - u) % NumNodes = 0
      BY <2>4, <2>5, SamePlace, NodesAreFinite
    <2> QED
      BY <2>4, <2>6
  <1> QED
    BY <1>1, AlwaysChaseInv, PTL

\* The barrier of the chase (lines 1414-1449, 1549-1566): while a latency is taken every
\* load thread has set up and none has stopped.
THEOREM ChaseUnderLoad == SpecChase => []PressureThroughout
  <1>1. ChaseInv => PressureThroughout
    <2> SUFFICES ASSUME ChaseInv, chase = "chase"
                 PROVE  ready_count = NumLoad + 1 /\ \A t \in Load : load[t] \in {"ready", "load"}
      BY DEF PressureThroughout
    <2>1. start_flag /\ ~ stop_flag /\ ready_count = NumLoad + 1
      BY DEF ChaseInv, ReadyInv
    <2>2. \A t \in Load : load[t] \notin Waiting
      BY <2>1, AllAreReady DEF ChaseInv
    <2>3. \A t \in Load : load[t] \in LoadState /\ load[t] # "done"
      BY <2>1 DEF ChaseInv, ChaseTypeInv, ReadyInv
    <2> QED
      BY <2>1, <2>2, <2>3 DEF Waiting, LoadState
  <1> QED
    BY <1>1, AlwaysChaseInv, PTL

\* The partitions of the load threads (lines 1474-1477, 1495-1534), for every memory size:
\* no access goes further than the partition rounded up to whole accesses, whether the
\* access divides it, does not, or it is empty.
THEOREM LoadsKeepToPartition == SpecChase => []LoadStaysInPartition
  <1>1. ChaseInv => LoadStaysInPartition
    <2> SUFFICES ASSUME ChaseInv, NEW t \in Load
                 PROVE  AccessOf(t) \subseteq Reach(t)
      BY DEF LoadStaysInPartition
    <2> DEFINE from == ChaseInts + t * total_ints
    <2>1. from \in Int /\ total_ints \in Int /\ loadOffset[t] \in Nat /\ VectorInts \in Nat \ {0}
      <3>1. total_ints \in Int /\ loadOffset[t] \in Nat /\ t \in Int /\ VectorInts \in Nat \ {0}
        BY TotalIntsType DEF ChaseInv, ChaseTypeInv, Load
      <3>2. ChaseInts \in Int
        BY DEF ChaseInts
      <3>3. t * total_ints \in Int
        BY <3>1
      <3> QED
        BY <3>1, <3>2, <3>3
    <2>2. AccessOf(t) = from + loadOffset[t] .. from + loadOffset[t] + VectorInts - 1
      BY DEF AccessOf
    <2> DEFINE q == (total_ints + VectorInts - 1) \div VectorInts
               accesses == IF total_ints > 0 THEN q ELSE 1
               end == accesses * VectorInts
    <2>3. Reach(t) = from .. from + end - 1
      BY DEF Reach
    <2>4. loadOffset[t] + VectorInts <= end /\ end \in Int
      <3>1. CASE total_ints > 0
        <4>1. total_ints \in Nat \ {0} /\ loadOffset[t] < total_ints
              /\ loadOffset[t] % VectorInts = 0
          BY <2>1, <3>1 DEF ChaseInv, OffsetInv
        <4>2. q \in Nat \ {0} /\ total_ints <= q * VectorInts
          BY <2>1, <4>1, RoundedUp
        <4>3. end = q * VectorInts
          BY <3>1
        <4> HIDE DEF q, end
        <4>4. end \in Nat /\ end % VectorInts = 0
          <5>1. end \in Nat /\ end \in Int /\ q \in Int /\ end = VectorInts * q + 0
                /\ 0 \in 0 .. VectorInts - 1
            BY <2>1, <4>2, <4>3
          <5> QED
            BY <2>1, <5>1, RemainderOf
        <4>5. loadOffset[t] < end
          BY <2>1, <4>1, <4>2, <4>3, <4>4
        <4> QED
          BY <2>1, <4>1, <4>4, <4>5, NextMultiple
      <3>2. CASE ~ (total_ints > 0)
        <4>1. loadOffset[t] = 0 /\ accesses = 1
          BY <3>2 DEF ChaseInv, OffsetInv
        <4> QED
          BY <2>1, <4>1
      <3> QED
        BY <3>1, <3>2
    <2> HIDE DEF from, end
    <2> QED
      BY <2>1, <2>2, <2>3, <2>4
  <1> QED
    BY <1>1, AlwaysChaseInv, PTL

=============================================================================
