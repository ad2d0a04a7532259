--------------------------- MODULE AccessPatterns ---------------------------
(***************************************************************************)
(* What one worker of a bandwidth test does between the start and its last *)
(* report (src/benchmark.cpp): which bytes of its partition it touches, in *)
(* which accesses, what it reports to the progress monitor, and what it    *)
(* puts into its trace and latency buffers.                                *)
(*                                                                         *)
(* Bytes are offsets in the partition, which starts aligned.  The workers  *)
(* share nothing but the progress counter, so one is enough.               *)
(*                                                                         *)
(* Blocks and strides are the positive numbers an int holds, and no sum of *)
(* them wraps.  main refuses 0 only (main.cpp 224-228, 237-241): a         *)
(* negative number, which becomes a size_t near 2^64 and whose sums in the *)
(* stride tests wrap, is not considered.                                   *)
(***************************************************************************)
EXTENDS Integers, FiniteSets

CONSTANTS
  IntSize,          \* sizeof(int32_t)
  VecInts,          \* ints of an AVX2 register
  UpdateInterval,   \* accesses (blocks, for random and zipfian) between reports
  SampleInterval,   \* LATENCY_SAMPLE_INTERVAL
  Sizes,            \* per_thread_size: whole MiBs, so whole registers, and more
                    \* than two for each access a sample is taken of
  Blocks, Strides   \* BLOCK_SIZE, STRIDE_SIZE: any positive number of bytes

ASSUME PatternAssumption ==
  /\ {IntSize, VecInts, UpdateInterval, SampleInterval} \subseteq Nat \ {0}
  /\ Sizes \subseteq {s \in Nat \ {0} : s % (IntSize * VecInts) = 0
                                      /\ s >= 2 * (IntSize * VecInts) * SampleInterval}
  /\ Blocks \subseteq Nat \ {0}
  /\ Strides \subseteq Nat \ {0}

Vec == IntSize * VecInts            \* an access: one register

SeqTests == {"seq_read", "seq_write"}
RandomTests == {"random_read", "random_write"}
StrideTests == {"stride_read", "stride_write"}
SampledTests == {"seq_read", "random_read", "zipfian_read"}
Tests == SeqTests \cup RandomTests \cup StrideTests \cup {"zipfian_read"}

VARIABLES
  test, per, block, stride,   \* the arguments
  measuring,                  \* ENABLE_LATENCY_MEASURE
  running,                    \* in the loop
  done,                       \* accesses made; blocks, for random and zipfian
  left,                       \* random: indices still to come
  phase, offset, b,           \* stride
  local, reported,            \* local_bytes, and what add_bytes got
  traced, samples,            \* entries of trace_buffer and latency_buffer
  once, twice, vectors,       \* history: bytes touched, touched again; accesses
  aligned                     \* history: every access was at a multiple of Vec

arguments == <<test, per, block, stride, measuring>>
cursor == <<phase, offset, b>>
buffers == <<traced, samples>>
history == <<once, twice, vectors, aligned>>
vars == <<arguments, running, done, left, cursor, local, reported, buffers, history>>

NumBlocks == per \div block

\* The capacity given to reserveLatencyBuffer.
ExpectedSamples ==
  IF test = "seq_read" THEN ((per \div Vec) \div SampleInterval) * 2
  ELSE ((NumBlocks * (block \div Vec)) \div SampleInterval) * 2

Init ==
  /\ test \in Tests
  /\ per \in Sizes
  /\ block \in Blocks
  /\ stride \in Strides
  /\ measuring \in BOOLEAN
  /\ running = TRUE
  /\ done = 0
  /\ left = (IF test \in RandomTests THEN 0 .. NumBlocks - 1 ELSE {})
  /\ phase = 0 /\ offset = 0 /\ b = 0
  /\ local = 0 /\ reported = 0
  /\ traced = 0 /\ samples = 0
  /\ once = {} /\ twice = {} /\ vectors = 0
  /\ aligned = TRUE

-----------------------------------------------------------------------------
(* What the loops share *)

\* n accesses in a row.
Touch(first, n) ==
  LET bytes == first .. first + n * Vec - 1
  IN  /\ once' = once \cup bytes
      /\ twice' = twice \cup (once \cap bytes)
      /\ vectors' = vectors + n
      /\ aligned' = (aligned /\ (n > 0 => first % Vec = 0))

\* Mutant: the round that reports is not in the report.
AccountForgets(bytes) ==
  /\ done' = done + 1
  /\ IF (done + 1) % UpdateInterval = 0
     THEN reported' = reported + local /\ local' = 0
     ELSE local' = local + bytes /\ UNCHANGED reported

\* One more round of the loop, that made up `bytes`; a report at the interval.
Account(bytes) ==
  /\ done' = done + 1
  /\ IF (done + 1) % UpdateInterval = 0
     THEN reported' = reported + local + bytes /\ local' = 0
     ELSE local' = local + bytes /\ UNCHANGED reported

\* The report after the loop.
Finish ==
  /\ running' = FALSE
  /\ reported' = reported + local
  /\ local' = 0

-----------------------------------------------------------------------------
(* Sequential *)

\* Mutant: a measured access is not traced.
SeqVectorTracesRest ==
  /\ running
  /\ test \in SeqTests
  /\ (done + 1) * Vec <= per
  /\ Touch(done * Vec, 1)
  /\ IF measuring /\ test = "seq_read" /\ done % 2 = 0
         /\ (done \div 2) % SampleInterval = 0
     THEN samples' = samples + 1 /\ UNCHANGED traced
     ELSE traced' = traced + 1 /\ UNCHANGED samples
  /\ Account(Vec)
  /\ UNCHANGED <<arguments, running, left, cursor>>

\* Two accesses to a cache line: the first of every SampleInterval-th is measured.
SeqVector ==
  /\ running
  /\ test \in SeqTests
  /\ (done + 1) * Vec <= per
  /\ Touch(done * Vec, 1)
  /\ samples' = samples +
       (IF measuring /\ test = "seq_read" /\ done % 2 = 0
           /\ (done \div 2) % SampleInterval = 0 THEN 1 ELSE 0)
  /\ traced' = traced + 1
  /\ Account(Vec)
  /\ UNCHANGED <<arguments, running, left, cursor>>

\* The ints after the last whole register, of which a partition of whole MiBs has
\* none, and the last report.
SeqRest ==
  /\ running
  /\ test \in SeqTests
  /\ (done + 1) * Vec > per
  /\ LET rest == (per \div IntSize) - done * VecInts
         bytes == done * Vec .. per - 1
     IN  /\ once' = once \cup bytes
         /\ twice' = twice \cup (once \cap bytes)
         /\ traced' = traced + rest
         /\ reported' = reported + local + rest * IntSize
  /\ local' = 0
  /\ running' = FALSE
  /\ UNCHANGED <<arguments, done, left, cursor, samples, vectors, aligned>>

-----------------------------------------------------------------------------
(* Random and zipfian *)

\* The whole registers of a block, from the int its first byte is in.  The access
\* whose latency is measured is not traced.
Block(index) ==
  LET n == (block \div IntSize) \div VecInts
      sampled == measuring /\ test \in SampledTests /\ done % SampleInterval = 0 /\ n > 0
      extra == IF sampled THEN 1 ELSE 0
  IN  /\ Touch(((index * block) \div IntSize) * IntSize, n)
      /\ samples' = samples + extra
      /\ traced' = traced + n - extra
      /\ Account(block)

\* Mutant: an index may come back.
RandomBlockRepeats ==
  /\ running
  /\ test \in RandomTests
  /\ left # {}
  /\ \E index \in 0 .. NumBlocks - 1 : Block(index) /\ left' = left \ {index}
  /\ UNCHANGED <<arguments, running, cursor>>

\* The shuffled indices: each once, in any order.
RandomBlock ==
  /\ running
  /\ test \in RandomTests
  /\ \E index \in left : Block(index) /\ left' = left \ {index}
  /\ UNCHANGED <<arguments, running, cursor>>

RandomDone ==
  /\ running
  /\ test \in RandomTests
  /\ left = {}
  /\ Finish
  /\ UNCHANGED <<arguments, done, left, cursor, buffers, history>>

\* num_blocks draws, any index each time.
ZipfianBlock ==
  /\ running
  /\ test = "zipfian_read"
  /\ done < NumBlocks
  /\ \E index \in 0 .. NumBlocks - 1 : Block(index)
  /\ UNCHANGED <<arguments, running, left, cursor>>

ZipfianDone ==
  /\ running
  /\ test = "zipfian_read"
  /\ done >= NumBlocks
  /\ Finish
  /\ UNCHANGED <<arguments, done, left, cursor, buffers, history>>

-----------------------------------------------------------------------------
(* Stride: phase by phase, block by block, register by register *)

InPhase == running /\ test \in StrideTests /\ phase < stride + block

\* Mutant: the check against the end of the partition leaves out the register.
StrideVectorPastEnd ==
  /\ InPhase
  /\ offset < per
  /\ b < block
  /\ IF offset + b < per
     THEN Touch(offset + b, 1) /\ traced' = traced + 1 /\ Account(Vec)
     ELSE UNCHANGED <<history, traced, done, local, reported>>
  /\ b' = b + Vec
  /\ UNCHANGED <<arguments, running, left, phase, offset, samples>>

\* Only an access that fits the partition is made.
StrideVector ==
  /\ InPhase
  /\ offset < per
  /\ b < block
  /\ IF offset + b + Vec <= per
     THEN Touch(offset + b, 1) /\ traced' = traced + 1 /\ Account(Vec)
     ELSE UNCHANGED <<history, traced, done, local, reported>>
  /\ b' = b + Vec
  /\ UNCHANGED <<arguments, running, left, phase, offset, samples>>

NextOffset ==
  /\ InPhase
  /\ offset < per
  /\ b >= block
  /\ offset' = offset + stride + block
  /\ b' = 0
  /\ UNCHANGED <<arguments, running, done, left, phase, local, reported, buffers, history>>

NextPhase ==
  /\ InPhase
  /\ offset >= per
  /\ phase' = phase + block
  /\ offset' = phase + block
  /\ b' = 0
  /\ UNCHANGED <<arguments, running, done, left, local, reported, buffers, history>>

StrideDone ==
  /\ running
  /\ test \in StrideTests
  /\ phase >= stride + block
  /\ Finish
  /\ UNCHANGED <<arguments, done, left, cursor, buffers, history>>

-----------------------------------------------------------------------------

Next ==
  \/ SeqVector \/ SeqRest
  \/ RandomBlock \/ RandomDone \/ ZipfianBlock \/ ZipfianDone
  \/ StrideVector \/ NextOffset \/ NextPhase \/ StrideDone

Spec == Init /\ [][Next]_vars

-----------------------------------------------------------------------------
(* Properties *)

\* Type invariant.
TypeOK ==
  /\ test \in Tests /\ per \in Sizes /\ block \in Blocks /\ stride \in Strides
  /\ measuring \in BOOLEAN /\ running \in BOOLEAN
  /\ {done, phase, offset, b, local, reported, traced, samples, vectors} \subseteq Nat
  /\ left \subseteq 0 .. NumBlocks - 1
  /\ once \subseteq Nat /\ twice \subseteq once
  /\ aligned \in BOOLEAN

\* No access leaves the worker's partition, with any block and stride: not the
\* registers after the last whole one of a block, not those of a cut block.
StaysInPartition == once \subseteq 0 .. per - 1

WholeRegisters == block % Vec = 0

\* Blocks of whole registers, phases that tile a period.
Tiled == WholeRegisters /\ (test \in StrideTests => stride % block = 0)

\* No byte is touched twice by the sequential and random tests, whatever the block,
\* nor by the stride tests when the phases tile a period.
NothingTwice ==
  test \in SeqTests \cup RandomTests \/ (test \in StrideTests /\ Tiled) => twice = {}

\* When the worker is through, it has touched all of its partition, or all of the
\* whole blocks in it; with strides even when nothing divides anything, up to a
\* register's length before the end.
NothingSkipped ==
  ~running =>
    /\ test \in SeqTests => 0 .. per - 1 \subseteq once
    /\ test \in RandomTests /\ WholeRegisters => 0 .. NumBlocks * block - 1 \subseteq once
    /\ test \in StrideTests => 0 .. per - Vec \subseteq once

\* With blocks of whole registers the bytes reported are those of the accesses
\* made, and all are reported when the worker is through.
ReportsAccesses ==
  /\ WholeRegisters \/ test \in SeqTests \cup StrideTests =>
       reported + local = vectors * Vec
  /\ ~running => local = 0

\* Every access is traced, unless latencies are measured as well.
TraceIsComplete == ~measuring \/ test \in SeqTests \cup StrideTests => traced = vectors

\* The latency buffer is never reallocated in the timed loop, as its reservation
\* says, with any block: not for the last block, whose sample has no interval left.
SamplesFit == samples <= ExpectedSamples

\* Nontemporal accesses, which fault if not aligned, are aligned.
AlignedIfTiled == Tiled => aligned

\* Blocks of whole registers that tile their range: every byte of the partition (random:
\* of its whole blocks) is accessed exactly once, by aligned registers; and where it is
\* said above, with any block and stride.
TilesThePartition == NothingTwice /\ NothingSkipped /\ AlignedIfTiled

\* What --trace and --latency record: each access, and no sample more than reserved.
RecordsAreComplete == TraceIsComplete /\ SamplesFit

=============================================================================
