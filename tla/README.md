# A verification project for mio

mio measures the bandwidth and latency of memory (NUMA nodes, CXL/DevDAX
devices).  Its repository holds two families of programs with logic of their
own:

* **microbench** (`src/`, `include/`): `main.cpp` (and `main_patched.cpp`, the
  same with the pages touched first) parses options, sets the hardware
  prefetcher, allocates memory and runs the requested tests one after another;
  each `measure*` function of `benchmark.cpp` starts worker threads that gather
  at a barrier, access their partition and hand in what they recorded, beside a
  monitor thread that prints the progress.
* **the chunk-stripe tests** (`custom-test/`): `test2.c` writes a store block by
  block and lets growing numbers of threads read it; the `test2-rdma*.c` put a
  simulated RNIC before each read, reached through a lock-free queue;
  `test3-mt.c` writes and reads in turns; `test4*.c` does that with an RNIC
  behind rings.

This directory holds TLA+ models of both, the TLC configurations that check
them, and TLAPS proofs.

## Inventory

| Part | State | Operations | What makes it hard, and correct |
|---|---|---|---|
| MPSC queue (`test2-rdma-fin.c` 108-120, 214-278) | cells with a `next` link, `head`, `tail`, the embedded `stub` | `mpsc_init`, `mpsc_enqueue`, `mpsc_dequeue` | an enqueue is three separate stores, so the list is broken between the exchange and the link; the last node can only be popped after the stub is enqueued again. Correct: a FIFO that loses, duplicates and strands no node, and lets go of a node once it is returned |
| Start gate (148-154, 500-545) | `total`, `ready`, `open` under a mutex | `gate_wait`, `gate_open`, `gate_open_after_created` | one condition variable for two kinds of waiters, spurious wakeups, `total` lowered on the failure path. Correct: nobody passes early, nobody waits for ever |
| Sweep (632-938) | thread handles, `created`, `rnic_started`, request and response slots, counters | `run_one_sweep`, `rdma_reader_thread`, `rnic_thread` | three kinds of threads, hand-over of requests by release and acquire, failure at each allocation, a cleanup shared by the good and the bad path. Correct: one owner per request, reads start together, the report is complete, nothing is freed or joined too early or twice |
| RNIC latency model (729-765, and `test2-rdma{,2,3}.c`, `test4.c`) | `stime`, `ntime`, `lag`, `expire_time` | the branch of `rnic_thread`, and who waits | readers overtake each other between stamping and sending. Correct: nothing expires before it arrives; transfers do not overlap where the comments say so |
| Chunk-stripe layout (`test2.c` 356-436) | the store | `block_ptr`, `populate_chunk_stripe`, `fill_block` | a running counter on one side, division on the other, a last group partly filled. Correct: both mean the same place |
| Sweep program (`test2.c`) | the configuration, sizes, files, the sweep | parsing, checked products, doubling, the exits | 32- and 64-bit edges. Correct: the size is the real one, the doubling ends, every power of two is swept |
| Multi-turn store (`test3-mt.c`) | the store, the turn, threads | `write_turn`, `read_cumulative` | phases in one store, block numbers across turns. Correct: a turn reads what all turns wrote, phases do not overlap |
| Dataplane (`test4.c`, `test4-nowait.c`) | rings, RNIC thread, `dataplane_started` | `read_rdma`, `rdma_reader_thread`, `rnic_thread` | polling, a flag to stop it, joins before frees. Correct: a request is in one place, turns end |
| Benchmark protocol (`benchmark.cpp` 49-119 and each `measure*`) | `ready_count`, `start_flag`, `bytes_processed_`, `stop_flag_`, the monitor thread | spawn, barrier, access loop, remainder, collect, join, stop | main, workers and monitor interleave. Correct: no access before all are prepared, every access reported once, the last line after the last report |
| Trace and latency buffers (`tracing.cpp`, `latency_measure.cpp`) | thread-local buffers, global vectors | clear, reserve, collect, save | used by main without the lock, cleared by some tests only |
| Access patterns (`benchmark.cpp` 139-1291) | indices, offsets | sequential, random, zipfian and stride loops | boundaries at block, stride and partition sizes |
| Pointer chase (1299-1593) | a cyclic list, `stop_flag`, load offsets | chase thread, load threads | a cycle from a shuffle, stop after a fixed number of steps, wrap-around of the load |
| Prefetcher and signals (`hw_prefetcher.cpp`) | MSR 0x1A4 of every CPU, the saved value | save, set, restore, `signal_handler` | partial failure of `wrmsr -a`, signals at any step |
| main (`main.cpp`, `main_patched.cpp`) | the options, the memory and its kind, its pages, the files | validation, allocation, pre-touch, tests, rows, exit paths | which exit path releases and restores what; sizes in int and size_t; two runs and one file |
| NUMA affinity (`numa_affinity.cpp`) | the CPU list | parsing, validation, CPUs of nodes | lists that name nodes twice or in any order |
| Output (`output.cpp`), scripts, plotting | files | environment.json, rows | which run's file gets what |

The parts interact through threads started and joined (`pthread_create`,
`std::thread`), atomics and one mutex with a condition variable; in the
emulation the request goes from reader to RNIC through the queue (or a ring)
and back through `response_ready[req]` (or a ring).  Nothing that is persisted
is read again but the first line of a result file, and nothing is sent over a
network, so there are no crash-recovery or message-loss behaviours to model.

## Modules

| Module | Models | State and actions |
|---|---|---|
| `MpscFifo` | what the queue promises | `enq`, `got`: the nodes in the order they were put in and taken out; `Enqueue(n)`, `Dequeue` |
| `MpscQueue` | the queue, one action per access to shared memory | `next`, `head`, `tail` are the C fields; `enqpc`, `prev`, `deqpc` are the position and local of each call in progress. `StoreNull`, `ExchangeTail`, `LinkPrev` are the three stores of `mpsc_enqueue`, run by readers on their node and by the consumer on the stub; `PollEmpty`, `SkipStub`, `AtNode`, `CheckTail`, `PopLast` are the ways through `mpsc_dequeue` |
| `StartGate` | the gate | one action per stretch with the mutex held: `Arrive`, `ReaderWakes` (`gate_wait`), `OpenGate`, `OpenAfterCreated`, `MainWakes`; `SpawnReader` is the creation loop, which can stop short |
| `RdmaSweep` | one sweep of `test2-rdma-fin.c` | main's position and locals, the readers', the RNIC thread's, and the state of the gate (`StartGate`, whose actions it uses) and of the queue (`MpscFifo`, by `INSTANCE`) |
| `EarlySweep` | one sweep of `test2-rdma.c` | the same threads with the queue that does not put its stub back, access by access, and an RNIC thread that is created last and never exits |
| `SerialLink` | what the comments promise of the link | `transfers`: from when to when each occupies it; `Carry`, `Pass` |
| `NicLink` | arrival, service and expiry of requests in time, for four programs | a clock; `ntime`, `n_stime`, `lag` are the RNIC's, `stime`, `expire_time` the requests'. `Fin`, `Rdma2`, `Rdma3`, `RdmaRead` are the laws, `Dispatch` and `Proceed` the two ends of the waits |
| `ChunkStripe` | the layout, as operators | `block_ptr`, `Populated` |
| `SweepProgram` | `test2.c` as a whole | command line to configuration (`ParseArgs`), the products (`SizeStore`), the store, the loops of main, readers and gate, all exits |
| `MultiTurn` | `test3-mt.c` | the turns of main, `WriteChunk`, the readers, the gate, the scratch buffers and the store |
| `Dataplane` | `test4.c` and `test4-nowait.c` | setup, the two rings of each reader, the polling RNIC thread, gate, joins, frees, rows |
| `BenchRun` | the tests of a microbench run | main, `N` workers, the monitor, the barrier, the progress counter, the global buffers and what has been saved |
| `AccessPatterns` | the timed loop of one worker, for each of the seven bandwidth tests | `done`, `left` and `phase`, `offset`, `b` are where the loop is; `local` and `reported` the bytes counted; `traced` and `samples` the sizes of the buffers; `once`, `twice`, `vectors`, `aligned` record the accesses. `SeqVector`, `Block(index)` and `StrideVector` are rounds of the loops |
| `PointerChase` | `measurePointerChaseWithLoad` | main, the chase thread with its trail, the load threads with their offsets; `BuildList` links the shuffled nodes |
| `BenchLifecycle` | main around the tests | the register of each CPU, the saved value, the `wrmsr` children, memory, device and file, where main and the signal handler are |
| `FirstTouch` | `firstTouchData`, as operators | the bytes each thread writes |
| `Microbench` | what runs of `main_patched.cpp` turn their options into | one program counter per run; the configuration, the CPUs, the memory and its pages (`FirstTouch`), and the files that runs started in one second share |
| `RequestPathProofs`, `RdmaSweepProofs`, `NicLinkProofs`, `MultiTurnProofs`, `SweepProgramProofs`, `BenchmarkProofs`, `MainProofs` | the theorems: see Proofs | |
| `DataLemmas` | what those proofs need to know of numbers, finite sets, sequences and folds | |
| `MC*` | the instances TLC checks | |

`RdmaSweep` composes the gate and the queue; `MpscQueue` justifies the use of
`MpscFifo` there (`ImplementsFifo`).  `NicLink` fills in the one thing
`RdmaSweep` leaves out, the value of `expire_time`, and implements `SerialLink`
for one of its laws.  `SweepProgram` uses `ChunkStripe`, `Microbench` uses
`FirstTouch`; `Microbench` says which tests a run makes and of what size,
`BenchRun` how they are made and `AccessPatterns` and `PointerChase` what they
touch.

### Modelling decisions

* Atomics interleave.  The queue's accesses are acquire/release (or relaxed
  stores of a thread's own data that a later release publishes: the NULL link
  before the exchange), and what the properties speak of is passed along those
  edges, so an interleaving of single accesses covers the executions.  The
  relaxed accesses to `head` are the consumer's alone.
* In `mpsc_dequeue` the local `head` equals `q->head` until the pop, and both
  are the variable `head`.  A load whose outcome no other thread can change
  (next of the stub in `SkipStub` after it was seen non-NULL) has no step.
* `enq`, `got`, `stubAt`, `joined`, `transfers`, `trail`, `served`, `left`, `disturbed`, the
  `failed` of `Dataplane` and the rows are history variables: no guard reads them to decide what the program does.
* A sweep's `failed` path is taken at any reader, for the scratch buffer, the
  request, the node or the thread alike: `CreateFails` (what was allocated for
  that reader is freed with the rest).
* In `RdmaSweep`, `StampRequest` says that `expire_time` is written before the
  response, not its value, which is `NicLink`'s.  `NicLink` measures in natural
  numbers where the code has doubles: the laws add and compare, and multiply by
  a constant.  A sweep starts after the zero of the clock, and `lag`, a global of
  the program, may hold what an earlier sweep left.
* The gate of `SweepProgram`, `MultiTurn`, `Dataplane` and `EarlySweep` is a
  counter and a flag; that the condition variable under it loses no wakeup is
  checked in `RdmaSweep` and proved of `StartGate`.
* `SweepProgram` shrinks the words: the largest 32-bit number is `MaxU32`, the
  largest 64-bit number `MaxU64`, and the multipliers of the suffixes and the
  smallest block follow; what wraps in the code wraps there, the round included.
  A command line holds the values given for an option in their order: a bad one
  is refused whatever follows, and of good ones the last counts (`Taken`).
* `MultiTurn`, `Dataplane` and `RdmaSweep` count turns and rounds below the
  largest 32-bit number.  At that number their programs have the loop of
  `test2.c` (`test3-mt.c` 609, `test4.c` 1105, `test2-rdma-fin.c` 1019), which
  `SweepProgram` models.
* Memory that `test3-mt.c` takes from `mmap` and gives to `free()` makes the
  behaviour undefined: the program dies or goes on (`FreeMapped`).  The same
  holds of the join in `test4-nowait.c`, and of the memory that main of
  microbench gives to `free()` when there is no result file (`DropMemory`): main is
  `"killed"`, or goes on with the memory as it was.
* `read_rdma` of `test4.c` allocates a turn's state step by step.  Without
  `threads` or `args` it returns with `dctx` leaked; without `dctx` or its `nic` it jumps
  to `join_out`, where `ret`, `created` and the gate have no values yet, so
  `WriteTurn` lets it return either way or die; a null `rdma_req` or
  `reader_args` is used (`PreparationDies`).
* `test3-mt.c` and `test4.c` do not compile as committed (the first lacks the
  header of `mmap`; in the second the name `rc` is used at line 855 before it is
  declared).  They are modelled as they read, without the tests of what is not
  there.
* In `BenchRun` an access is a unit: the pattern, the size and the latency
  sampling inside it are abstracted, and a buffer is identified by its test, its
  worker and the number of accesses made when it was handed in.  `U` stands
  for `UPDATE_INTERVAL` (1000) and `Order` for the tests that the mode selects,
  in the order of `main.cpp`.
* `AccessPatterns` has one worker: the workers of a test share the progress
  counter and nothing else, and `BenchRun` has that.  It counts in bytes of the
  partition, with the code's sizes of int and register.  A block of the random
  tests is one step, since no report or other thread comes between its accesses.
  The shuffle is any order; a zipfian draw is any index.
  Sizes are positive: see Findings for the negative ones that are accepted.
* `PointerChase` counts in ints, with nodes of two and accesses of two;
  `MaxAccesses` bounds what a load thread does before it is told to stop.
* In `BenchLifecycle` `wrmsr -a` is a process that writes one CPU after the
  other and can fail before any of them.  While `system()` waits, SIGINT kills
  the child and not its parent; SIGTERM, which `system()` leaves alone, or a
  fault in a test runs the handler, which never returns to main.  `rdmsr` reads
  CPU 0, so what is restored is CPU 0's value.  The tests are one step.
* In `Microbench` an option is what its conversion makes of it; `wellformed` is
  the verdict on those whose value is of no further use.  An int has values up
  to `IntMax`, and a product past it wraps (`Wrapped`) or is computed as if it
  did not (signed overflow is undefined).  A name of a file holds the second in
  which it was made; two runs can share it.
* Modules that a proof module extends together have names of their own for what
  every module has: `InitRun`, `NextMain`, `SpecDataplane`, `chaseVars`.

Each operator whose comment begins with "Mutant" is a plausible bug in the
operator that follows it.  No specification uses it; substituted for its
original it makes one property fail, which shows that the property depends on
that piece of code.

## Runs

| Run | Instance | Checks |
|---|---|---|
| `mpsc_queue` | 3 producers | `ListInv` (the list is well formed in every intermediate state); `ReturnedIsPrivate`; `ImplementsFifo` (refinement); `EveryNodeIsDelivered` (liveness) |
| `rdma_sweep` | 3 requests of 2 blocks | `FreedDataIsUnused`, `RequestHasOneOwner`, `ReadsStartTogether`, and liveness: `CreatedReadersDrain`, `FullSweepReturns` (with a complete row) |
| `bench_run` | 3 workers, 3 accesses each, a report every 2, tests seq_read, seq_write, random_read | `NoAccessWhilePreparing`, `ProgressIsExact` (the counter is what the workers made and do not hold; the last line is the end), `SavedAreOwnAndComplete`, `MainAloneWithBuffers`, `RunCompletes` |
| `access_patterns` | partitions of 192 and 256 bytes, blocks of 22 to 300, strides of 30 to 128 | `StaysInPartition`, `TilesThePartition` (each byte once, none left out, aligned), `ReportsAccesses`, `RecordsAreComplete` (trace and reservation) |
| `bench_lifecycle` | 2 CPUs, registers that agree or differ | `RegistersComeBack`, `TestsRunAsAsked`, `ReturnReleases` (a return after the tests holds nothing) |
| `sweep_program` | 32-bit numbers up to 7, 64-bit up to 63; up to 7 readers and rounds, up to 7 blocks of a request | `SizesAreExact`, `BlocksAreWhereRead` (populate and `block_ptr` agree), `SweepsThePowersOfTwo` (it ends, unless `rounds` is the largest 32-bit number; with success only after every power of two) |
| `multi_turn` | 2 requests of 2 blocks, 3 turns | `VerifyNeverFails`, `PhasesDoNotOverlap`, `EndsWithCumulativeRows` |
| `dataplane` | 3 requests of 2 blocks, 2 turns, both programs, everything that can fail | `RequestIsInOnePlace`, `ThreadsHaveTheirMemory`, `EveryTurnReported` |
| `nic_link` | 4 readers, 4 laws, clock up to 6 | `ExpiresAfterArrival`, `ImplementsSerialLink` (refinement) |
| `pointer_chase` | 3 nodes, every shuffle, 2 load threads, 6 sizes | `ChaseVisitsAll`, `PressureThroughout`, `LoadStaysInPartition`, `Returns` |
| `microbench` | 2 runs, every list of up to 2 modes, every place, int up to 7, 5 NUMA nodes | `TestsFitTheMemory`, `PreTouchIsHonest`, `RowMatchesHeader`, `WorkersSpread` |
| `early_sweep_null` | 3 readers | `NullMeansEmpty`, which fails: see Findings |

Three more configurations are not runs of the list: each has the instance of a run
above and shows one counterexample of Findings (`tlc -config X.cfg M`).

| Configuration | Module | Violates |
|---|---|---|
| `MCBenchLifecycleSignal.cfg` | `MCBenchLifecycle` | `HandlerRestores` |
| `MCSweepProgramRounds.cfg` | `MCSweepProgram`, with 6 and 7 rounds, 7 being the largest 32-bit number | `RoundsEnd` |
| `MCPointerChaseMemory.cfg` | `MCPointerChase` | `AccessesStayInMemory` |

Why the bounds are enough to be interesting:

* Three nodes give a node at the head, one mid-insert behind it and one that
  gets in between the tail check and the stub's exchange, which is the longest
  chain of overlaps in the algorithm; the stub is enqueued again up to three
  times.  Proofs cover any number.
* Three requests make the RNIC thread serve one while another is in the queue
  and a third is not created; creation fails with none, one and two created and
  any number of them at the gate, and wakeups are individual.
* Three accesses with a report every second leave a rest; a test without
  latency sampling stands between two with it, so stale samples would show.
* The partitions are six and eight registers long (in the program a multiple of
  1 MiB, so always whole registers); blocks are below, at, above, a multiple and
  not a multiple of a register, and larger than the partition; strides divide the
  block, are divided by it, and neither.  The sampling interval of 3 keeps
  the relation of the program (100 and at least 32768 accesses) that a
  partition has at least twice as many accesses as the interval.
* Two CPUs let `wrmsr -a` be between them, and let their registers differ.
* With words of 3 and 6 bits the configurations fall on both sides of every
  check: products that fit, that `checked_mul_u64` refuses, and a chunk count
  whose factors are both as large as an option can be; the sweep reaches the
  largest 32-bit number, and so do the rounds.  The stores have one, two, three and
  seven blocks per request, of one chunk and of several, the last one full or partly
  filled; options are absent, given once, and twice with the first or the
  second bad.
* Three turns: the second reads across one boundary between turns, the third
  across two.  Two turns of the dataplane let one leave something to the next.
* Four requests are one more than it takes to go through a window of two
  services and meet the lag it leaves; six ticks let the link fall idle between
  two of them and the RNIC thread come late.
* The chase has all six orders of three nodes and more steps than nodes; the
  partitions are empty, of one and two accesses, and no multiple of an access.
* Memory sizes lie below and past the largest int and around the size of a
  chase; node lists name nodes twice, in any order, without CPUs and past the
  last.

`CHECK_DEADLOCK FALSE` is set where all threads end and a final state has no
successor.  It is checked for the queue, whose consumer polls for ever, and for
`SweepProgram` and `MultiTurn`, whose end is a step of its own, so there it says
that nobody waits for ever.

### Fairness

Every thread runs (weak fairness per thread on its next step): the loops of the
code spin with `usleep(0)`, `sched_yield` or `yield`, and a pthread mutex is
eventually obtained by a thread that waits for it.  A reader of the queue is not
obliged to begin its enqueue, only to finish one it began.  Spurious wakeups,
failing allocations and the clocks have no fairness: they may never happen.
`BenchLifecycle`, `NicLink`, `Microbench` and `EarlySweep` are checked for safety
only and state none.

## Findings

`early_sweep_null`: `mpsc_dequeue` of `test2-rdma.c` never hands out the last
node.  It has no successor, so lines 262-264 answer NULL for as long as nobody
enqueues after it, while the comment at line 240 says "Returns the node, or NULL
if empty".  Its reader spins for ever on `response_ready`, the gate never gets
its last arrival, and no sweep with all its readers returns.
`test2-rdma-fin.c` enqueues the stub again, which is what `EveryNodeIsDelivered`
depends on.  A NULL while an enqueue is between its exchange and its link does not
count against the property: what is queued is recorded in the step that
returns (`left`), and only if no producer is in between.

`HandlerRestores`: `hw_prefetcher.cpp` 98: a SIGTERM while main waits for
its own `wrmsr -a` makes two children write the CPUs, and a CPU that main's writes
last keeps the value of `--prefetch`, against "Signal handler for cleanup (restores
prefetcher state)" (`hw_prefetcher.h` 17).  `RegistersComeBack` leaves the case out
(`disturbed`).

`RoundsEnd`: `test2.c` 638: `r` is 32 bits wide, and `--rounds 4294967295`
is accepted.  No `r` is greater, so it wraps to 0 and the sweeps begin again; the
program, which should "repeat the full sweep N times" (121), never ends.
`SweepsThePowersOfTwo` allows that case alone.

`AccessesStayInMemory`: `benchmark.cpp` 1497: the load threads access 32 bytes at
their offset and compare it with the size of their partition afterwards.  With
exactly the 2 GB that line 1310 requires ("Memory size (%zu bytes) is less than
required chase size (2GB)", 1313, is the only refusal) the partitions are empty and
every thread reads, or writes, 32 bytes behind the memory.  In the same way a
partition that is no multiple of 32 bytes is left by less than an access, which is
behind the memory for the last thread (three threads of 683 MiB), and a
neighbour's for the others.  `LoadStaysInPartition` says that this is all.

Met while modelling, and visible in the modules, without a configuration of their own:

* `test2-rdma-fin.c` 916: when reader `created` cannot be created, the join in
  the cleanup waits for an RNIC thread that leaves its loop only after
  `num_readers = active_requests` requests (718, 818), more than are ever sent.
  The comment at 831-835 promises that the cleanup joins do not hang; of the
  readers it is right (`CreatedReadersDrain`).  `CleanupRnic` waits for `rnic =
  "exit"`, which does not come.
* `test2-rdma-fin.c` 738: "transfers are serialized" (699-700), but `ntime`
  advances only when a window is used up, and the law that serializes (749-758)
  is switched off by `if (true)`.  Only `test2-rdma3.c` implements the serial
  link.
* `test2-rdma2.c` 786: with `RNIC_SIMULATE_DELAY` the RNIC thread spins until
  `expire_time`, and the reader's wait is a comment; line 713 says "The RNIC
  NEVER sleeps or waits".
* `test3-mt.c` 543, 655 give memory of `mmap` (`xaligned_alloc`, 399-410) to
  `free()`.
* `test4.c` 820 reads `req_per_blocks` blocks in every turn, while the row (1130)
  and line 1046 say "turn t reads prefix t * req_per_blocks".  The rows of
  `Dataplane` hold both numbers.
* `test4.c` counts `created` in the loop that prepares the readers and again in
  the one that creates them, so after a failure `gate_open_after_created` waits for
  readers that do not exist (`GiveUp`).
* `test4.c` 797, 801 jump over the initialisation of `ret`, `created` and the gate to
  code that uses them; 808-813 leak `dctx`, and no path frees a `rdma_req` (835).
  When what `ret` happens to hold is 0, main prints a row of no blocks for the turn.
* `test4-nowait.c` 912 joins `threads[requests]`, whose creation (890) is
  commented out.
* `benchmark.cpp` 1059, 1203: the stride tests' phases run to `stride +
  BLOCK_SIZE`; unless the block divides the stride, the last overlaps the first
  of the next period, and the bandwidth, from "all memory accessed once" (1137),
  is too low: with the blocks and the stride of the repository's scripts nearly
  every byte is accessed twice.  `NothingTwice` excludes that case.
* `benchmark.cpp` 560, 580: the random and zipfian tests "read entire block" in
  whole registers without a rest loop, so a block size that 32 does not divide
  loses the end of each block, which `local_bytes` counts.  `ReportsAccesses`
  excludes that case.
* `benchmark.cpp` 1583: when `numa_alloc_onnode` fails, `indices` comes from
  `malloc` and goes to `numa_free`, which is chosen by the node asked for.
* `main.cpp` 699: when the result file cannot be created, memory of
  `numa_alloc_onnode` or `mmap` goes to `free()`, while the end of main uses
  `numa_free` (1069-1072).  The process may abort there, before line 701 restores
  the registers (no handler is installed for SIGABRT), or it goes on and the
  memory stays until it ends.  `RegistersComeBack` speaks of returns and of the handler's
  exit, so not of the abort, and `ReturnReleases` excepts that memory on that exit.
* `main.cpp` 217-232 refuses only 0: a negative `--block-size` or `--stride-size`
  becomes a huge `size_t`, and `stride + BLOCK_SIZE` (`benchmark.cpp` 1059, 1203) can
  wrap.  `AccessPatterns` has positive sizes that do not.
* `main_patched.cpp` 684: "Skipped only when explicitly disabled" (680-681), but
  pages are touched only with `--pre-touch`.
* `main_patched.cpp` 747: the check against duplicate headers cannot see a header
  that another run started in the same second still holds in its buffer.
  `RowMatchesHeader` speaks of runs with a directory of their own.
* `main_patched.cpp` 366: the default is 500 MiB per thread, the help (92-93) and
  the comment at 162 say 100.
* `main_patched.cpp` 384-401: "all" among other modes is refused, though the help
  lists it beside them.

## Proofs

Each theorem holds for every value of the constants and every execution of the
module's specification without fairness.  The proofs of several modules stand in
one file where the modules share a subject and its lemmas.

| Module | Theorem | Property |
|---|---|---|
| `RequestPathProofs` (`MpscQueue`) | `TypeCorrect`, `ListAlwaysWellFormed`, `ReturnedNodesArePrivate`, `NullAlwaysMeansEmpty`, `QueueImplementsFifo` | `TypeOK`, `ListInv`, `ReturnedIsPrivate`, `NullMeansEmpty`, `ImplementsFifo` |
| `RequestPathProofs` (`Dataplane`) | `RequestsStayInOnePlace`, `ThreadsKeepTheirMemory`, `RowsAlwaysCountAllReaders` | `RequestIsInOnePlace`, `ThreadsHaveTheirMemory`, `RowsCountAllReaders` |
| `RdmaSweepProofs` (`StartGate`) | `GateTypeCorrect`, `GateKeepsCount`, `GateOpensForAllAtOnce` | `GateTypeOK`, `GateInv`, `OpensForAllAtOnce` |
| `RdmaSweepProofs` (`RdmaSweep`) | `SweepTypeCorrect`, `FreedDataStaysUnused`, `RequestsHaveOneOwner`, `ReadsAlwaysStartTogether`, `ReportAlwaysComplete`, `NobodyJoinedTwice` | `TypeOK`, `FreedDataIsUnused`, `RequestHasOneOwner`, `ReadsStartTogether`, `ReportIsComplete`, `JoinsOnce` |
| `NicLinkProofs` | `LinkTypeCorrect`, `NothingExpiresEarly`, `LinkIsSerial`, `SerialLinkCarriesOne`, `Rdma3CarriesOneAtATime` | `TypeOK`, `ExpiresAfterArrival`, `ImplementsSerialLink`, `OneAtATime` of the abstract link and of its implementation |
| `MultiTurnProofs` | `EveryBlockVerifies`, `PhasesKeepApart`, `RowsAlwaysCumulative` | `VerifyNeverFails`, `PhasesDoNotOverlap`, `RowsAreCumulative` |
| `SweepProgramProofs` (`SweepProgram`, `ChunkStripe`) | `SizesAlwaysExact`, `BlocksAlwaysWhereRead`, `SweepsAlwaysCleanUp`, `ZeroAlwaysMeansSwept`, `WaitsAlwaysEnd` | `SizesAreExact`, `BlocksAreWhereRead`, `SweepsCleanUp`, `ZeroMeansSwept`, `WaitsEnd` |
| `BenchmarkProofs` (`AccessPatterns`) | `PatternsTypeCorrect`, `AccessesStayInPartition`, `ReportsAlwaysAddUp`, `TracesAlwaysComplete`, `RecordsAlwaysComplete`, `PartitionAlwaysTiled` | `TypeOK`, `StaysInPartition`, `ReportsAccesses`, `TraceIsComplete`, `RecordsAreComplete`, `TilesThePartition` |
| `BenchmarkProofs` (`BenchRun`) | `BenchTypeCorrect`, `NobodyAccessesEarly`, `SavedAlwaysOwn`, `MainIsAlone`, `ProgressNeverLies` | `RunTypeOK`, `NoAccessWhilePreparing`, `SavedAreOwnAndComplete`, `MainAloneWithBuffers`, `ProgressIsExact` |
| `BenchmarkProofs` (`PointerChase`) | `ChaseGoesRound`, `ChaseUnderLoad`, `LoadsKeepToPartition` | `ChaseVisitsAll`, `PressureThroughout`, `LoadStaysInPartition` |
| `MainProofs` (`BenchLifecycle`) | `LifecycleTypeCorrect`, `ReturnAlwaysReleases`, `RegistersAlwaysComeBack`, `TestsAlwaysAsAsked` | `MainTypeOK`, `ReturnReleases`, `RegistersComeBack`, `TestsRunAsAsked` |
| `MainProofs` (`FirstTouch`) | `TouchesDataOnly`, `WholeRegionIsFaulted` | statements about `Touched` |
| `MainProofs` (`Microbench`) | `TestsAlwaysFit`, `PreTouchAlwaysHonest`, `RowsAlwaysMatch`, `WorkersAlwaysSpread` | `TestsFitTheMemory`, `PreTouchIsHonest`, `RowMatchesHeader`, `WorkersSpread` |

Every invariant, action property and refinement that a passing run checks is a
theorem.
The others of the table have no run: the type invariants, the invariants of the
gate alone, `NullMeansEmpty`, `ReportIsComplete`, `JoinsOnce`, `TraceIsComplete`,
`RowsAreCumulative`, `RowsCountAllReaders`, `SweepsCleanUp`, `ZeroMeansSwept` and
`WaitsEnd` are conjuncts of the inductive invariants, follow from them, or are what is safety
in a liveness property of a run, and they hold of every instance.

**Induction over data.**  What a recursive function, a fold or a power has for
every argument is an induction over the data.  The library's induction
theorems take the predicate as a parameter, which the provers here cannot
instantiate.  `DataLemmas` states induction of a set instead: a set of numbers
that contains 0 and with each number the next is all of `Nat` (`EveryNumber`,
from the well-foundedness of `<` and a least counterexample), and a proof applies it
to the set of the numbers for which what it wants holds.  From it come the pieces of
`FlattenSeq` (`FlattenInPlace`), sums over a finite set, lists of sets, and the
powers of two, of which the provers know only that `2 ^ k` counts the subsets of
`k` elements.

**The queue**, for every set `Node`.  The only assumption is `CellAssumption`
(the stub is not a node, NULL is not a cell).  The inductive invariant is
`TypeOK /\ ListInv`.  `ListInv` says what the list is in every intermediate
state: `OrderInv` (what was returned is a prefix of the exchanges, each node at
most once), `EndsInv` (`head` and `tail` are the ends of the remaining sequence
with the stub at position `stubAt`), `LinksInv` (each link is its successor, or
NULL while the successor's enqueue has yet to link), `PendingInv` (the cell such
an enqueue will write is its predecessor and still in the list) and `StubInv`
(the stub is enqueued only while out of the list).  Without `PendingInv` a link
could be stored into a node already returned; without `StubInv` the stub could
enter twice.  There is one lemma per action, with one step per conjunct it can
disturb.  Refinement follows because the exchange appends to `enq`, a pop appends
the next of `enq` to `got` (`EndsInv`), and every other step leaves both alone.
`NullMeansEmpty` is what the comment on `mpsc_dequeue` claims of a NULL link: by
`LinksInv` a cell with no link is the last of the list, or its successor's
producer is between its exchange and its store.

**The gate**, for every `N` (at least one, by `SweepAssumption`).  `GateTypeOK /\
GateInv` is inductive: `ready` is the cardinality of `Arrived`, which is a set of
created readers, and `total` is `N` until main stops creating and `spawned`
afterwards.  `OpensForAllAtOnce` is counting: an open gate has `ready = total =
spawned`, and a subset of `0 .. spawned - 1` of that size is all of it
(`AllOfThem`, from the finite-set theorems).

**The sweep** (`RdmaSweep`), for every `N` and `Blocks` (`SweepAssumption`).  `SweepDrivesGate`
shows that each step of the sweep is a step of `StartGate` or leaves the gate
alone, so the gate's theorems hold in the sweep.  `SweepInv` adds `ThreadInv`
(the existing readers are the created ones, and only answered ones are at the
gate), `RequestInv` and `ServingInv` (each request is waiting in the queue, held
by the RNIC thread as the last one dequeued, or answered), `MainInv` (what is
true at each place of `run_one_sweep`: who may still run, and whether `created`
still counts the readers or was reset), `JoinInv` and `CountInv` (`blocksRead` is
`Blocks` times the readers that exited).

**The dataplane**, for any number of readers, blocks and turns
(`DataplaneAssumption`: at least one of each), and both programs.  `RingInv` puts
the request of a reader that spins in its one ring, the other or the RNIC
thread's hands.  `ThreadInv` says who may run at each place of main; it is not
inductive without what happens at the gate when creation fails: the loop that
prepares the readers has already counted them in `created` (see Findings), so the
lowered `total` is still at least `N`, and once a reader exists and a later one
cannot be created, main stays at the gate.  So `ThreadsHaveTheirMemory` holds on
that path because nothing is freed on it.  `BlocksInv` makes
`blocks_read` the blocks of the readers that are done, all of them when a row is
made after the joins; the other way to a row is a turn without memory for its
state, which leaves `failed` set and `blocks_read` at 0.

**The link**, for any set of readers, any service time and any constants of the
laws (`LinkAssumption`: natural numbers, and `None` is no reader).  `LawInv` says
that no arrival lies in the future, none after its expiry, and, under the law of
`test2-rdma3.c`, that `ntime` is the end of the last transfer (or zero before
the first).  The last is what the refinement needs: `SerialLink` knows only the
transfers, and `FreeAt`, the end of the last one, is then the `ntime` the code
compares with (`Rdma3Carries`).  Every other step of the RNIC thread and the
readers leaves the abstract link alone or is the passing of time.  That two
transfers do not overlap is proved of the abstract link (`LinkInv`) and carried
over.

**The turns** (`MultiTurn`), for any number of requests, blocks and turns
(`TurnAssumption`: at least one of each).  `StoreInv` says that the blocks
written so far hold their request, number and turn; that one write leaves the
others alone is that `block_ptr` sends different blocks to different places, and
that the place is in the store.  `PhaseInv` keeps readers and writing apart,
`CountInv` and `RowInv` make each row the count of the blocks up to its turn.

**The sweep program**, for any command line and any widths
(`WidthAssumption`: a 64-bit number is a pair of 32-bit ones, a factor fits 32
bits; `DefaultsAssumption`: the built-in values are positive).  `CommandAssumption` says what a command line is: for each option a list
of values, for the block's size with the option that gave it.
`SizeInv`: each accepted option is a positive 32-bit number, the chunks of a block are at most the
requests, so `ChunkCount`, the one product that main does not check, cannot wrap.
`PlaceInv`: `Populated` is two nested concatenations, its entry at any place
comes from `FlattenInPlace`, and `block_ptr`, which divides, finds it
(`PtrIsPlace`).  `LoopInv`: `c` is a power of two up to `sweep_max`, and a step of
the loop doubles it without wrapping or ends the round (`Advances`).
`ReaderInv`: the readers from `created` on do not exist, and when main leaves a
sweep the others have exited; `created` is reset only after that.  `RowInv`: the
number of rows is a round's powers of two times the rounds gone by since `round` was
last 0, plus those below `c`, so it is exact where an exit is reached, since with
`rounds` at `MaxU32` no round is greater and there is none; that doubling misses none is `PowersApart`: there is no power between
`c` and `2c`.  `WaitsEnd` is why a sweep cannot deadlock: the count at the gate is
the number of readers that have come and main expects those it created
(`GateInv`), so that a short count leaves one on its way (`SomebodyToCome`), and
main opens the gate before it joins anyone.

**The access loops**, for every register, report and sampling interval, size,
block and stride (`PatternAssumption`: positive, and partitions of whole
registers that have at least twice as many of them as there are accesses to a
sample; in the program 32768 and 100).  `PatternInv` adds to the four
properties that the sequential loop has not passed the end (`SeqInPartition`), from
which the remainder loop finds nothing (`NoRest`).  The rest is division:
`BlockFits` bounds the registers of a block that starts at the int its first byte
is in, and `WholeBlock` says that a block of whole registers is all its
registers.  `SampleInv` bounds the samples by the accesses made, and their
reservation needs the assumption on the size: without it a tiny partition
takes a sample and reserves room for none.  `TileInv` says which bytes have been touched:
a prefix (sequential), the blocks that are no longer `left` (random), and in the stride
tests the bytes that the loop has passed: a byte has a phase, an offset and a
block (`Place`), the loop passes those in a fixed order (`Earlier`), and no byte
has two when the phases tile a period.

**The benchmark run**, for every number of workers, accesses, report interval and
list of tests (`BenchAssumption`).  The barrier is a count: `CountInv` makes
`readyCount` the number of workers past their preparation, so main, which sees
`N`, knows them all to be.  `WorkerInv` ties a worker's place to its accesses and
to the start flag, `StageInv` main's place to the workers' (nobody runs when main
is about to clear or save), `BufferInv` says that the buffers hold exactly what
the workers that exited handed in of this test, and `SavedInv` that each file
got that.  Without `BufferInv` the latencies a test without sampling leaves
behind would be indistinguishable from the next test's.  `ReportInv` adds that the
counter is the sum, over the workers, of accesses made and not held back; a
report moves one worker's share from one side to the other.

**The pointer chase**, for any number of nodes, samples and load threads and any
sizes (`ChaseAssumption`: at least one node, sample and load thread).
`BuiltInv`: the links are those of a permutation, each node to the next of the
shuffled order and the last to the first.  `TrailInv`: the trail is that order, from
where node 0 stands in it, round and round, so two visits to one node are a multiple of
`NumNodes` apart.  `ReadyInv` is the barrier: `ready_count` counts the threads past
their setup, `start_flag` needs all of them, a load thread ends only after
`stop_flag`, and that only after the last sample.  `OffsetInv`: an offset is a
multiple of the access and before the end of the partition, or 0; so the access there
ends within the partition rounded up to whole accesses (`Reach`).

**The lifecycle of main**, for any number of CPUs and values of their registers
(`LifecycleAssumption`: at least one CPU, and no register
holds the mark of "nothing saved").  `HeldInv` says what is held at each
place of main, and that a file which was opened is closed when main releases: a return
with `file = "none"` never made a test, which is how `ReturnReleases` tells the
exit of line 699 from the others.  `RegisterInv` says what is saved and how far the one `wrmsr` in
progress has come (`Written`): `MainAlone` before a handler runs, when it is main's,
and `HandlerAlone` after.  A signal during main's `wrmsr` leaves that invariant
through `disturbed`, which is what `HandlerRestores` fails on (see Findings).  `AskedInv` follows main's
own `wrmsr` over the CPUs up to the tests.

**The first touch**, for every page size, size and number of threads
(`PageAssumption`: a page is not empty).  `SharesFit` and `SharesInOrder` place the
shares in the data one behind the other; `SomeThreadsShare` finds the thread a
byte belongs to.  Its last touch before that byte is less than a page away,
so any page-long stretch of the data is hit, though a share that begins within a
page leaves the page's beginning to the thread before.

**A run of microbench**, for any number of runs started together, any command
lines and any width of int (`MicrobenchAssumption`: options are ints, NUMA nodes have
finite and disjoint sets of CPUs).  `SizeInv` says what a run that got past the
checks has: a positive total that is the product asked for or what it wraps to.  `Sensible`
qualifies the two theorems on memory: what wraps is negative, and refused,
up to twice what an int can hold (2^32 MiB); beyond, it may be a small positive
number and is taken.  `NameInv`, `FilesInv` and `EnvInv` say who may have opened a
path, and `LineInv` what is in the file of a run whose path no other has; the
columns of the header and of the row come from one induction over the tests.
`PinInv`: `cpu_list` has each CPU of the nodes asked for once, in whatever order and however
often the nodes are named, and dealing workers round a list gives no entry two more
than another (`DealtEvenly`).

### What is only model-checked

Liveness under fairness is out of the prover's reach: `EveryNodeIsDelivered`,
`CreatedReadersDrain`, `FullSweepReturns`, `RunCompletes`,
`SweepsThePowersOfTwo`, `EndsWithCumulativeRows`, `EveryTurnReported`, `Returns`.
Of those that also say what holds at the end, that part is proved
(`ReportIsComplete`, `ProgressIsExact`, `ZeroMeansSwept`, `RowsAreCumulative`,
`RowsCountAllReaders`); what TLC alone shows is that the end is reached.
`EarlySweep`, whose one run fails, has no theorem.

## Not modelled

* The Python and shell scripts that run the binary and plot, and the texts of
  options, messages, JSON and CSV: they keep no state between steps.
* `saveTrace`'s merging, sorting and truncation, and the calibration of the TSC:
  computations on data that no thread touches any more.
* The elapsed time (`benchmark.cpp` 306): it is taken after the monitor is
  joined, which may be in its one-second sleep, so up to a second in which
  nothing is read is counted.  It is a matter of durations, not of states.
* What `test2-rdma2.c` and `test2-rdma3.c` repeat of `test2-rdma-fin.c`, and what
  `main.cpp` and `main_patched.cpp` have in common, twice.
* The option parsing of the other `custom-test` programs, which repeats that of
  `test2.c`; DPDK and libnuma, which are external.
