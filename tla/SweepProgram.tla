---------------------------- MODULE SweepProgram ----------------------------
(***************************************************************************)
(* The whole of custom-test/test2.c: parsing the command line, sizing and  *)
(* populating the store, and main's rounds of sweeps of 1, 2, 4, ...       *)
(* concurrent readers, with every early return and what it gives back.     *)
(* ChunkStripe lays out the store, which is filled in one step, before     *)
(* there is a reader; StartGate has the gate's mutex and condition, and    *)
(* here a reader at the gate passes when it is open.                       *)
(*                                                                         *)
(* Integers have the code's widths, scaled down: uint32_t ends at MaxU32   *)
(* and uint64_t at MaxU64, arithmetic beyond wraps.  Kilo and Mega stand   *)
(* for 1024 and 1024 * 1024 (a G suffix is one more such factor), MinBlock *)
(* for sizeof(struct block_tag) + 1.                                       *)
(***************************************************************************)
EXTENDS ChunkStripe, Integers, Sequences, FiniteSets

CONSTANTS MaxU32, MaxU64, Kilo, Mega, MinBlock,
          CommandLines,     \* the command lines main may be given
          Defaults          \* the DEFAULT_ values: requests, req_per_blocks, ...

ASSUME WidthAssumption ==
  /\ {MaxU32, MaxU64, Kilo, Mega, MinBlock} \subseteq Nat \ {0}
  /\ MaxU64 = (MaxU32 + 1) * (MaxU32 + 1) - 1
  /\ Kilo <= Mega /\ Mega <= MaxU32

\* The built-in values are positive (lines 50-55, 184).
ASSUME DefaultsAssumption ==
  \A name \in {"requests", "req_per_blocks", "chunk_slots", "rounds", "block_bytes", "sweep_min"} :
    Defaults[name] \in 1 .. MaxU32

\* The value of an option: a number and a suffix.  A word that is neither is like the
\* number 0, which no option takes.
Token == [v : Nat, suffix : {"", "k", "m"}]

\* A command line has, of each option (its aliases are the same option), the values
\* given, in their order; of the block's size, with the unit in which it was given.
\* --help, which ends the program at once, is not on it.
ASSUME CommandAssumption ==
  \A o \in CommandLines :
    /\ \A name \in {"requests", "req_per_blocks", "chunk_slots", "rounds", "sweep_min",
                      "sweep_max"} : o[name] \in Seq(Token)
    /\ o.block \in Seq({"mb", "bytes"} \X Token)

VARIABLES
  main,             \* where main is
  command, cfg,     \* the command line, and what parse_args made of it
  chunk_bytes, store_bytes,
  store,            \* what it holds, <<>> when there is none
  csvOpen,
  round, c,         \* main's loops: c is active_requests
  reader,           \* where reader i's thread is
  scratch,          \* args[i].scratch: "null", "held", "freed" or "twice"
  argsHeld,         \* threads and args are allocated
  created, ready, total, open,
  blocks_read,
  ret,              \* what run_one_sweep returns
  rows,             \* history: <<round, active_requests, blocks>> per row, since round was
                    \* last 0
  status            \* the exit status

sizes == <<chunk_bytes, store_bytes>>
files == <<store, csvOpen>>
loops == <<round, c>>
gate == <<ready, total, open>>
sweep == <<reader, scratch, argsHeld, created, gate, blocks_read, ret>>
vars == <<main, command, cfg, sizes, files, loops, sweep, rows, status>>

Bad == -1
Thread == 0 .. MaxU32 - 1
NotGiven == <<>>
Factor(suffix) == CASE suffix = "" -> 1 [] suffix = "k" -> Kilo [] suffix = "m" -> Mega

U32(n) == n % (MaxU32 + 1)
U64(n) == n % (MaxU64 + 1)

-----------------------------------------------------------------------------
(* parse_args *)

parse_size(t) == IF t.v > MaxU64 \div Factor(t.suffix) THEN Bad ELSE t.v * Factor(t.suffix)

parse_u32_arg(t) == IF parse_size(t) \in 1 .. MaxU32 THEN parse_size(t) ELSE Bad

\* The two ways to give the size of a block; --block-mb multiplies in 32 bits.
BlockFromMb(t) ==
  IF parse_u32_arg(t) = Bad \/ parse_u32_arg(t) > MaxU32 \div Mega
  THEN Bad ELSE U32(parse_u32_arg(t) * Mega)

\* What is left of an option given as these values: the last one, if all are good.
Taken(values, default) ==
  CASE values = <<>> -> default
    [] Bad \in Range(values) -> Bad
    [] OTHER -> Last(values)

Given(o, name, default) ==
  Taken([k \in DOMAIN o[name] |-> parse_u32_arg(o[name][k])], default)

BlockBytes(unit, t) == IF unit = "mb" THEN BlockFromMb(t) ELSE parse_u32_arg(t)

\* The configuration after all options.
Parsed(o) ==
  LET requests == Given(o, "requests", Defaults.requests)
  IN [requests |-> requests,
      req_per_blocks |-> Given(o, "req_per_blocks", Defaults.req_per_blocks),
      chunk_slots |-> Given(o, "chunk_slots", Defaults.chunk_slots),
      rounds |-> Given(o, "rounds", Defaults.rounds),
      block_bytes |-> Taken([k \in DOMAIN o.block |-> BlockBytes(o.block[k][1], o.block[k][2])],
                            Defaults.block_bytes),
      sweep_min |-> Given(o, "sweep_min", Defaults.sweep_min),
      sweep_max |-> Given(o, "sweep_max", requests),
      copy_to_dst |-> o.copy_to_dst, csv |-> o.csv]

Numeric == {"requests", "req_per_blocks", "chunk_slots", "rounds", "block_bytes",
            "sweep_min", "sweep_max"}

Accepted(p) ==
  /\ \A f \in Numeric : p[f] # Bad
  /\ p.sweep_min <= p.sweep_max /\ p.sweep_max <= p.requests
  /\ p.block_bytes >= MinBlock

Exit(code) == main' = "exit" /\ status' = code

ParseArgs ==
  /\ main = "args"
  /\ IF Accepted(Parsed(command))
     THEN main' = "sizes" /\ cfg' = Parsed(command) /\ UNCHANGED status
     ELSE Exit(1) /\ UNCHANGED cfg
  /\ UNCHANGED <<command, sizes, files, loops, sweep, rows>>

-----------------------------------------------------------------------------
(* main: sizes, store, csv *)

\* Mutant: the product is not checked.
UncheckedMul(a, b) == U64(a * b)

checked_mul_u64(a, b) == IF a # 0 /\ b > MaxU64 \div a THEN Bad ELSE U64(a * b)

ChunkCount(p) == U64(p.req_per_blocks * ChunksPerBlock(p))

SizeStore ==
  /\ main = "sizes"
  /\ LET chunk == checked_mul_u64(cfg.chunk_slots, cfg.block_bytes)
         bytes == IF chunk = Bad THEN Bad ELSE checked_mul_u64(ChunkCount(cfg), chunk)
     IN IF bytes = Bad
        THEN Exit(1) /\ UNCHANGED sizes
        ELSE main' = "store" /\ chunk_bytes' = chunk /\ store_bytes' = bytes /\ UNCHANGED status
  /\ UNCHANGED <<command, cfg, files, loops, sweep, rows>>

\* xaligned_alloc, then populate_chunk_stripe, which always returns 0.  Both compute
\* with the sizes above, which lay the store out exactly (SizesAreExact).
AllocStore ==
  /\ main = "store"
  /\ \/ main' = "csv" /\ store' = Populated(cfg) /\ UNCHANGED status
     \/ Exit(1) /\ UNCHANGED store
  /\ UNCHANGED <<command, cfg, sizes, csvOpen, loops, sweep, rows>>

OpenCsv ==
  /\ main = "csv"
  /\ \/ main' = "sweeps" /\ csvOpen' = cfg.csv /\ UNCHANGED <<store, status>>
     \/ cfg.csv /\ Exit(1) /\ store' = <<>> /\ UNCHANGED csvOpen
  /\ UNCHANGED <<command, cfg, sizes, loops, sweep, rows>>

-----------------------------------------------------------------------------
(* main: rounds of sweeps; the round and c are 32-bit numbers *)

\* Mutant: the loop doubles c without looking at the width.
DoubleWraps(n) == U32(2 * n)

\* The next c, or one past the end of the loop when doubling would wrap.
Doubled(n) == IF n > MaxU32 \div 2 THEN MaxU32 + 1 ELSE U32(2 * n)

\* The step of the loops that leaves the current c: on to the next c or round.  The round
\* after the last 32-bit one is 0, and the history of rows begins anew.
Advance ==
  IF Doubled(c) <= cfg.sweep_max
  THEN c' = Doubled(c) /\ UNCHANGED <<round, rows>>
  ELSE c' = 1 /\ round' = U32(round + 1) /\ rows' = IF round' = 0 THEN <<>> ELSE rows

SkipSweep ==
  /\ main = "sweeps" /\ round <= cfg.rounds /\ c < cfg.sweep_min
  /\ Advance
  /\ UNCHANGED <<main, command, cfg, sizes, files, sweep, status>>

AllSweepsDone ==
  /\ main = "sweeps" /\ round > cfg.rounds
  /\ Exit(0)
  /\ store' = <<>> /\ csvOpen' = FALSE
  /\ UNCHANGED <<command, cfg, sizes, loops, sweep, rows>>

\* run_one_sweep failed: close, free, return 1.
SweepFailed ==
  /\ main = "returned" /\ ret = -1
  /\ Exit(1)
  /\ store' = <<>> /\ csvOpen' = FALSE
  /\ UNCHANGED <<command, cfg, sizes, loops, sweep, rows>>

SweepSucceeded ==
  /\ main = "returned" /\ ret = 0
  /\ main' = "sweeps"
  /\ Advance
  /\ UNCHANGED <<command, cfg, sizes, files, sweep, status>>

-----------------------------------------------------------------------------
(* run_one_sweep *)

BeginSweep ==
  /\ main = "sweeps" /\ round <= cfg.rounds /\ c >= cfg.sweep_min
  /\ \/ /\ main' = "create"
        /\ argsHeld' = TRUE
        /\ reader' = [i \in Thread |-> "none"]
        /\ scratch' = [i \in Thread |-> "null"]
        /\ created' = 0 /\ ready' = 0 /\ total' = c /\ open' = FALSE
        /\ blocks_read' = 0 /\ ret' = 0
     \/ /\ main' = "returned" /\ ret' = -1      \* no memory for threads and args
        /\ UNCHANGED <<reader, scratch, argsHeld, created, gate, blocks_read>>
  /\ UNCHANGED <<command, cfg, sizes, files, loops, rows, status>>

CreateReader ==
  /\ main = "create" /\ created < c
  /\ scratch' = [scratch EXCEPT ![created] = IF cfg.copy_to_dst THEN "held" ELSE "null"]
  /\ reader' = [reader EXCEPT ![created] = "start"]
  /\ created' = created + 1
  /\ UNCHANGED <<main, command, cfg, sizes, files, loops, argsHeld, gate, blocks_read, ret,
                 rows, status>>

\* The scratch buffer, or with it the thread, of the next reader cannot be had:
\* gate_open_after_created expects those that exist.
CreateFails ==
  /\ main = "create" /\ created < c
  /\ \/ cfg.copy_to_dst /\ UNCHANGED scratch
     \/ scratch' = [scratch EXCEPT ![created] = IF cfg.copy_to_dst THEN "held" ELSE "null"]
  /\ ret' = -1
  /\ total' = created
  /\ main' = "gate"
  /\ UNCHANGED <<command, cfg, sizes, files, loops, reader, argsHeld, created, ready, open,
                 blocks_read, rows, status>>

AllCreated ==
  /\ main = "create" /\ created = c
  /\ main' = "gate"
  /\ UNCHANGED <<command, cfg, sizes, files, loops, sweep, rows, status>>

\* gate_open and gate_open_after_created: wait for all that are expected, open.
OpenGate ==
  /\ main = "gate" /\ ready >= total
  /\ open' = TRUE
  /\ main' = IF ret = -1 THEN "cleanup" ELSE "join"
  /\ UNCHANGED <<command, cfg, sizes, files, loops, reader, scratch, argsHeld, created, ready,
                 total, blocks_read, ret, rows, status>>

\* All the joins, created = 0, and the row.
JoinAndReport ==
  /\ main = "join"
  /\ \A i \in 0 .. c - 1 : reader[i] = "exit"
  /\ created' = 0
  /\ rows' = Append(rows, <<round, c, blocks_read>>)
  /\ main' = "cleanup"
  /\ UNCHANGED <<command, cfg, sizes, files, loops, reader, scratch, argsHeld, gate,
                 blocks_read, ret, status>>

FreedOnce(s) == CASE s = "null" -> "null" [] s = "held" -> "freed" [] OTHER -> "twice"

\* join_fail: join those that exist, free every scratch buffer, then the arrays.
Cleanup ==
  /\ main = "cleanup"
  /\ \A i \in 0 .. created - 1 : reader[i] = "exit"
  /\ scratch' = [i \in Thread |-> IF i < c THEN FreedOnce(scratch[i]) ELSE scratch[i]]
  /\ argsHeld' = FALSE
  /\ main' = "returned"
  /\ UNCHANGED <<command, cfg, sizes, files, loops, reader, created, gate, blocks_read, ret,
                 rows, status>>

-----------------------------------------------------------------------------
(* reader_thread and gate_wait *)

Arrive(i) ==
  /\ reader[i] = "start"
  /\ reader' = [reader EXCEPT ![i] = "gate"]
  /\ ready' = ready + 1
  /\ UNCHANGED <<main, command, cfg, sizes, files, loops, scratch, argsHeld, created, total,
                 open, blocks_read, ret, rows, status>>

PassGate(i) ==
  /\ reader[i] = "gate" /\ open
  /\ reader' = [reader EXCEPT ![i] = "read"]
  /\ UNCHANGED <<main, command, cfg, sizes, files, loops, scratch, argsHeld, created, gate,
                 blocks_read, ret, rows, status>>

\* The blocks are read into the scratch buffer and the counters added to.
ReadBlocks(i) ==
  /\ reader[i] = "read"
  /\ reader' = [reader EXCEPT ![i] = "exit"]
  /\ blocks_read' = blocks_read + cfg.req_per_blocks
  /\ UNCHANGED <<main, command, cfg, sizes, files, loops, scratch, argsHeld, created, gate,
                 ret, rows, status>>

ReaderStep(i) == Arrive(i) \/ PassGate(i) \/ ReadBlocks(i)

-----------------------------------------------------------------------------

Init ==
  /\ main = "args"
  /\ command \in CommandLines
  /\ cfg = [f \in Numeric \cup {"copy_to_dst", "csv"} |-> 0]
  /\ chunk_bytes = 0 /\ store_bytes = 0
  /\ store = <<>> /\ csvOpen = FALSE
  /\ round = 1 /\ c = 1
  /\ reader = [i \in Thread |-> "none"]
  /\ scratch = [i \in Thread |-> "null"]
  /\ argsHeld = FALSE
  /\ created = 0 /\ ready = 0 /\ total = 0 /\ open = FALSE
  /\ blocks_read = 0
  /\ ret = 0
  /\ rows = <<>>
  /\ status = -1

MainStep ==
  \/ ParseArgs \/ SizeStore \/ AllocStore \/ OpenCsv
  \/ SkipSweep \/ AllSweepsDone \/ SweepFailed \/ SweepSucceeded
  \/ BeginSweep \/ CreateReader \/ CreateFails \/ AllCreated \/ OpenGate
  \/ JoinAndReport \/ Cleanup

Exited == main = "exit" /\ UNCHANGED vars

Next == MainStep \/ (\E i \in Thread : ReaderStep(i)) \/ Exited

\* Every thread of the process is scheduled.
Spec == Init /\ [][Next]_vars /\ WF_vars(MainStep) /\ \A i \in Thread : WF_vars(ReaderStep(i))

-----------------------------------------------------------------------------
(* Properties *)

\* The 64-bit size of the store is the real one: neither the checked products
\* nor the unchecked chunk count wrapped, so every block lies inside the store.
SizesAreExact ==
  main \notin {"args", "sizes", "exit"} =>
    /\ chunk_bytes = cfg.chunk_slots * cfg.block_bytes
    /\ store_bytes = cfg.req_per_blocks * ((cfg.requests + cfg.chunk_slots - 1) \div cfg.chunk_slots)
                      * cfg.chunk_slots * cfg.block_bytes
    /\ store_bytes <= MaxU64

\* populate fills the store to the byte, and every request's blocks lie where its reader
\* will look for them and nowhere else: the running chunk_id of the one and the division
\* of the other number the chunks alike, also when the last chunk of a block is not full
\* (lines 409-412 and 421-433).
BlocksAreWhereRead ==
  store # <<>> =>
    /\ Len(store) * cfg.block_bytes = store_bytes
    /\ \A t \in Tag(cfg) : store[block_ptr(cfg, t[1], t[2]) + 1] = t
    /\ \A p \in DOMAIN store : store[p] \in Tag(cfg) =>
         p = block_ptr(cfg, store[p][1], store[p][2]) + 1

\* A reader keeps what it uses, and each scratch buffer is freed once: when a sweep is
\* over nothing of it is left, and at the exit nothing at all, whichever call failed.
SweepsCleanUp ==
  /\ \A i \in Thread :
       /\ reader[i] \in {"start", "gate", "read"} =>
            store # <<>> /\ argsHeld /\ (cfg.copy_to_dst => scratch[i] = "held")
       /\ scratch[i] # "twice"
  /\ main \in {"sweeps", "exit"} => ~argsHeld /\ \A i \in Thread : scratch[i] # "held"
  /\ main = "exit" => store = <<>> /\ ~csvOpen

\* Nobody is waited for in vain, whichever reader could not be created: while main waits at
\* the gate a reader has yet to come to it, and main joins readers that exist and that no
\* gate holds (lines 324-353, 500-524, 549-551).
WaitsEnd ==
  /\ main = "gate" /\ ready < total => \E i \in Thread : reader[i] = "start"
  /\ main \in {"join", "cleanup"} =>
       /\ \A i \in 0 .. (IF main = "join" THEN c ELSE created) - 1 : reader[i] # "none"
       /\ \A i \in Thread : reader[i] = "gate" => open

PowersInRange == {n \in cfg.sweep_min .. cfg.sweep_max : \E k \in 0 .. MaxU32 : n = 2 ^ k}

\* Every power of two of the range is swept once per round, in order, and nothing else,
\* also next to the end of the 32-bit range, and each row counts all the blocks of all
\* its readers.
Swept ==
  /\ Len(rows) = cfg.rounds * Cardinality(PowersInRange)
  /\ \A k \in DOMAIN rows :
       /\ rows[k][1] \in 1 .. cfg.rounds /\ rows[k][2] \in PowersInRange
       /\ rows[k][3] = rows[k][2] * cfg.req_per_blocks
  /\ \A k \in 1 .. Len(rows) - 1 :
       \/ rows[k][1] < rows[k + 1][1]
       \/ rows[k][1] = rows[k + 1][1] /\ rows[k][2] < rows[k + 1][2]

\* main returns 0 only after all of that.
ZeroMeansSwept == main = "exit" /\ status = 0 => Swept

\* The program ends, and truthfully: no failure leaves main at the gate or in a join, and
\* the doubling ends for every range.  With as many rounds as a 32-bit number can be, which
\* round never exceeds, it may sweep for ever.
SweepsThePowersOfTwo ==
  \/ <>(main = "exit" /\ ZeroMeansSwept)
  \/ []<>(main = "sweeps" /\ cfg.rounds = MaxU32)

\* test2.c:121 "--rounds N repeat the full sweep N times": after N rounds, for any N that
\* is accepted, the program ends.
RoundsEnd == <>(main = "exit")
=============================================================================
