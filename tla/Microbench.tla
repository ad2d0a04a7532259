----------------------------- MODULE Microbench -----------------------------
(***************************************************************************)
(* What a run of microbench turns its options into (main_patched.cpp,      *)
(* numa_affinity.cpp): the tests, the CPUs, the memory, the pages that are *)
(* really there, and the result file, which runs started in the same       *)
(* second share.  Its threads write to the pages as FirstTouch says; what  *)
(* it takes and gives back is BenchLifecycle's, how a test runs BenchRun's.*)
(*                                                                         *)
(* The value of an option is what its conversion makes of it.  A file is a *)
(* sequence of lines; what is written stays in the stream's buffer until   *)
(* fflush.  int has values up to IntMax; a product past it is undefined:   *)
(* the build may wrap it, to a number that size_t makes too big for mmap   *)
(* if it is negative, or never narrow it.                                  *)
(***************************************************************************)
EXTENDS FirstTouch, Integers, Sequences, FiniteSets, SequencesExt

CONSTANTS
  Run,                  \* the runs of the program
  Commands,             \* the command lines considered, one for each run
  Unset,                \* an option that is not given
  CpusOf,               \* CpusOf[n]: the CPUs of NUMA node n; the nodes are its domain
  NoSuchNode,           \* nodes below the highest that do not exist
  IntMax,
  PagesPerMib,          \* pages in a MiB
  ChaseMib,             \* CHASE_SIZE_BYTES
  Seconds               \* bound of the clock, for model checking

MaxNode == CHOOSE n \in DOMAIN CpusOf : \A o \in DOMAIN CpusOf : o <= n

ASSUME MicrobenchAssumption ==
  /\ MaxNode \in Nat /\ DOMAIN CpusOf = 0 .. MaxNode
  /\ NoSuchNode \subseteq DOMAIN CpusOf
  /\ \A n \in DOMAIN CpusOf : CpusOf[n] \subseteq Nat /\ IsFiniteSet(CpusOf[n])
  /\ \A m, n \in DOMAIN CpusOf : m # n => CpusOf[m] \cap CpusOf[n] = {}
  /\ {IntMax, PagesPerMib, ChaseMib, Seconds} \subseteq Nat \ {0}
  /\ \A c \in Commands : \A p \in Run :
       /\ {c[p].threads, c[p].memory} \subseteq Int
       /\ c[p].affinity = Unset \/ c[p].affinity \in Seq(Int)

VARIABLES
  second,               \* time(NULL)
  command,              \* command[p]: the options of run p
  pc,                   \* where run p is
  cpu_list,             \* g_cpu_affinity_list
  result_dir, output_file_path,
  memory_size,          \* in MiB
  there,                \* there[p]: the pages of p's memory that exist
  has_header, stream,   \* stream[p]: how the output file is open, and its buffer
  bandwidth,            \* bandwidth[p][test]: Unset until measured
  files,                \* files[path]: the lines of it
  environment           \* environment[dir]: what environment.json of dir says

options == <<second, command>>
setup == <<cpu_list, result_dir, output_file_path, memory_size>>
output == <<has_header, stream, files, environment>>
vars == <<options, pc, setup, there, output, bandwidth>>

\* The tests, in the order of the flags, of the columns and (Started) of the calls.
Tests == <<"seq_read", "seq_write", "random_read", "random_write", "stride_read",
           "stride_write", "zipfian_read", "pointer_chase">>
Test == Range(Tests)
Reads == {"seq_read", "random_read", "stride_read", "zipfian_read"}

Started == <<"seq_read", "seq_write", "random_read", "random_write", "zipfian_read",
             "stride_read", "stride_write", "pointer_chase">>

-----------------------------------------------------------------------------
(* Options *)

ModeToken == Test \cup {"seq", "random", "stride", "zipfian"}

\* --mode: all stands for itself only, anything else is a list.
modes(mode) == IF mode = <<"all">> THEN <<"seq", "random", "stride">> ELSE mode

ModesOk(mode) == modes(mode) # <<>> /\ Range(modes(mode)) \subseteq ModeToken

Expanded(m) ==
  CASE m = "seq" -> {"seq_read", "seq_write"}
    [] m = "random" -> {"random_read", "random_write"}
    [] m = "stride" -> {"stride_read", "stride_write"}
    [] m = "zipfian" -> {"zipfian_read"}
    [] OTHER -> {m}

\* The run_ flags.
runs(c) == UNION {Expanded(m) : m \in Range(modes(c.mode))}

\* Exactly one of --devdax and --membind.
PlaceOk(c) == c.devdax # (c.membind # Unset)

memory_per_thread_mib(c) == IF c.memory <= 0 THEN 500 ELSE c.memory

Valid(c) == c.wellformed /\ PlaceOk(c) /\ ModesOk(c.mode) /\ c.threads > 0

-----------------------------------------------------------------------------
(* numa_affinity.cpp *)

\* A std::set of numbers, front to back: the k-th has k elements up to it.
Rank(S, x) == Cardinality({y \in S : y <= x})
Ascending(S) == [k \in 1 .. Cardinality(S) |-> CHOOSE x \in S : Rank(S, x) = k]

\* Mutant: a node is added as often as it is named.
EveryNaming(nodes) == IF \A k \in DOMAIN nodes : nodes[k] \in Nat THEN nodes ELSE <<>>

\* Each node once, in order; nothing at all if one of them is no number or negative.
parseNumaNodes(nodes) ==
  IF \A k \in DOMAIN nodes : nodes[k] \in Nat THEN Ascending(Range(nodes)) ELSE <<>>

validateNumaNodes(nodes) ==
  /\ nodes # <<>>
  /\ \A k \in DOMAIN nodes :
       nodes[k] <= MaxNode /\ nodes[k] \notin NoSuchNode /\ CpusOf[nodes[k]] # {}

getCpusFromNumaNodes(nodes) ==
  FlattenSeq([k \in DOMAIN nodes |-> Ascending(CpusOf[nodes[k]])])

\* The CPU of worker t, if threads are pinned.
CpuOf(p, t) == cpu_list[p][(t % Len(cpu_list[p])) + 1]

-----------------------------------------------------------------------------
Init ==
  /\ second = 0
  /\ command \in Commands
  /\ pc = [p \in Run |-> "parse"]
  /\ cpu_list = [p \in Run |-> <<>>]
  /\ result_dir = [p \in Run |-> Unset] /\ output_file_path = [p \in Run |-> Unset]
  /\ memory_size = [p \in Run |-> 0]
  /\ there = [p \in Run |-> {}]
  /\ has_header = [p \in Run |-> FALSE]
  /\ stream = [p \in Run |-> [mode |-> "closed", buffer |-> <<>>]]
  /\ bandwidth = [p \in Run |-> [t \in Test |-> Unset]]
  /\ files = [path \in {} |-> <<>>]
  /\ environment = [dir \in {} |-> <<>>]

Tick ==
  /\ second < Seconds /\ second' = second + 1
  /\ UNCHANGED <<command, pc, setup, there, output, bandwidth>>

At(p, here, next) == pc[p] = here /\ pc' = [pc EXCEPT ![p] = next]

ParseOptions(p) ==
  /\ At(p, "parse", IF Valid(command[p]) THEN "affinity" ELSE "refused")
  /\ UNCHANGED <<options, setup, there, output, bandwidth>>

\* The list is global from before the first thread on.
Affinity(p) ==
  LET given == command[p].affinity # Unset
      nodes == parseNumaNodes(command[p].affinity)
      ok == validateNumaNodes(nodes)
  IN /\ At(p, "affinity", IF given /\ ~ok THEN "refused" ELSE "prefetch")
     /\ cpu_list' = IF given /\ ok
                    THEN [cpu_list EXCEPT ![p] = getCpusFromNumaNodes(nodes)] ELSE cpu_list
     /\ UNCHANGED <<options, result_dir, output_file_path, memory_size, there, output, bandwidth>>

\* rdmsr and wrmsr are BenchLifecycle's; either may fail.
Prefetch(p) ==
  /\ At(p, "prefetch", "membind") \/ (command[p].prefetch # Unset /\ At(p, "prefetch", "refused"))
  /\ UNCHANGED <<options, setup, there, output, bandwidth>>

Membind(p) ==
  LET node == command[p].membind
  IN /\ \/ At(p, "membind", IF node # Unset /\ node > MaxNode THEN "refused" ELSE "dir")
        \/ node # Unset /\ At(p, "membind", "refused")         \* numa_available() < 0
     /\ UNCHANGED <<options, setup, there, output, bandwidth>>

MakeResultDir(p) ==
  LET dir == IF command[p].result_dir # Unset THEN <<command[p].result_dir>> ELSE <<second>>
  IN /\ At(p, "dir", "path")
     /\ result_dir' = [result_dir EXCEPT ![p] = dir]
     /\ UNCHANGED <<options, cpu_list, output_file_path, memory_size, there, output, bandwidth>>

\* The clock is read once more for the file than for the directory.
NameOutputFile(p) ==
  /\ At(p, "path", "allocate")
  /\ output_file_path' = [output_file_path EXCEPT ![p] = Append(result_dir[p], second)]
  /\ UNCHANGED <<options, cpu_list, result_dir, memory_size, there, output, bandwidth>>

MibAsked(p) == command[p].threads * memory_per_thread_mib(command[p])
memory_to_use(p) == MibAsked(p)

\* Mutant: what an int cannot hold is cut off.
TotalCutOff(p) == {MibAsked(p) % (IntMax + 1)}

Wrapped(n) == ((n + IntMax + 1) % (2 * (IntMax + 1))) - (IntMax + 1)

\* total_memory_mib is an int: the product, or what it wraps to in its place.
Total(p) == IF MibAsked(p) <= IntMax THEN {MibAsked(p)} ELSE {MibAsked(p), Wrapped(MibAsked(p))}

\* open, mmap and numa_alloc_onnode fail, and are sure to for a negative size.
AllocationFails(p) ==
  /\ At(p, "allocate", "refused")
  /\ UNCHANGED <<options, setup, there, output, bandwidth>>

PagesOf(mib) == 0 .. mib * PagesPerMib - 1
BytesOf(mib) == mib * PagesPerMib * PageSize

\* MAP_POPULATE on a DevDAX device maps what is there; anonymous memory is not there
\* until it is written.
Allocate(p) ==
  /\ At(p, "allocate", "touch")
  /\ \E total \in Total(p) :
       /\ total >= 0
       /\ memory_size' = [memory_size EXCEPT ![p] = total]
       /\ there' = [there EXCEPT ![p] = IF command[p].devdax THEN PagesOf(total) ELSE {}]
  /\ UNCHANGED <<options, cpu_list, result_dir, output_file_path, output, bandwidth>>

\* Mutant: the threads of firstTouchData are left running.
PreTouchNotJoined(p) ==
  /\ At(p, "touch", "environment")
  /\ there' \in {there, [there EXCEPT ![p] = PagesOf(memory_size[p])]}
  /\ UNCHANGED <<options, setup, output, bandwidth>>

\* firstTouchData, with the threads that the tests will have.
PreTouch(p) ==
  /\ At(p, "touch", "environment")
  /\ there' = IF command[p].pre_touch
              THEN [there EXCEPT ![p] = @ \cup
                      {byte \div PageSize :
                         byte \in Touched(BytesOf(memory_size[p]), command[p].threads)}]
              ELSE there
  /\ UNCHANGED <<options, setup, output, bandwidth>>

WithFile(fs, path, content) == [q \in DOMAIN fs \cup {path} |-> IF q = path THEN content ELSE fs[q]]

\* environment.json is of the directory, the last run's there; without it the run goes on.
SaveEnvironment(p) ==
  LET c == command[p]
      json == [mode |-> c.mode, memory_type |-> IF c.devdax THEN "devdax" ELSE "numa"]
  IN /\ At(p, "environment", "check")
     /\ environment' \in {environment, WithFile(environment, result_dir[p], json)}
     /\ UNCHANGED <<options, setup, there, has_header, stream, files, bandwidth>>

Exists(path) == path \in DOMAIN files

HeaderOf(columns) == [kind |-> "header", columns |-> columns]
IsHeader(line) == line.kind = "header"

\* Whether the file is there decides the mode of fopen, its first line the header.
CheckFile(p) ==
  LET path == output_file_path[p]
  IN /\ At(p, "check", "open")
     /\ has_header' = [has_header EXCEPT ![p] =
                         Exists(path) /\ files[path] # <<>> /\ IsHeader(files[path][1])]
     /\ stream' = [stream EXCEPT ![p].mode = IF Exists(path) THEN "a" ELSE "w"]
     /\ UNCHANGED <<options, setup, there, files, environment, bandwidth>>

\* One column, or one call, after another, for each test whose flag is set.
Columns(order, c) ==
  LET cols[k \in 0 .. Len(order)] ==
        IF k = 0 THEN <<>>
        ELSE IF order[k] \in runs(c) THEN Append(cols[k - 1], order[k]) ELSE cols[k - 1]
  IN cols[Len(order)]

\* fopen with "w" empties the file; the header stays in the buffer.
OpenOutput(p) ==
  LET path == output_file_path[p]
  IN /\ At(p, "open", "test")
     /\ files' = IF stream[p].mode = "w" \/ ~Exists(path) THEN WithFile(files, path, <<>>) ELSE files
     /\ stream' = [stream EXCEPT ![p].buffer =
                     IF has_header[p] THEN <<>> ELSE <<HeaderOf(Columns(Tests, command[p]))>>]
     /\ UNCHANGED <<options, setup, there, has_header, environment, bandwidth>>

OutputFails(p) ==
  /\ At(p, "open", "refused")
  /\ UNCHANGED <<options, setup, there, output, bandwidth>>

\* What a test that cannot run returns.
Nothing == <<"none", 0>>

Left(p) == SelectSeq(Columns(Started, command[p]), LAMBDA t : bandwidth[p][t] = Unset)

\* A test that writes makes pages; pointer_chase writes its list, and needs the memory for it.
RunTest(p) ==
  /\ pc[p] = "test" /\ Left(p) # <<>>
  /\ LET test == Head(Left(p))
     IN /\ bandwidth' = [bandwidth EXCEPT ![p][test] =
             IF test = "pointer_chase" /\ memory_to_use(p) < ChaseMib
             THEN Nothing ELSE <<test, second>>]
        /\ there' = IF test \in Reads \/ bandwidth'[p][test] = Nothing THEN there
                    ELSE [there EXCEPT ![p] = @ \cup PagesOf(memory_to_use(p))]
  /\ UNCHANGED <<options, pc, setup, output>>

\* Mutant: the row is written in the order of the tests.
RowAsStarted(p) ==
  [kind |-> "row",
   values |-> [k \in DOMAIN Columns(Started, command[p]) |->
                 bandwidth[p][Columns(Started, command[p])[k]]]]

Row(p) ==
  [kind |-> "row",
   values |-> [k \in DOMAIN Columns(Tests, command[p]) |->
                 bandwidth[p][Columns(Tests, command[p])[k]]]]

\* What fflush writes: at the end with "a", else over what is at the beginning.
Flushed(lines, s) ==
  IF s.mode = "a" THEN lines \o s.buffer
  ELSE s.buffer \o SubSeq(lines, Len(s.buffer) + 1, Len(lines))

WriteRow(p) ==
  LET path == output_file_path[p]
      s == [stream[p] EXCEPT !.buffer = Append(@, Row(p))]
  IN /\ Left(p) = <<>>
     /\ At(p, "test", "free")
     /\ files' = WithFile(files, path, Flushed(files[path], s))
     /\ stream' = [stream EXCEPT ![p] = [mode |-> "closed", buffer |-> <<>>]]
     /\ UNCHANGED <<options, setup, there, has_header, environment, bandwidth>>

Free(p) ==
  /\ At(p, "free", "done")
  /\ there' = [there EXCEPT ![p] = {}]
  /\ UNCHANGED <<options, setup, output, bandwidth>>

Step(p) ==
  \/ ParseOptions(p) \/ Affinity(p) \/ Prefetch(p) \/ Membind(p)
  \/ MakeResultDir(p) \/ NameOutputFile(p)
  \/ AllocationFails(p) \/ Allocate(p) \/ PreTouch(p) \/ SaveEnvironment(p)
  \/ CheckFile(p) \/ OpenOutput(p) \/ OutputFails(p)
  \/ RunTest(p) \/ WriteRow(p) \/ Free(p)

Next == Tick \/ \E p \in Run : Step(p)

Spec == Init /\ [][Next]_vars

-----------------------------------------------------------------------------
(* Properties *)

Measuring(p) == pc[p] = "test"

\* What an int wraps to is negative, and so refused, up to 2^32 MiB; beyond, which no
\* machine has, it may be a small size and is taken.
Sensible(p) == MibAsked(p) < 2 * (IntMax + 1)

\* No test leaves the memory that was allocated, though the one is a product of ints
\* and the other of size_t (lines 577 and 819).
TestsFitTheMemory ==
  \A p \in Run : Measuring(p) /\ Sensible(p) => memory_to_use(p) <= memory_size[p]

\* With --pre-touch a read test finds every page of its memory there: it never measures
\* the kernel's zero page (lines 36-40, 680-697).
NextTestReads(p) == Measuring(p) /\ Left(p) # <<>> /\ Head(Left(p)) \in Reads
ReadsRealPages(p) == NextTestReads(p) => PagesOf(memory_to_use(p)) \subseteq there[p]
PreTouchIsHonest == \A p \in Run : command[p].pre_touch /\ Sensible(p) => ReadsRealPages(p)

\* Workers are pinned to the nodes asked for, and spread evenly over all CPUs of them,
\* in whatever order and however often the nodes are named (numa_affinity.cpp:12 "To avoid
\* duplicates").
WorkersOn(p, cpu) == Cardinality({t \in 0 .. command[p].threads - 1 : CpuOf(p, t) = cpu})

WorkersSpread ==
  \A p \in Run : Measuring(p) /\ cpu_list[p] # <<>> =>
    LET asked == UNION {CpusOf[n] : n \in Range(command[p].affinity)}
    IN /\ \A t \in 0 .. command[p].threads - 1 : CpuOf(p, t) \in asked
       /\ \A c, d \in asked : WorkersOn(p, c) <= WorkersOn(p, d) + 1

Finished(p) == pc[p] \in {"free", "done"}
Alone(p) == \A q \in Run \ {p} : result_dir[q] # result_dir[p]

\* What a run leaves in a directory of its own: a header and a row, with the value under
\* each column that was measured by the test the column names, and environment.json, if
\* it could be written, that says which tests.
RowMatchesHeader ==
  \A p \in Run : Finished(p) /\ Alone(p) =>
    LET lines == files[output_file_path[p]]
    IN /\ Len(lines) = 2 /\ Len(lines[2].values) = Len(lines[1].columns)
       /\ \A k \in DOMAIN lines[2].values :
            lines[2].values[k] = bandwidth[p][lines[1].columns[k]]
       /\ result_dir[p] \in DOMAIN environment =>
            Range(lines[1].columns) = UNION {Expanded(m) :
              m \in Range(modes(environment[result_dir[p]].mode))}

=============================================================================
