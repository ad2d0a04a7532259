---------------------------- MODULE PointerChase ----------------------------
(***************************************************************************)
(* measurePointerChaseWithLoad (benchmark.cpp): one thread chases pointers *)
(* through a shuffled circular list and is timed step by step, while load  *)
(* threads read or write, each in a partition of the memory behind the     *)
(* list, until the chase is over.                                          *)
(*                                                                         *)
(* Memory is counted in int32s: a node has NodeInts, a vector access       *)
(* VectorInts of them.  The shuffle may produce any order.  The affinity   *)
(* of the threads and the injected delay change nothing but time.          *)
(***************************************************************************)
EXTENDS Integers, Sequences, FiniteSetsExt, Folds

CONSTANTS
  NumNodes,             \* nodes in CHASE_SIZE_BYTES
  NodeInts, VectorInts, \* NODE_SIZE and a 32-byte access, in int32s
  Warmup, NumSamples,   \* WARMUP_SAMPLES, NUM_SAMPLES
  NumLoad,              \* num_load_threads
  ChaseSizes,           \* the memory sizes considered, in int32s
  MaxNode,              \* numa_max_node()
  NoMembind,            \* membind_node, where no node was asked for
  MaxAccesses           \* bound on what a load thread counts, for model checking

ASSUME ChaseAssumption ==
  /\ {NumNodes, NodeInts, VectorInts, NumSamples, NumLoad} \subseteq Nat \ {0}
  /\ {Warmup, MaxNode, MaxAccesses} \subseteq Nat
  /\ ChaseSizes \subseteq Nat /\ NoMembind \notin Nat

Node == 0 .. NumNodes - 1
Load == 0 .. NumLoad - 1
ChaseInts == NumNodes * NodeInts
Unset == NumNodes                       \* a link that was not written

VARIABLES
  size, membind_node,                   \* the arguments
  caller, aux_node, allocator, indices,
  next_node,                            \* what a node of the chase region points to
  start_flag, stop_flag, ready_count,
  chase, current, latency_buffer, trail,  \* trail: history of the nodes visited
  load, loadOffset, bytes_accessed, load_thread_bytes,
  total_bytes

setup == <<aux_node, allocator, indices, next_node>>
args == <<size, membind_node>>
chasing == <<chase, current, latency_buffer, trail>>
loading == <<load, loadOffset, bytes_accessed, load_thread_bytes>>
chaseVars ==
  <<args, caller, setup, start_flag, stop_flag, ready_count, chasing, loading, total_bytes>>

InitChase ==
  /\ size \in ChaseSizes /\ membind_node \in 0 .. MaxNode \cup {NoMembind}
  /\ caller = "size" /\ aux_node = NoMembind /\ allocator = "none" /\ indices = <<>>
  /\ next_node = [n \in Node |-> Unset]
  /\ start_flag = FALSE /\ stop_flag = FALSE /\ ready_count = 0
  /\ chase = "none" /\ current = 0 /\ latency_buffer = 0 /\ trail = <<>>
  /\ load = [t \in Load |-> "none"]
  /\ loadOffset = [t \in Load |-> 0] /\ bytes_accessed = [t \in Load |-> 0]
  /\ load_thread_bytes = [t \in Load |-> 0] /\ total_bytes = 0

load_size == size - ChaseInts
total_ints == load_size \div NumLoad
-----------------------------------------------------------------------------
(* The calling thread *)

CheckSize ==
  /\ caller = "size"
  /\ caller' = IF size < ChaseInts THEN "refused" ELSE "aux"
  /\ UNCHANGED <<args, setup, start_flag, stop_flag, ready_count, chasing, loading, total_bytes>>

\* The first node that is not the one the data is on, if there is one.
FindAuxNode ==
  LET others == 0 .. MaxNode \ {membind_node}
  IN /\ caller = "aux" /\ caller' = "alloc"
     /\ aux_node' = IF membind_node = NoMembind \/ others = {}
                    THEN NoMembind ELSE Min(others)
     /\ UNCHANGED <<args, allocator, indices, next_node, start_flag, stop_flag, ready_count,
                    chasing, loading, total_bytes>>

\* numa_alloc_onnode may return NULL; then, or without another node, malloc.
AllocIndices ==
  /\ caller = "alloc" /\ caller' = "shuffle"
  /\ allocator' \in IF aux_node = NoMembind THEN {"malloc"} ELSE {"numa", "malloc"}
  /\ UNCHANGED <<args, aux_node, indices, next_node, start_flag, stop_flag, ready_count,
                 chasing, loading, total_bytes>>

Orders == {p \in [1 .. NumNodes -> Node] : \A i, j \in 1 .. NumNodes : p[i] = p[j] => i = j}

Shuffle ==
  /\ caller = "shuffle" /\ caller' = "build"
  /\ indices' \in Orders
  /\ UNCHANGED <<args, aux_node, allocator, next_node, start_flag, stop_flag, ready_count,
                 chasing, loading, total_bytes>>

\* Mutant: node i points to indices[i]: a shuffle, but of as many cycles as it has.
ManyCycles(n) == indices[n + 1]

\* Where node n points to: the one after it in indices, which is taken as a circle.
Successor(n) ==
  LET i == CHOOSE k \in 1 .. NumNodes : indices[k] = n
  IN indices[(i % NumNodes) + 1]

BuildList ==
  /\ caller = "build" /\ caller' = "spawn"
  /\ next_node' = [n \in Node |-> Successor(n)]
  /\ chase' = "begin"
  /\ UNCHANGED <<args, aux_node, allocator, indices, start_flag, stop_flag, ready_count,
                 current, latency_buffer, trail, loading, total_bytes>>

SpawnLoad(t) ==
  /\ caller = "spawn" /\ load[t] = "none" /\ \A u \in 0 .. t - 1 : load[u] # "none"
  /\ load' = [load EXCEPT ![t] = "begin"]
  /\ caller' = IF t = NumLoad - 1 THEN "wait" ELSE caller
  /\ UNCHANGED <<args, setup, start_flag, stop_flag, ready_count, chasing,
                 loadOffset, bytes_accessed, load_thread_bytes, total_bytes>>

\* Mutant: the measurement thread is forgotten in the count of the threads.
WaitsForLoadsOnly ==
  /\ caller = "wait" /\ ready_count >= NumLoad
  /\ start_flag' = TRUE /\ caller' = "join"
  /\ UNCHANGED <<args, setup, stop_flag, ready_count, chasing, loading, total_bytes>>

StartAll ==
  /\ caller = "wait" /\ ready_count >= NumLoad + 1
  /\ start_flag' = TRUE /\ caller' = "join"
  /\ UNCHANGED <<args, setup, stop_flag, ready_count, chasing, loading, total_bytes>>

JoinThreads ==
  /\ caller = "join" /\ chase = "done" /\ \A t \in Load : load[t] = "done"
  /\ caller' = "total"
  /\ UNCHANGED <<args, setup, start_flag, stop_flag, ready_count, chasing, loading, total_bytes>>

Total ==
  /\ caller = "total" /\ caller' = "free"
  /\ total_bytes' = MapThenSumSet(LAMBDA t : load_thread_bytes[t], Load)
  /\ UNCHANGED <<args, setup, start_flag, stop_flag, ready_count, chasing, loading>>

\* numa_free or free, by aux_node, not by where the memory came from.
FreeIndices ==
  /\ caller = "free"
  /\ caller' = IF aux_node # NoMembind THEN "numa_freed" ELSE "freed"
  /\ UNCHANGED <<args, setup, start_flag, stop_flag, ready_count, chasing, loading, total_bytes>>

CallerStep ==
  \/ CheckSize \/ FindAuxNode \/ AllocIndices \/ Shuffle \/ BuildList
  \/ (\E t \in Load : SpawnLoad(t))
  \/ StartAll \/ JoinThreads \/ Total \/ FreeIndices

-----------------------------------------------------------------------------
(* The measurement thread *)

ChaseReady ==
  /\ chase = "begin" /\ chase' = "ready"
  /\ ready_count' = ready_count + 1
  /\ UNCHANGED <<args, caller, setup, start_flag, stop_flag, current, latency_buffer, trail,
                 loading, total_bytes>>

SeeStart ==
  /\ chase = "ready" /\ start_flag
  /\ chase' = "chase" /\ current' = 0
  /\ UNCHANGED <<args, caller, setup, start_flag, stop_flag, ready_count, latency_buffer, trail,
                 loading, total_bytes>>

\* One load: the trail has one entry for each iteration done.
Follow ==
  /\ chase = "chase" /\ Len(trail) < Warmup + NumSamples
  /\ current' = next_node[current]
  /\ trail' = Append(trail, current)
  /\ latency_buffer' = IF Len(trail) >= Warmup THEN latency_buffer + 1 ELSE latency_buffer
  /\ UNCHANGED <<args, caller, setup, start_flag, stop_flag, ready_count, chase, loading,
                 total_bytes>>

\* Mutant: the stop is only for the builds that measure latency.
EndWithoutStop ==
  /\ chase = "chase" /\ Len(trail) = Warmup + NumSamples
  /\ chase' = "done"
  /\ UNCHANGED <<args, caller, setup, start_flag, stop_flag, ready_count, current, latency_buffer,
                 trail, loading, total_bytes>>

\* stop_flag, then collectLatencyBuffers, which nobody else uses meanwhile.
StopLoads ==
  /\ chase = "chase" /\ Len(trail) = Warmup + NumSamples
  /\ stop_flag' = TRUE /\ chase' = "done"
  /\ UNCHANGED <<args, caller, setup, start_flag, ready_count, current, latency_buffer, trail,
                 loading, total_bytes>>

ChaseStep == ChaseReady \/ SeeStart \/ Follow \/ StopLoads

-----------------------------------------------------------------------------
(* Load thread t *)

LoadReady(t) ==
  /\ load[t] = "begin"
  /\ load' = [load EXCEPT ![t] = "ready"]
  /\ ready_count' = ready_count + 1
  /\ UNCHANGED <<args, caller, setup, start_flag, stop_flag, chasing,
                 loadOffset, bytes_accessed, load_thread_bytes, total_bytes>>

LoadSeesStart(t) ==
  /\ load[t] = "ready" /\ start_flag
  /\ load' = [load EXCEPT ![t] = "load"]
  /\ UNCHANGED <<args, caller, setup, start_flag, stop_flag, ready_count, chasing,
                 loadOffset, bytes_accessed, load_thread_bytes, total_bytes>>

\* Mutant: the end of the partition is passed by one access before the wrap.
WrapsLate(o) == IF o > total_ints THEN 0 ELSE o

Wrapped(o) == IF o >= total_ints THEN 0 ELSE o

\* The access is made before the offset is looked at.
LoadAccess(t) ==
  /\ load[t] = "load" /\ ~stop_flag
  /\ bytes_accessed[t] < MaxAccesses * VectorInts
  /\ bytes_accessed' = [bytes_accessed EXCEPT ![t] = @ + VectorInts]
  /\ loadOffset' = [loadOffset EXCEPT ![t] = Wrapped(@ + VectorInts)]
  /\ UNCHANGED <<args, caller, setup, start_flag, stop_flag, ready_count, chasing,
                 load, load_thread_bytes, total_bytes>>

LoadStops(t) ==
  /\ load[t] = "load" /\ stop_flag
  /\ load' = [load EXCEPT ![t] = "done"]
  /\ load_thread_bytes' = [load_thread_bytes EXCEPT ![t] = bytes_accessed[t]]
  /\ UNCHANGED <<args, caller, setup, start_flag, stop_flag, ready_count, chasing,
                 loadOffset, bytes_accessed, total_bytes>>

LoadStep(t) == LoadReady(t) \/ LoadSeesStart(t) \/ LoadAccess(t) \/ LoadStops(t)

NextChase == CallerStep \/ ChaseStep \/ \E t \in Load : LoadStep(t)

\* Every thread is scheduled, and join returns when its thread has ended.
ChaseFairness ==
  /\ WF_chaseVars(CallerStep) /\ WF_chaseVars(ChaseStep)
  /\ \A t \in Load : WF_chaseVars(LoadStep(t))

SpecChase == InitChase /\ [][NextChase]_chaseVars /\ ChaseFairness

-----------------------------------------------------------------------------
(* Properties *)

\* Build (lines 1383-1390) makes one circle: the chase meets every node once before it
\* meets one again, so the cache never shortens it.
ChaseVisitsAll ==
  \A i, j \in DOMAIN trail : trail[i] = trail[j] => (j - i) % NumNodes = 0

\* No latency is taken while a load thread is still setting up, or after one has stopped
\* (lines 1414-1449, 1549-1566).
PressureThroughout ==
  chase = "chase" => ready_count = NumLoad + 1 /\ \A t \in Load : load[t] \in {"ready", "load"}

\* The next access of load thread t, in int32s from the start of the memory.
AccessOf(t) ==
  LET from == ChaseInts + t * total_ints + loadOffset[t] IN from .. from + VectorInts - 1

\* What load thread t may touch: its partition, rounded up to whole accesses, of which
\* there is always one.
Reach(t) ==
  LET from == ChaseInts + t * total_ints
      accesses == IF total_ints > 0 THEN (total_ints + VectorInts - 1) \div VectorInts ELSE 1
  IN from .. from + accesses * VectorInts - 1

\* A load thread leaves the list and the other threads' memory alone but for the rest of
\* its last access: a partition that the access divides is never left, any other by less
\* than an access, an empty one by an access (lines 1474-1477, 1495-1534).
LoadStaysInPartition == \A t \in Load : load[t] = "load" => AccessOf(t) \subseteq Reach(t)

\* benchmark.cpp:1313 "Error: Memory size (%zu bytes) is less than required chase size
\* (2GB)": with the memory required, no thread touches what is behind it.
AccessesStayInMemory == \A t \in Load : load[t] = "load" => AccessOf(t) \subseteq 0 .. size - 1

\* The call returns: the fixed number of steps ends, and the stop reaches every thread.
Returns == <>(caller \in {"refused", "freed", "numa_freed"})

=============================================================================
