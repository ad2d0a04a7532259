------------------------------ MODULE BenchRun ------------------------------
(***************************************************************************)
(* The multi-threaded bandwidth tests of the benchmark (measure* of        *)
(* src/benchmark.cpp) as main.cpp runs them one after another: N worker    *)
(* threads prepare their partition, meet at a ready/start barrier, access  *)
(* it and hand in their trace and latency samples; a monitor thread prints *)
(* the progress the workers report every U accesses; main joins, stops the *)
(* monitor and saves what was collected.                                   *)
(*                                                                         *)
(* All measure* functions share this protocol; they differ in the order of *)
(* the accesses, which is not modelled here, and in whether latencies are  *)
(* sampled.  The build is the one with tracing and latency measurement.    *)
(***************************************************************************)
EXTENDS Naturals, Sequences, FiniteSetsExt

CONSTANTS
  N,                \* num_threads
  Ops,              \* accesses per worker and test
  U,                \* UPDATE_INTERVAL
  Order             \* the tests of the run, in order

ASSUME BenchAssumption ==
  /\ N \in Nat \ {0}
  /\ Ops \in Nat
  /\ U \in Nat \ {0}
  /\ Order \in Seq(STRING)

Thread == 1 .. N

\* The tests that sample latencies (and clear the samples before, save them after).
Sampled == {"seq_read", "random_read", "zipfian_read"}

VARIABLES
  testNo,           \* index in Order of the current test
  main,             \* where main is
  worker,           \* worker[t]: where worker t of the current test is
  ops,              \* ops[t]: accesses it made
  local_bytes,      \* local[t]: accesses not yet reported (local_bytes)
  readyCount, startFlag,
  bytes,            \* bytes_processed_, in accesses
  monitor, stopFlag,
  finalPrint,       \* what the monitor printed last
  traces,           \* global_trace_buffers: one record per collected buffer
  latencies,        \* global_latencies: the same
  saved             \* saved[k]: what the files of test k hold

workers == <<worker, ops, local_bytes>>
barrier == <<readyCount, startFlag>>
progress == <<bytes, monitor, stopFlag, finalPrint>>
collected == <<traces, latencies>>
runVars == <<testNo, main, workers, barrier, progress, collected, saved>>

Each(v) == [t \in Thread |-> v]

InitRun ==
  /\ testNo = 1
  /\ main = "clear"
  /\ worker = Each("none")
  /\ ops = Each(0)
  /\ local_bytes = Each(0)
  /\ readyCount = 0
  /\ startFlag = FALSE
  /\ bytes = 0
  /\ monitor = "none"
  /\ stopFlag = FALSE
  /\ finalPrint = 0
  /\ traces = {}
  /\ latencies = {}
  /\ saved = <<>>

-----------------------------------------------------------------------------
(* main thread *)

\* measure* has flags, counters and a progress monitor of its own.
FreshTest(ready) ==
  /\ worker' = Each("none")
  /\ ops' = Each(0)
  /\ local_bytes' = Each(0)
  /\ readyCount' = ready
  /\ startFlag' = FALSE
  /\ bytes' = 0
  /\ monitor' = "none"
  /\ stopFlag' = FALSE
  /\ finalPrint' = 0
  /\ main' = "spawn"

\* Mutant: the trace buffers are not cleared.
ClearBuffersKeepsTraces ==
  /\ main = "clear"
  /\ testNo <= Len(Order)
  /\ latencies' = IF Order[testNo] \in Sampled THEN {} ELSE latencies
  /\ FreshTest(0)
  /\ UNCHANGED <<testNo, saved, traces>>

\* clearTraceBuffers, and clearLatencyBuffers before a test that samples; then
\* measure* is entered.
ClearBuffers ==
  /\ main = "clear"
  /\ testNo <= Len(Order)
  /\ traces' = {}
  /\ latencies' = IF Order[testNo] \in Sampled THEN {} ELSE latencies
  /\ FreshTest(0)
  /\ UNCHANGED <<testNo, saved>>

SpawnWorker(t) ==
  /\ main = "spawn"
  /\ worker[t] = "none"
  /\ \A s \in Thread : s < t => worker[s] # "none"
  /\ worker' = [worker EXCEPT ![t] = "prepare"]
  /\ main' = IF t = N THEN "await" ELSE "spawn"
  /\ UNCHANGED <<testNo, ops, local_bytes, barrier, progress, collected, saved>>

\* Mutant: the barrier is one short.
StartMonitorEarly ==
  /\ main = "await"
  /\ readyCount >= N - 1
  /\ monitor' = "check"
  /\ main' = "start"
  /\ UNCHANGED <<testNo, workers, barrier, bytes, stopFlag, finalPrint, collected, saved>>

\* Everybody is ready: take the start time and start the monitor.
StartMonitor ==
  /\ main = "await"
  /\ readyCount >= N
  /\ monitor' = "check"
  /\ main' = "start"
  /\ UNCHANGED <<testNo, workers, barrier, bytes, stopFlag, finalPrint, collected, saved>>

RaiseStartFlag ==
  /\ main = "start"
  /\ startFlag' = TRUE
  /\ main' = "join"
  /\ UNCHANGED <<testNo, workers, readyCount, progress, collected, saved>>

JoinWorkers ==
  /\ main = "join"
  /\ \A t \in Thread : worker[t] = "exit"
  /\ main' = "stop"
  /\ UNCHANGED <<testNo, workers, barrier, progress, collected, saved>>

\* Mutant: the monitor is joined without having been told to stop.
StopMonitorUntold ==
  /\ main = "stop"
  /\ main' = "joinMonitor"
  /\ UNCHANGED <<testNo, workers, barrier, progress, collected, saved>>

\* progress.stop(): raise the flag and join the monitor.
StopMonitor ==
  /\ main = "stop"
  /\ stopFlag' = TRUE
  /\ main' = "joinMonitor"
  /\ UNCHANGED <<testNo, workers, barrier, bytes, monitor, finalPrint, collected, saved>>

\* Mutant: progress.stop() does not join.
SaveBesideMonitor ==
  /\ main = "joinMonitor"
  /\ saved' = Append(saved, [trace |-> traces,
                             latency |-> IF Order[testNo] \in Sampled THEN latencies ELSE {}])
  /\ testNo' = testNo + 1
  /\ main' = "clear"
  /\ UNCHANGED <<workers, barrier, progress, collected>>

\* The test is measured: save the trace, and the latencies if it samples them.
SaveResults ==
  /\ main = "joinMonitor"
  /\ monitor = "exit"
  /\ saved' = Append(saved, [trace |-> traces,
                             latency |-> IF Order[testNo] \in Sampled THEN latencies ELSE {}])
  /\ testNo' = testNo + 1
  /\ main' = "clear"
  /\ UNCHANGED <<workers, barrier, progress, collected>>

-----------------------------------------------------------------------------
(* worker threads *)

Move(t, from, to) ==
  /\ worker[t] = from
  /\ worker' = [worker EXCEPT ![t] = to]

\* Pinned, buffers reserved, partition flushed and indices shuffled: report ready.
ReportReady(t) ==
  /\ Move(t, "prepare", "spin")
  /\ readyCount' = readyCount + 1
  /\ UNCHANGED <<testNo, main, ops, local_bytes, startFlag, progress, collected, saved>>

SeeStartFlag(t) ==
  /\ Move(t, "spin", "access")
  /\ startFlag
  /\ UNCHANGED <<testNo, main, ops, local_bytes, barrier, progress, collected, saved>>

\* Mutant: local_bytes is not reset after a report.
AccessKeepsLocal(t) ==
  /\ worker[t] = "access"
  /\ ops[t] < Ops
  /\ ops' = [ops EXCEPT ![t] = @ + 1]
  /\ local_bytes' = [local_bytes EXCEPT ![t] = @ + 1]
  /\ bytes' = IF (ops[t] + 1) % U = 0 THEN bytes + local_bytes[t] + 1 ELSE bytes
  /\ UNCHANGED <<testNo, main, worker, barrier, monitor, stopFlag, finalPrint, collected, saved>>

\* One access; every U-th one reports the bytes since the last report.
Access(t) ==
  /\ worker[t] = "access"
  /\ ops[t] < Ops
  /\ ops' = [ops EXCEPT ![t] = @ + 1]
  /\ IF (ops[t] + 1) % U = 0
     THEN /\ bytes' = bytes + local_bytes[t] + 1
          /\ local_bytes' = [local_bytes EXCEPT ![t] = 0]
     ELSE /\ local_bytes' = [local_bytes EXCEPT ![t] = @ + 1]
          /\ bytes' = bytes
  /\ UNCHANGED <<testNo, main, worker, barrier, monitor, stopFlag, finalPrint, collected, saved>>

\* The loop is over: report the rest.
ReportRest(t) ==
  /\ Move(t, "access", "collect")
  /\ ops[t] >= Ops
  /\ bytes' = bytes + local_bytes[t]
  /\ local_bytes' = [local_bytes EXCEPT ![t] = 0]
  /\ UNCHANGED <<testNo, main, ops, barrier, monitor, stopFlag, finalPrint, collected, saved>>

\* A buffer: whose it is, and how many accesses the worker had made by then.
Samples(t) == [test |-> testNo, thread |-> t, made |-> ops[t]]

\* collectTraceBuffer and, where the test samples, collectLatencyBuffers.
Collect(t) ==
  /\ Move(t, "collect", "exit")
  /\ traces' = traces \cup {Samples(t)}
  /\ latencies' = IF Order[testNo] \in Sampled THEN latencies \cup {Samples(t)} ELSE latencies
  /\ UNCHANGED <<testNo, main, ops, local_bytes, barrier, progress, saved>>

-----------------------------------------------------------------------------
(* monitor thread: while (!stop_flag) { print; sleep }; print *)

MonitorSleep ==
  /\ monitor = "check" /\ ~stopFlag
  /\ monitor' = "sleep"
  /\ UNCHANGED <<testNo, main, workers, barrier, bytes, stopFlag, finalPrint, collected, saved>>

MonitorWake ==
  /\ monitor = "sleep"
  /\ monitor' = "check"
  /\ UNCHANGED <<testNo, main, workers, barrier, bytes, stopFlag, finalPrint, collected, saved>>

MonitorLastPrint ==
  /\ monitor = "check" /\ stopFlag
  /\ finalPrint' = bytes
  /\ monitor' = "exit"
  /\ UNCHANGED <<testNo, main, workers, barrier, bytes, stopFlag, collected, saved>>

-----------------------------------------------------------------------------

MainStep ==
  \/ ClearBuffers
  \/ \E t \in Thread : SpawnWorker(t)
  \/ StartMonitor \/ RaiseStartFlag \/ JoinWorkers \/ StopMonitor \/ SaveResults

WorkerStep(t) ==
  ReportReady(t) \/ SeeStartFlag(t) \/ Access(t) \/ ReportRest(t) \/ Collect(t)

MonitorStep == MonitorSleep \/ MonitorWake \/ MonitorLastPrint

NextRun ==
  \/ MainStep
  \/ \E t \in Thread : WorkerStep(t)
  \/ MonitorStep

SpecRun == InitRun /\ [][NextRun]_runVars

\* The spin loops yield, so every thread gets to run.
RunFairness ==
  /\ WF_runVars(MainStep)
  /\ \A t \in Thread : WF_runVars(WorkerStep(t))
  /\ WF_runVars(MonitorStep)

FairSpecRun == SpecRun /\ RunFairness

-----------------------------------------------------------------------------
(* Properties *)

Buffer == [test : 1 .. Len(Order), thread : Thread, made : 0 .. Ops]

\* Type invariant.
RunTypeOK ==
  /\ testNo \in 1 .. Len(Order) + 1
  /\ main \in {"clear", "spawn", "await", "start", "join", "stop", "joinMonitor"}
  /\ worker \in [Thread -> {"none", "prepare", "spin", "access", "collect", "exit"}]
  /\ ops \in [Thread -> 0 .. Ops]
  /\ local_bytes \in [Thread -> Nat]
  /\ readyCount \in 0 .. N
  /\ startFlag \in BOOLEAN
  /\ bytes \in Nat
  /\ monitor \in {"none", "check", "sleep", "exit"}
  /\ stopFlag \in BOOLEAN
  /\ finalPrint \in Nat
  /\ traces \subseteq Buffer
  /\ latencies \subseteq Buffer
  /\ saved \in Seq([trace : SUBSET Buffer, latency : SUBSET Buffer])

\* No access is timed while a worker still pins, flushes its cache lines or
\* shuffles: the first access comes after the last ready.
NoAccessWhilePreparing ==
  (\E t \in Thread : ops[t] > 0) => \A t \in Thread : worker[t] \notin {"none", "prepare"}

\* Every access is reported once: none is lost with local_bytes between two reports,
\* none is reported twice; and the last progress line is printed after the last report,
\* so it counts every access of the test.
Reported(t) == ops[t] - local_bytes[t]

ProgressIsExact ==
  /\ bytes = MapThenSumSet(Reported, Thread)
  /\ monitor = "exit" => finalPrint = N * Ops

\* The files of a test hold every worker's buffer of that test, handed in after
\* its last access, and nothing of the tests before it.
SavedAreOwnAndComplete ==
  \A k \in 1 .. Len(saved) :
    LET own == {[test |-> k, thread |-> t, made |-> Ops] : t \in Thread}
    IN /\ saved[k].trace = own
       /\ saved[k].latency = IF Order[k] \in Sampled THEN own ELSE {}

\* clearTraceBuffers and the save functions need no lock: main uses the global
\* buffers only when no worker or monitor of the test is left.
MainAloneWithBuffers ==
  [][ main = "clear" \/ saved' # saved =>
        /\ \A t \in Thread : worker[t] \in {"none", "exit"}
        /\ monitor \in {"none", "exit"} ]_runVars

\* Every test of the run is measured and saved.
RunCompletes == <>(Len(saved) = Len(Order))
=============================================================================
