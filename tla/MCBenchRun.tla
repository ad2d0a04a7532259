----------------------------- MODULE MCBenchRun -----------------------------
(* Three workers and three tests, so that a testNo that samples latencies comes  *)
(* before and after one that does not; three accesses with a report every    *)
(* second, so that a worker has a rest to report.                            *)
EXTENDS BenchRun

MCOrder == <<"seq_read", "seq_write", "random_read">>
=============================================================================
