-------------------------- MODULE MCBenchLifecycle --------------------------
(* Two CPUs, so that a wrmsr can be between them, with registers that may    *)
(* differ, hold what --prefetch will write, or a value of their own.         *)
EXTENDS BenchLifecycle
=============================================================================
