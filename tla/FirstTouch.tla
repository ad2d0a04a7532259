----------------------------- MODULE FirstTouch -----------------------------
(***************************************************************************)
(* firstTouchData (main_patched.cpp): num_threads threads write one byte   *)
(* for each page of their share of the data, the last one of what the      *)
(* division leaves over too.  The data begins on a page boundary; the      *)
(* shares need not.  A byte is its offset from data.                       *)
(***************************************************************************)
EXTENDS Integers

CONSTANT PageSize               \* kPageSize

ASSUME PageAssumption == PageSize \in Nat \ {0}

Share(size, num_threads) == size \div num_threads
base(size, num_threads, t) == t * Share(size, num_threads)

per_thread(size, num_threads, t) ==
  IF t = num_threads - 1 THEN size - t * Share(size, num_threads) ELSE Share(size, num_threads)

\* The loop of thread t: off is 0, PageSize, 2 * PageSize, ... below per_thread.
TouchedBy(size, num_threads, t) ==
  LET n == per_thread(size, num_threads, t)
  IN {base(size, num_threads, t) + k * PageSize : k \in {j \in 0 .. n : j * PageSize < n}}

\* What firstTouchData has written when it has joined its threads.
Touched(size, num_threads) ==
  UNION {TouchedBy(size, num_threads, t) : t \in 0 .. num_threads - 1}
=============================================================================
