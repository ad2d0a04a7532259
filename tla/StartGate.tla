----------------------------- MODULE StartGate ------------------------------
(***************************************************************************)
(* The start gate of the read sweep (struct start_gate and gate_* of       *)
(* custom-test/test2-rdma-fin.c): the created readers gather at it, and    *)
(* main opens it for all of them at once, either when all N have come      *)
(* (gate_open) or, when creating a reader failed, when those that were     *)
(* created have (gate_open_after_created).                                 *)
(*                                                                         *)
(* The fields are only touched with mu held, so an action is one stretch   *)
(* from taking the mutex to releasing it or to pthread_cond_wait, which    *)
(* releases it.  Readers and main wait on the same condition variable;     *)
(* a wait may end without a broadcast.                                     *)
(***************************************************************************)
EXTENDS Naturals, FiniteSets

CONSTANT N          \* active_requests, 1 or more: the readers main wants to start

Reader == 0 .. N - 1

VARIABLES
  spawned,          \* readers 0 .. spawned - 1 have been created
  total, ready, open,
  at,               \* at[r]: reader r and the gate
  mainAt            \* main and the gate

gateVars == <<spawned, total, ready, open, at, mainAt>>

InitGate ==
  /\ spawned = 0
  /\ total = N
  /\ ready = 0
  /\ open = FALSE
  /\ at = [r \in Reader |-> "before"]
  /\ mainAt = "creating"

\* pthread_cond_broadcast: whoever is in pthread_cond_wait will take the mutex.
Woken(where) == IF where = "waiting" THEN "awake" ELSE where

-----------------------------------------------------------------------------
(* main *)

SpawnReader ==
  /\ mainAt = "creating"
  /\ spawned < N
  /\ spawned' = spawned + 1
  /\ UNCHANGED <<total, ready, open, at, mainAt>>

\* Open if as many as expected are ready, else wait for the last one's signal.
TryOpen(expected) ==
  IF ready < expected
  THEN /\ mainAt' = "waiting"
       /\ UNCHANGED <<open, at>>
  ELSE /\ open' = TRUE
       /\ at' = [r \in Reader |-> Woken(at[r])]
       /\ mainAt' = "through"

OpenGate ==
  /\ mainAt = "creating"
  /\ spawned = N
  /\ TryOpen(total)
  /\ UNCHANGED <<spawned, total, ready>>

OpenAfterCreated ==
  /\ mainAt = "creating"
  /\ spawned < N
  /\ total' = spawned
  /\ TryOpen(spawned)
  /\ UNCHANGED <<spawned, ready>>

MainWakes ==
  /\ mainAt = "awake"
  /\ TryOpen(total)
  /\ UNCHANGED <<spawned, total, ready>>

-----------------------------------------------------------------------------
(* gate_wait *)

Arriving(r, last) ==                \* broadcasts if r is the last-th
  /\ r < spawned
  /\ at[r] = "before"
  /\ ready' = ready + 1
  /\ LET here == IF open THEN "through" ELSE "waiting"
     IN at' = [q \in Reader |-> IF q = r THEN here
                                ELSE IF ready + 1 = last THEN Woken(at[q]) ELSE at[q]]
  /\ mainAt' = IF ready + 1 = last THEN Woken(mainAt) ELSE mainAt
  /\ UNCHANGED <<spawned, total, open>>

\* Count oneself in, and wake the others and main as the last of total; then
\* pass if the gate is open, else wait.
Arrive(r) == Arriving(r, total)

ReaderWakes(r) ==
  /\ at[r] = "awake"
  /\ at' = [at EXCEPT ![r] = IF open THEN "through" ELSE "waiting"]
  /\ UNCHANGED <<spawned, total, ready, open, mainAt>>

\* pthread_cond_wait may return spuriously.
SpuriousWakeup ==
  /\ \/ \E r \in Reader : at[r] = "waiting" /\ at' = [at EXCEPT ![r] = "awake"]
                          /\ UNCHANGED mainAt
     \/ mainAt = "waiting" /\ mainAt' = "awake" /\ UNCHANGED at
  /\ UNCHANGED <<spawned, total, ready, open>>

NextGate ==
  \/ SpawnReader \/ OpenGate \/ OpenAfterCreated \/ MainWakes
  \/ \E r \in Reader : Arrive(r) \/ ReaderWakes(r)
  \/ SpuriousWakeup

SpecGate == InitGate /\ [][NextGate]_gateVars

-----------------------------------------------------------------------------
(* Properties *)

Arrived == {r \in Reader : at[r] # "before"}

\* Type invariant.
GateTypeOK ==
  /\ spawned \in 0 .. N
  /\ total \in 0 .. N
  /\ ready \in 0 .. N
  /\ open \in BOOLEAN
  /\ at \in [Reader -> {"before", "waiting", "awake", "through"}]
  /\ mainAt \in {"creating", "waiting", "awake", "through"}

\* No reader is let through, and no timed block is read, before every reader
\* that was created is at the gate, on the failure path as well.
OpensForAllAtOnce ==
  open => \A r \in Reader : r < spawned => at[r] # "before"

\* A reader passes only an open gate.
NobodyThroughClosedGate ==
  (\E r \in Reader : at[r] = "through") => open

\* What makes them inductive: ready counts the readers at the gate, only created
\* ones are there, total is what main waits for once it stopped creating, and
\* the gate is open once main is through.
GateInv ==
  /\ ready = Cardinality(Arrived)
  /\ Arrived \subseteq 0 .. spawned - 1
  /\ mainAt = "creating" => total = N
  /\ mainAt # "creating" => total = spawned
  /\ open <=> mainAt = "through"
  /\ open => ready = total
  /\ NobodyThroughClosedGate
=============================================================================
