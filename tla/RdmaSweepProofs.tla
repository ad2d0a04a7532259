-------------------------- MODULE RdmaSweepProofs ---------------------------
(***************************************************************************)
(* For every number of requests and blocks, on every path through          *)
(* run_one_sweep: one owner per request, reads that start together, a      *)
(* complete report, no thread joined twice, nothing freed too early.       *)
(*                                                                         *)
(* The sweep drives the gate by StartGate's own actions (SweepDrivesGate), *)
(* so what the first part shows of the gate holds in the sweep.  The       *)
(* inductive invariant SweepInv adds where each thread and each request    *)
(* is; there is one lemma per conjunct, with one step per action, or group *)
(* of actions, that can disturb it.                                        *)
(***************************************************************************)
EXTENDS RdmaSweep, FiniteSetTheorems, TLAPS

USE SweepAssumption DEF Reader, Gate!Reader

-----------------------------------------------------------------------------
(* The gate *)

GateSafe == Gate!GateTypeOK /\ Gate!GateInv

\* The instance counts like the library.
LEMMA SameCount == \A S : Gate!Cardinality(S) = Cardinality(S)
  BY Zenon DEF Gate!Cardinality, Cardinality, Gate!IsFiniteSet, IsFiniteSet

\* Arrived is finite; with one reader more it counts one more.
LEMMA ArrivedFinite ==
  IsFiniteSet(Gate!Arrived) /\ Cardinality(Gate!Arrived) \in Nat
  <1>1. IsFiniteSet(0 .. N - 1)
    BY FS_Interval
  <1> QED
    BY <1>1, FS_Subset, FS_CardinalityType DEF Gate!Arrived

\* As many readers at the gate as were created means all of them; there are
\* never more.
LEMMA AllOfThem ==
  ASSUME NEW k \in Nat, NEW S \in SUBSET (0 .. k - 1)
  PROVE  /\ Cardinality(S) <= k
         /\ Cardinality(S) = k => S = 0 .. k - 1
  <1>1. /\ IsFiniteSet(0 .. k - 1)
        /\ Cardinality(0 .. k - 1) = k
    BY FS_Interval
  <1> QED
    BY <1>1, FS_Subset

\* A gate that is open has every created reader at it.
LEMMA OpenMeansAll == GateSafe => Gate!OpensForAllAtOnce
  <1> SUFFICES ASSUME GateSafe, open, NEW r \in Gate!Reader, r < spawned
               PROVE  at[r] # "before"
    BY DEF Gate!OpensForAllAtOnce
  <1>1. Cardinality(Gate!Arrived) = spawned
    BY SameCount DEF GateSafe, Gate!GateTypeOK, Gate!GateInv
  <1>2. Gate!Arrived = 0 .. spawned - 1
    BY <1>1, AllOfThem DEF GateSafe, Gate!GateTypeOK, Gate!GateInv
  <1> QED
    BY <1>2 DEF GateSafe, Gate!GateTypeOK, Gate!Arrived

-----------------------------------------------------------------------------

LEMMA GateInit == Gate!InitGate => GateSafe
  <1> SUFFICES ASSUME Gate!InitGate
               PROVE  GateSafe
    OBVIOUS
  <1>1. Gate!Arrived = {}
    BY DEF Gate!InitGate, Gate!Arrived
  <1>2. Gate!GateTypeOK
    <2>1. spawned \in 0 .. N /\ total \in 0 .. N /\ ready \in 0 .. N
      BY DEF Gate!InitGate
    <2>2. at \in [Gate!Reader -> {"before", "waiting", "awake", "through"}]
      BY DEF Gate!InitGate
    <2>3. open \in BOOLEAN /\ mainAt \in {"creating", "waiting", "awake", "through"}
      BY DEF Gate!InitGate
    <2> QED
      BY <2>1, <2>2, <2>3 DEF Gate!GateTypeOK
  <1>3. Gate!GateInv
    BY <1>1, FS_EmptySet, SameCount DEF Gate!InitGate, Gate!GateInv, Gate!NobodyThroughClosedGate
  <1> QED
    BY <1>2, <1>3 DEF GateSafe

\* A step after which the same readers are at the gate keeps the count.
LEMMA SameAtGate ==
  ASSUME GateSafe, \A r \in Gate!Reader : at'[r] = "before" <=> at[r] = "before"
  PROVE  Gate!Arrived' = Gate!Arrived
  BY DEF Gate!Arrived

LEMMA GateSpawn ==
  ASSUME GateSafe, Gate!SpawnReader
  PROVE  GateSafe'
  <1> USE DEF GateSafe, Gate!SpawnReader
  <1>1. Gate!Arrived' = Gate!Arrived
    BY DEF Gate!Arrived
  <1>2. Gate!GateTypeOK'
    BY DEF Gate!GateTypeOK
  <1>3. Gate!GateInv'
    BY <1>1 DEF Gate!GateInv, Gate!GateTypeOK, Gate!NobodyThroughClosedGate
  <1> QED
    BY <1>2, <1>3

\* Opening, or going on waiting, with total and expected at the created readers.
LEMMA GateTryOpen ==
  ASSUME GateSafe, mainAt \in {"creating", "awake"}, total' = spawned, Gate!TryOpen(total'),
         UNCHANGED <<spawned, ready>>
  PROVE  GateSafe'
  <1> USE DEF GateSafe, Gate!TryOpen
  <1>1. at' \in [Gate!Reader -> {"before", "waiting", "awake", "through"}]
    BY DEF Gate!GateTypeOK, Gate!Woken
  <1>2. \A r \in Gate!Reader : at'[r] = "before" <=> at[r] = "before"
    BY DEF Gate!GateTypeOK, Gate!Woken
  <1>3. Gate!Arrived' = Gate!Arrived
    BY <1>2, SameAtGate
  <1>4. Gate!GateTypeOK'
    BY <1>1 DEF Gate!GateTypeOK
  <1>5. ready <= spawned
    BY AllOfThem, SameCount DEF Gate!GateTypeOK, Gate!GateInv
  <1>6. Gate!GateInv'
    <2>1. /\ ready' = Cardinality(Gate!Arrived')
          /\ Gate!Arrived' \subseteq 0 .. spawned' - 1
          /\ mainAt' # "creating" /\ total' = spawned'
      BY <1>3, SameCount DEF Gate!GateInv
    <2>2. /\ open' <=> mainAt' = "through"
          /\ open' => ready' = total'
      BY <1>5 DEF Gate!GateInv, Gate!GateTypeOK
    <2>3. Gate!NobodyThroughClosedGate'
      BY DEF Gate!GateInv, Gate!GateTypeOK, Gate!NobodyThroughClosedGate, Gate!Woken
    <2> QED
      BY <2>1, <2>2, <2>3, SameCount DEF Gate!GateInv
  <1> QED
    BY <1>4, <1>6

LEMMA GateArrive ==
  ASSUME GateSafe, NEW r \in Gate!Reader, Gate!Arrive(r)
  PROVE  GateSafe'
  <1> USE DEF GateSafe, Gate!Arrive, Gate!Arriving
  <1>1. at' \in [Gate!Reader -> {"before", "waiting", "awake", "through"}]
    BY DEF Gate!GateTypeOK, Gate!Woken
  <1>2. Gate!Arrived' = Gate!Arrived \cup {r} /\ r \notin Gate!Arrived
    BY DEF Gate!GateTypeOK, Gate!Arrived, Gate!Woken
  <1>3. ready' = Cardinality(Gate!Arrived')
    BY <1>2, ArrivedFinite, FS_AddElement, SameCount DEF Gate!GateInv
  <1>4. spawned' \in 0 .. N /\ Gate!Arrived' \subseteq 0 .. spawned' - 1
    BY <1>2 DEF Gate!GateInv, Gate!GateTypeOK
  <1>5. ready' <= spawned'
    BY <1>3, <1>4, AllOfThem
  <1>6. Gate!GateTypeOK'
    BY <1>1, <1>4, <1>5 DEF Gate!GateTypeOK, Gate!Woken
  <1>7. ~open
    BY OpenMeansAll DEF Gate!OpensForAllAtOnce
  <1>8. Gate!GateInv'
    <2>1. /\ mainAt' = "creating" => total' = N
          /\ mainAt' # "creating" => total' = spawned'
          /\ open' <=> mainAt' = "through"
      BY DEF Gate!GateInv, Gate!GateTypeOK, Gate!Woken
    <2>2. Gate!NobodyThroughClosedGate'
      BY <1>7 DEF Gate!GateInv, Gate!GateTypeOK, Gate!NobodyThroughClosedGate, Gate!Woken
    <2> QED
      BY <1>3, <1>4, <1>7, <2>1, <2>2, SameCount DEF Gate!GateInv
  <1> QED
    BY <1>6, <1>8

\* Waking, for a broadcast or spuriously, moves nobody to or from the gate.
LEMMA GateWake ==
  ASSUME GateSafe, (\E r \in Gate!Reader : Gate!ReaderWakes(r)) \/ Gate!SpuriousWakeup
  PROVE  GateSafe'
  <1> USE DEF GateSafe, Gate!ReaderWakes, Gate!SpuriousWakeup
  <1>1. \A r \in Gate!Reader : at'[r] = "before" <=> at[r] = "before"
    BY DEF Gate!GateTypeOK
  <1>2. Gate!Arrived' = Gate!Arrived
    BY <1>1, SameAtGate
  <1>3. Gate!GateTypeOK'
    BY DEF Gate!GateTypeOK
  <1>4. Gate!NobodyThroughClosedGate'
    BY DEF Gate!GateInv, Gate!GateTypeOK, Gate!NobodyThroughClosedGate
  <1>5. Gate!GateInv'
    BY <1>2, <1>4 DEF Gate!GateInv, Gate!GateTypeOK
  <1> QED
    BY <1>3, <1>5

LEMMA GateNext == GateSafe /\ [Gate!NextGate]_(Gate!gateVars) => GateSafe'
  <1> SUFFICES ASSUME GateSafe, [Gate!NextGate]_(Gate!gateVars)
               PROVE  GateSafe'
    OBVIOUS
  <1>1. CASE Gate!SpawnReader
    BY <1>1, GateSpawn
  <1>2. CASE Gate!OpenGate \/ Gate!OpenAfterCreated \/ Gate!MainWakes
    BY <1>2, GateTryOpen DEF Gate!OpenGate, Gate!OpenAfterCreated, Gate!MainWakes, GateSafe, Gate!GateInv
  <1>3. CASE \E r \in Gate!Reader : Gate!Arrive(r) \/ Gate!ReaderWakes(r)
    BY <1>3, GateArrive, GateWake
  <1>4. CASE Gate!SpuriousWakeup
    BY <1>4, GateWake
  <1>5. CASE UNCHANGED Gate!gateVars
    BY <1>5 DEF Gate!gateVars, GateSafe, Gate!GateTypeOK, Gate!GateInv, Gate!Arrived, Gate!NobodyThroughClosedGate
  <1> QED
    BY <1>1, <1>2, <1>3, <1>4, <1>5 DEF Gate!NextGate

-----------------------------------------------------------------------------
\* The gate's fields keep their types; ready never passes N.
THEOREM GateTypeCorrect == Gate!SpecGate => []Gate!GateTypeOK
  <1>1. GateSafe => Gate!GateTypeOK
    BY DEF GateSafe
  <1> QED
    BY GateInit, GateNext, <1>1, PTL DEF Gate!SpecGate

\* ready counts the readers at the gate, and an open gate has them all.
THEOREM GateKeepsCount == Gate!SpecGate => []Gate!GateInv
  <1>1. GateSafe => Gate!GateInv
    BY DEF GateSafe
  <1> QED
    BY GateInit, GateNext, <1>1, PTL DEF Gate!SpecGate

\* gate_open and gate_open_after_created open for all created readers at once.
THEOREM GateOpensForAllAtOnce == Gate!SpecGate => []Gate!OpensForAllAtOnce
  BY GateInit, GateNext, OpenMeansAll, PTL DEF Gate!SpecGate

-----------------------------------------------------------------------------
(* The sweep uses the gate as StartGate says *)

\* A step that is no step of the gate leaves its variables alone.
LEMMA SweepDrivesGate == Spec => Gate!SpecGate
  <1>1. Init => Gate!InitGate
    BY DEF Init
  <1>2. [Next]_vars => [Gate!NextGate]_(Gate!gateVars)
    <2> SUFFICES ASSUME [Next]_vars, ~ UNCHANGED gate
                 PROVE  Gate!NextGate
      BY DEF gate, Gate!gateVars
    <2>1. \/ Gate!SpawnReader \/ Gate!OpenAfterCreated \/ Gate!OpenGate \/ Gate!MainWakes
          \/ \E r \in Reader : Gate!Arrive(r) \/ Gate!ReaderWakes(r)
          \/ Gate!SpuriousWakeup
      <3>1. CASE MainStep
        BY <3>1 DEF MainStep, StartRnic, SetupFails, CreateReader, CreateFails, AllCreated,
             MainWakes, JoinReaders, JoinRnicAndReport, CleanupReaders, CleanupRnic, FreeAll
      <3>2. CASE \E r \in Reader : ReaderStep(r)
        BY <3>2 DEF ReaderStep, Submit, SeeResponse, WaitAtGate, ReadBlocks
      <3>3. CASE RnicStep
        BY <3>3 DEF RnicStep, TakeRequest, StampRequest, Respond, RnicExit
      <3>4. CASE SpuriousWakeup
        BY <3>4 DEF SpuriousWakeup
      <3>5. CASE UNCHANGED vars
        BY <3>5 DEF vars
      <3> QED
        BY <3>1, <3>2, <3>3, <3>4, <3>5 DEF Next
    <2> QED
      BY <2>1 DEF Gate!NextGate
  <1> QED
    BY <1>1, <1>2, PTL DEF Spec, Gate!SpecGate

\* The gate's invariants, so, hold in the sweep.
LEMMA GateHolds == Spec => [](GateSafe /\ Gate!OpensForAllAtOnce)
  BY SweepDrivesGate, GateTypeCorrect, GateKeepsCount, GateOpensForAllAtOnce, PTL DEF GateSafe

-----------------------------------------------------------------------------
(* The inductive invariant *)

\* The readers are the created ones, and at the gate only with a response.
ThreadInv ==
  /\ \A r \in Reader : reader[r] = "none" <=> ~(r < spawned)
  /\ \A r \in Reader : at[r] # "before" => reader[r] \in {"gate", "exit"}

\* A request is in the queue, then with the RNIC thread, then answered.
RequestInv ==
  /\ Len(got) <= Len(enq)
  /\ \A i, j \in 1 .. Len(enq) : enq[i] = enq[j] => i = j
  /\ \A i \in 1 .. Len(enq) : reader[enq[i]] \in {"spin", "gate", "exit"}
  /\ \A i \in 1 .. Len(enq) : i > Len(got) => ~response[enq[i]]
  /\ \A r \in Reader : reader[r] \in {"none", "submit"} => ~response[r]
  /\ \A r \in Reader : reader[r] \in {"gate", "exit"} => response[r]
  /\ \A r \in Reader : response[r] => stamped[r]

ServingInv ==
  /\ serving # NoReq <=> rnic \in {"stamp", "respond"}
  /\ serving # NoReq => /\ Len(got) > 0
                        /\ serving = enq[Len(got)]
                        /\ ~response[serving]
                        /\ done < N
  /\ rnic = "respond" => stamped[serving]
  /\ rnic = "exit" => done = N

\* Where main is, and who may still be running.
Quiet == \A r \in Reader : reader[r] \in {"none", "exit"}

MainInv ==
  /\ main \in {"setup", "create", "atGate", "join"} => created = spawned
  /\ main = "joinFail" => created = spawned \/ (created = 0 /\ Quiet)
  /\ main \in {"joinRnic", "joinFailRnic", "free", "returned"} => Quiet
  /\ main = "joinRnic" => created = 0
  /\ main = "setup" => rnic = "none"
  /\ rnicStarted \/ rnic \in {"none", "exit"}
  /\ main \in {"free", "returned"} => rnic \in {"none", "exit"}
  /\ dataFreed => main = "returned"
  /\ main \notin {"setup", "create"} /\ ~failed => spawned = N
  /\ main \in {"joinFail", "joinFailRnic", "free", "returned"} /\ ~failed
       => Quiet /\ rnic = "exit"

\* Nobody is joined yet who is going to be.
JoinInv ==
  /\ main \in {"setup", "create", "atGate", "join"} => joined = {}
  /\ main = "joinFail" => joined \cap {r \in Reader : r < created} = {}
  /\ rnicStarted /\ main \notin {"free", "returned"} => Rnic \notin joined

Exited == {r \in Reader : reader[r] = "exit"}

CountInv == blocksRead = Cardinality(Exited) * Blocks

\* What each variable is, but for the gate's and the sum.
LocalTypes ==
  /\ main \in {"setup", "create", "atGate", "join", "joinRnic", "joinFail",
               "joinFailRnic", "free", "returned"}
  /\ failed \in BOOLEAN
  /\ created \in 0 .. N
  /\ rnicStarted \in BOOLEAN
  /\ joined \subseteq Reader \cup {Rnic}
  /\ dataFreed \in BOOLEAN
  /\ reader \in [Reader -> {"none", "submit", "spin", "gate", "exit"}]
  /\ enq \in Seq(Reader)
  /\ got \in Seq(Reader)
  /\ rnic \in {"none", "poll", "stamp", "respond", "exit"}
  /\ serving \in Reader \cup {NoReq}
  /\ done \in 0 .. N
  /\ stamped \in [Reader -> BOOLEAN]
  /\ response \in [Reader -> BOOLEAN]

SweepInv ==
  LocalTypes /\ ThreadInv /\ RequestInv /\ ServingInv /\ MainInv /\ JoinInv /\ CountInv

-----------------------------------------------------------------------------
LEMMA SweepInit == Init => SweepInv
  <1> SUFFICES ASSUME Init
               PROVE  SweepInv
    OBVIOUS
  <1>1. LocalTypes
    <2>1. /\ main = "setup" /\ created \in 0 .. N /\ joined = {} /\ done \in 0 .. N
          /\ rnic = "none" /\ serving = NoReq /\ enq \in Seq(Reader) /\ got \in Seq(Reader)
          /\ reader \in [Reader -> {"none", "submit", "spin", "gate", "exit"}]
      BY DEF Init, Fifo!InitFifo
    <2>2. failed \in BOOLEAN /\ rnicStarted \in BOOLEAN /\ dataFreed \in BOOLEAN
      BY Zenon DEF Init
    <2>3. stamped \in [Reader -> BOOLEAN] /\ response \in [Reader -> BOOLEAN]
      BY Zenon DEF Init
    <2> QED
      BY <2>1, <2>2, <2>3 DEF LocalTypes
  <1>2. ThreadInv
    BY DEF Init, Gate!InitGate, ThreadInv
  <1>3. RequestInv
    BY DEF Init, Fifo!InitFifo, RequestInv
  <1>4. ServingInv
    BY DEF Init, ServingInv
  <1>5. MainInv
    BY DEF Init, Gate!InitGate, MainInv
  <1>6. JoinInv
    BY DEF Init, JoinInv
  <1>7. CountInv
    <2>1. Exited = {}
      BY DEF Init, Exited
    <2> QED
      BY <2>1, FS_EmptySet DEF Init, CountInv
  <1> QED
    BY <1>1, <1>2, <1>3, <1>4, <1>5, <1>6, <1>7 DEF SweepInv

\* What the gate's actions leave alone, and who may be at the gate afterwards.
LEMMA GateStep ==
  ASSUME GateSafe,
         Gate!OpenGate \/ Gate!OpenAfterCreated \/ Gate!MainWakes \/ Gate!SpuriousWakeup
  PROVE  /\ spawned' = spawned
         /\ \A r \in Reader : at'[r] # "before" => at[r] # "before"
  BY DEF GateSafe, Gate!GateTypeOK, Gate!OpenGate, Gate!OpenAfterCreated,
         Gate!MainWakes, Gate!SpuriousWakeup, Gate!TryOpen, Gate!Woken

LEMMA ThreadStep ==
  ASSUME SweepInv, GateSafe, Next
  PROVE  ThreadInv'
  <1> USE DEF SweepInv, ThreadInv, LocalTypes, GateSafe, Gate!GateTypeOK
  <1>1. CASE CreateReader
    BY <1>1 DEF CreateReader, Gate!SpawnReader
  <1>2. CASE CreateFails \/ AllCreated \/ MainWakes \/ SpuriousWakeup
    BY <1>2, GateStep DEF CreateFails, AllCreated, MainWakes, SpuriousWakeup
  <1>3. CASE \E r \in Reader : WaitAtGate(r)
    BY <1>3 DEF WaitAtGate, Gate!Arrive, Gate!Arriving, Gate!ReaderWakes, Gate!Woken
  <1>4. ASSUME NEW r \in Reader, Submit(r) \/ SeeResponse(r) \/ ReadBlocks(r)
        PROVE  ThreadInv'
    <2>1. /\ spawned' = spawned /\ at' = at
          /\ reader[r] \in {"submit", "spin", "gate"}
      BY <1>4 DEF Submit, SeeResponse, ReadBlocks, gate
    <2>2. \/ reader' = [reader EXCEPT ![r] = "spin"] /\ reader[r] = "submit"
          \/ reader' = [reader EXCEPT ![r] = "gate"]
          \/ reader' = [reader EXCEPT ![r] = "exit"]
      BY <1>4 DEF Submit, SeeResponse, ReadBlocks
    <2>3. \A q \in Reader : reader'[q] = "none" <=> reader[q] = "none"
      BY <2>1, <2>2
    <2>4. \A q \in Reader : reader[q] \in {"gate", "exit"} => reader'[q] \in {"gate", "exit"}
      BY <2>1, <2>2
    <2> QED
      BY <2>1, <2>3, <2>4
  <1>5. CASE RnicStep \/ UNCHANGED <<gate, reader>>
    BY <1>5 DEF RnicStep, TakeRequest, StampRequest, Respond, RnicExit, gate
  <1> QED
    BY <1>1, <1>2, <1>3, <1>4, <1>5 DEF Next, MainStep, ReaderStep, StartRnic, SetupFails,
       JoinReaders, JoinRnicAndReport, CleanupReaders, CleanupRnic, FreeAll

LEMMA RequestStep ==
  ASSUME SweepInv, GateSafe, Next
  PROVE  RequestInv'
  <1> USE DEF SweepInv, RequestInv, LocalTypes
  <1>1. CASE CreateReader
    <2>1. /\ reader[spawned] = "none" /\ spawned \in Reader
          /\ reader' = [reader EXCEPT ![spawned] = "submit"]
          /\ UNCHANGED <<enq, got, stamped, response>>
      BY <1>1 DEF CreateReader, Gate!SpawnReader, GateSafe, Gate!GateTypeOK,
         ThreadInv, fifo, nicVars
    <2> QED
      BY <2>1
  <1>2. ASSUME NEW r \in Reader, Submit(r)
        PROVE  RequestInv'
    <2>1. /\ reader[r] = "submit" /\ \A i \in 1 .. Len(enq) : enq[i] # r
          /\ reader' = [reader EXCEPT ![r] = "spin"]
          /\ enq' = Append(enq, r)
          /\ UNCHANGED <<got, stamped, response>>
      BY <1>2 DEF Submit, Fifo!Enqueue, nicVars
    <2>2. /\ Len(enq') = Len(enq) + 1 /\ enq'[Len(enq')] = r
          /\ \A i \in 1 .. Len(enq) : enq'[i] = enq[i]
      BY <2>1
    <2>3. Len(got') <= Len(enq')
      BY <2>1, <2>2
    <2>4. \A i, j \in 1 .. Len(enq') : enq'[i] = enq'[j] => i = j
      BY <2>1, <2>2
    <2>5. \A i \in 1 .. Len(enq') : reader'[enq'[i]] \in {"spin", "gate", "exit"}
      BY <2>1, <2>2
    <2>6. \A i \in 1 .. Len(enq') : i > Len(got') => ~response'[enq'[i]]
      BY <2>1, <2>2
    <2>7. /\ \A q \in Reader : reader'[q] \in {"none", "submit"} => ~response'[q]
          /\ \A q \in Reader : reader'[q] \in {"gate", "exit"} => response'[q]
          /\ \A q \in Reader : response'[q] => stamped'[q]
      BY <2>1
    <2> QED
      BY <2>3, <2>4, <2>5, <2>6, <2>7
  <1>3. ASSUME NEW r \in Reader, SeeResponse(r) \/ ReadBlocks(r)
        PROVE  RequestInv'
    <2>1. /\ UNCHANGED <<enq, got, stamped, response>>
          /\ response[r]
          /\ reader[r] \in {"spin", "gate"}
      BY <1>3 DEF SeeResponse, ReadBlocks, fifo, nicVars
    <2>2. \/ reader' = [reader EXCEPT ![r] = "gate"]
          \/ reader' = [reader EXCEPT ![r] = "exit"]
      BY <1>3 DEF SeeResponse, ReadBlocks
    <2>3. \A q \in Reader : q # r => reader'[q] = reader[q]
      BY <2>2
    <2>4. reader'[r] \in {"gate", "exit"}
      BY <2>2
    <2>5. \A i \in 1 .. Len(enq') : reader'[enq'[i]] \in {"spin", "gate", "exit"}
      <3>1. \A i \in 1 .. Len(enq) : enq[i] \in Reader
        OBVIOUS
      <3> QED
        BY <2>1, <2>3, <2>4, <3>1
    <2>6. /\ \A q \in Reader : reader'[q] \in {"none", "submit"} => ~response'[q]
          /\ \A q \in Reader : reader'[q] \in {"gate", "exit"} => response'[q]
      BY <2>1, <2>3, <2>4
    <2> QED
      BY <2>1, <2>5, <2>6
  <1>4. CASE TakeRequest
    BY <1>4 DEF TakeRequest, Fifo!Dequeue
  <1>5. CASE StampRequest
    BY <1>5 DEF StampRequest, ServingInv, fifo
  <1>6. CASE Respond
    <2>1. /\ serving \in Reader /\ Len(got) > 0 /\ serving = enq[Len(got)]
          /\ stamped[serving]
      BY <1>6 DEF Respond, ServingInv, NoReq
    <2>2. /\ UNCHANGED <<reader, enq, got, stamped>>
          /\ response' = [response EXCEPT ![serving] = TRUE]
      BY <1>6 DEF Respond, fifo
    <2>3. /\ \A i \in 1 .. Len(enq) : enq[i] \in Reader
          /\ reader[serving] \in {"spin", "gate", "exit"}
      BY <2>1
    <2>4. \A i \in 1 .. Len(enq) : i > Len(got) => enq[i] # serving
      BY <2>1, <2>3
    <2>5. \A i \in 1 .. Len(enq') : i > Len(got') => ~response'[enq'[i]]
      BY <2>1, <2>2, <2>3, <2>4
    <2>6. /\ \A q \in Reader : reader'[q] \in {"none", "submit"} => ~response'[q]
          /\ \A q \in Reader : reader'[q] \in {"gate", "exit"} => response'[q]
          /\ \A q \in Reader : response'[q] => stamped'[q]
      BY <2>1, <2>2, <2>3
    <2> QED
      BY <2>2, <2>5, <2>6
  <1>7. CASE UNCHANGED <<reader, fifo, stamped, response>>
    BY <1>7 DEF fifo
  <1> QED
    BY <1>1, <1>2, <1>3, <1>4, <1>5, <1>6, <1>7 DEF Next, MainStep, ReaderStep, RnicStep,
       StartRnic, SetupFails, CreateFails, AllCreated, MainWakes, JoinReaders,
       JoinRnicAndReport, CleanupReaders, CleanupRnic, FreeAll, WaitAtGate, RnicExit,
       SpuriousWakeup, nicVars

LEMMA ServingStep ==
  ASSUME SweepInv, Next
  PROVE  ServingInv'
  <1> USE DEF SweepInv, ServingInv, LocalTypes, NoReq
  <1>1. CASE StartRnic
    BY <1>1 DEF StartRnic, MainInv, fifo
  <1>2. ASSUME NEW r \in Reader, Submit(r)
        PROVE  ServingInv'
    <2>1. /\ UNCHANGED <<rnic, serving, done, stamped, response, got>>
          /\ enq' = Append(enq, r)
      BY <1>2 DEF Submit, Fifo!Enqueue, nicVars
    <2>2. Len(got) <= Len(enq)
      BY DEF RequestInv
    <2>3. Len(got) > 0 => enq'[Len(got)] = enq[Len(got)]
      BY <2>1, <2>2
    <2> QED
      BY <2>1, <2>3
  <1>3. CASE TakeRequest
    <2>1. /\ Len(got) \in Nat /\ Len(got) + 1 \in 1 .. Len(enq)
          /\ enq' = enq /\ got' = Append(got, enq[Len(got) + 1])
          /\ serving' = enq[Len(got) + 1] /\ response' = response
          /\ rnic' = "stamp" /\ done' = done /\ done < N
      BY <1>3 DEF TakeRequest, Fifo!Dequeue
    <2>2. Len(got') = Len(got) + 1 /\ serving' \in Reader
      BY <2>1
    <2>3. ~response[serving']
      BY <2>1 DEF RequestInv
    <2> QED
      BY <2>1, <2>2, <2>3
  <1>4. CASE StampRequest
    BY <1>4 DEF StampRequest, fifo
  <1>5. CASE Respond \/ RnicExit
    BY <1>5 DEF Respond, RnicExit, fifo
  <1>6. CASE UNCHANGED <<fifo, nicVars, response>>
    BY <1>6 DEF fifo, nicVars
  <1> QED
    BY <1>1, <1>2, <1>3, <1>4, <1>5, <1>6 DEF Next, MainStep, ReaderStep, RnicStep,
       SetupFails, CreateReader, CreateFails, AllCreated, MainWakes, JoinReaders,
       JoinRnicAndReport, CleanupReaders, CleanupRnic, FreeAll, SeeResponse, WaitAtGate,
       ReadBlocks, SpuriousWakeup

\* Once all that were created have exited and nobody is created any more, no
\* reader runs again.
LEMMA QuietAfterJoin ==
  ASSUME SweepInv, GateSafe, main \in {"join", "joinFail"},
         \A r \in Reader : r < created => reader[r] = "exit"
  PROVE  Quiet
  BY DEF SweepInv, ThreadInv, MainInv, Quiet

LEMMA QuietStays ==
  ASSUME SweepInv, Quiet, Next, main # "create"
  PROVE  Quiet'
  BY DEF SweepInv, LocalTypes, Quiet, Next, MainStep, ReaderStep, RnicStep, StartRnic,
     SetupFails, CreateReader, CreateFails, AllCreated, MainWakes, JoinReaders,
     JoinRnicAndReport, CleanupReaders, CleanupRnic, FreeAll, Submit, SeeResponse, WaitAtGate,
     ReadBlocks, TakeRequest, StampRequest, Respond, RnicExit, SpuriousWakeup

LEMMA MainStepInv ==
  ASSUME SweepInv, GateSafe, Next
  PROVE  MainInv'
  <1> USE DEF SweepInv, MainInv
  <1>1. CASE StartRnic \/ SetupFails
    BY <1>1 DEF StartRnic, SetupFails, gate, Quiet, nicVars, LocalTypes
  <1>2. CASE CreateReader
    BY <1>2 DEF CreateReader, Gate!SpawnReader, GateSafe, Gate!GateTypeOK, nicVars
  <1>3. CASE CreateFails
    BY <1>3, GateStep DEF CreateFails, nicVars
  <1>4. CASE AllCreated
    BY <1>4, GateStep DEF AllCreated, Gate!OpenGate, nicVars
  <1>5. CASE MainWakes
    BY <1>5, GateStep DEF MainWakes, nicVars
  <1>6. CASE JoinReaders
    <2>1. Quiet /\ UNCHANGED <<reader, nicVars, failed, rnicStarted, dataFreed, gate>>
          /\ main' = "joinRnic" /\ created' = 0 /\ main = "join"
      BY <1>6, QuietAfterJoin DEF JoinReaders, JoinCreated
    <2> QED
      BY <2>1 DEF Quiet, nicVars, gate
  <1>7. CASE JoinRnicAndReport
    BY <1>7 DEF JoinRnicAndReport, Quiet, gate, nicVars
  <1>8. CASE CleanupReaders
    <2>1. Quiet /\ UNCHANGED <<reader, nicVars, failed, rnicStarted, dataFreed, gate>>
          /\ main' = "joinFailRnic" /\ main = "joinFail"
      BY <1>8, QuietAfterJoin DEF CleanupReaders, JoinCreated, nicVars
    <2> QED
      BY <2>1 DEF Quiet, nicVars, gate
  <1>9. CASE CleanupRnic \/ FreeAll
    BY <1>9 DEF CleanupRnic, FreeAll, Quiet, gate, nicVars
  <1>10. ASSUME UNCHANGED mainVars, spawned' = spawned,
                \/ UNCHANGED nicVars
                \/ rnic \notin {"none", "exit"}
         PROVE  MainInv'
    BY <1>10, QuietStays DEF mainVars, nicVars, LocalTypes
  <1>11. CASE \E r \in Reader : ReaderStep(r)
    <2>1. UNCHANGED <<mainVars, spawned, nicVars>>
      BY <1>11 DEF ReaderStep, Submit, SeeResponse, WaitAtGate, ReadBlocks, Gate!Arrive,
         Gate!Arriving, Gate!ReaderWakes, gate
    <2> QED
      BY <2>1, <1>10
  <1>12. CASE RnicStep
    <2>1. UNCHANGED <<mainVars, spawned>> /\ rnic \notin {"none", "exit"}
      BY <1>12 DEF RnicStep, TakeRequest, StampRequest, Respond, RnicExit, gate
    <2> QED
      BY <2>1, <1>10
  <1>13. CASE SpuriousWakeup
    BY <1>10, <1>13 DEF SpuriousWakeup, Gate!SpuriousWakeup
  <1> QED
    BY <1>1, <1>2, <1>3, <1>4, <1>5, <1>6, <1>7, <1>8, <1>9, <1>11, <1>12, <1>13
    DEF Next, MainStep

LEMMA JoinStep ==
  ASSUME SweepInv, Next
  PROVE  JoinInv'
  <1> USE DEF SweepInv, JoinInv, Rnic
  <1>1. CASE StartRnic \/ SetupFails
    BY <1>1 DEF StartRnic, SetupFails
  <1>2. CASE CreateReader \/ CreateFails \/ AllCreated \/ MainWakes
    BY <1>2 DEF CreateReader, CreateFails, AllCreated, MainWakes, LocalTypes
  <1>3. CASE JoinReaders \/ JoinRnicAndReport
    BY <1>3 DEF JoinReaders, JoinRnicAndReport, JoinCreated, MainInv
  <1>4. CASE CleanupReaders \/ CleanupRnic \/ FreeAll
    BY <1>4 DEF CleanupReaders, CleanupRnic, FreeAll, JoinCreated
  <1>5. CASE UNCHANGED mainVars
    BY <1>5 DEF mainVars
  <1> QED
    BY <1>1, <1>2, <1>3, <1>4, <1>5 DEF Next, MainStep, ReaderStep, RnicStep, Submit,
       SeeResponse, WaitAtGate, ReadBlocks, TakeRequest, StampRequest, Respond, RnicExit,
       SpuriousWakeup

-----------------------------------------------------------------------------
(* The sum of the blocks *)

LEMMA ExitedFinite ==
  /\ IsFiniteSet(Exited)
  /\ Cardinality(Exited) \in 0 .. N
  <1>1. IsFiniteSet(0 .. N - 1) /\ Cardinality(0 .. N - 1) = N
    BY FS_Interval
  <1>2. Exited \subseteq 0 .. N - 1
    BY DEF Exited
  <1>3. IsFiniteSet(Exited) /\ Cardinality(Exited) <= N
    BY <1>1, <1>2, FS_Subset
  <1>4. Cardinality(Exited) \in Nat
    BY <1>3, FS_CardinalityType
  <1> QED
    BY <1>3, <1>4

LEMMA ReadBlocksCounts ==
  ASSUME SweepInv, NEW r \in Reader, ReadBlocks(r)
  PROVE  CountInv'
  <1>1. Exited' = Exited \cup {r} /\ r \notin Exited
    BY DEF ReadBlocks, SweepInv, LocalTypes, Exited
  <1>2. Cardinality(Exited') = Cardinality(Exited) + 1
    BY <1>1, ExitedFinite, FS_AddElement
  <1>3. blocksRead' = Cardinality(Exited) * Blocks + Blocks
    BY DEF ReadBlocks, SweepInv, CountInv
  <1> DEFINE k == Cardinality(Exited)
  <1>4. k \in Nat /\ (k + 1) * Blocks = k * Blocks + Blocks
    BY ExitedFinite
  <1> QED
    BY <1>2, <1>3, <1>4 DEF CountInv

LEMMA CountStep ==
  ASSUME SweepInv, GateSafe, Next
  PROVE  CountInv'
  <1>1. CASE \E r \in Reader : ReadBlocks(r)
    BY <1>1, ReadBlocksCounts
  <1>2. ASSUME blocksRead' = blocksRead,
               \A r \in Reader : reader'[r] = "exit" <=> reader[r] = "exit"
        PROVE  CountInv'
    <2>1. Exited' = Exited
      BY <1>2 DEF Exited
    <2> QED
      BY <1>2, <2>1 DEF SweepInv, CountInv
  <1>3. ASSUME NEW r \in Reader, reader[r] # "exit", blocksRead' = blocksRead,
               \/ reader' = [reader EXCEPT ![r] = "submit"]
               \/ reader' = [reader EXCEPT ![r] = "spin"]
               \/ reader' = [reader EXCEPT ![r] = "gate"]
        PROVE  CountInv'
    <2>1. \A q \in Reader : reader'[q] = "exit" <=> reader[q] = "exit"
      BY <1>3 DEF SweepInv, LocalTypes
    <2> QED
      BY <1>2, <1>3, <2>1
  <1>4. CASE CreateReader
    <2>1. spawned \in Reader /\ reader[spawned] # "exit"
      BY <1>4 DEF CreateReader, Gate!SpawnReader, SweepInv, ThreadInv, GateSafe,
         Gate!GateTypeOK
    <2> QED
      BY <1>3, <1>4, <2>1 DEF CreateReader
  <1>5. CASE \E r \in Reader : Submit(r) \/ SeeResponse(r)
    BY <1>3, <1>5 DEF Submit, SeeResponse
  <1>6. CASE UNCHANGED <<reader, blocksRead>>
    BY <1>2, <1>6
  <1> QED
    BY <1>1, <1>4, <1>5, <1>6 DEF Next, MainStep, ReaderStep, RnicStep, StartRnic, SetupFails,
       CreateFails, AllCreated, MainWakes, JoinReaders, JoinRnicAndReport, CleanupReaders,
       CleanupRnic, FreeAll, WaitAtGate, TakeRequest, StampRequest, Respond, RnicExit,
       SpuriousWakeup

-----------------------------------------------------------------------------

LEMMA TypesStep ==
  ASSUME SweepInv, GateSafe, Next
  PROVE  LocalTypes'
  <1> USE DEF SweepInv, LocalTypes
  <1>1. CASE CreateReader
    BY <1>1 DEF CreateReader, Gate!SpawnReader, GateSafe, Gate!GateTypeOK,
       MainInv, nicVars, fifo
  <1>2. CASE StartRnic \/ SetupFails \/ CreateFails \/ AllCreated \/ MainWakes
    BY <1>2 DEF StartRnic, SetupFails, CreateFails, AllCreated, MainWakes, nicVars, fifo
  <1>3. CASE JoinReaders \/ JoinRnicAndReport \/ CleanupReaders \/ CleanupRnic \/ FreeAll
    <2> USE DEF JoinReaders, JoinRnicAndReport, CleanupReaders, CleanupRnic, FreeAll, JoinCreated
    <2>1. /\ main' \in {"joinRnic", "joinFail", "joinFailRnic", "free", "returned"}
          /\ created' \in 0 .. N
      BY <1>3
    <2>2. UNCHANGED <<failed, reader, enq, got, rnic, serving, done, stamped, response>>
      BY <1>3, Zenon DEF fifo, nicVars
    <2>3. joined' \subseteq Reader \cup {Rnic}
      BY <1>3, Zenon
    <2>4. rnicStarted' \in BOOLEAN
      <3>1. UNCHANGED rnicStarted \/ rnicStarted' = FALSE
        BY <1>3, Zenon
      <3> QED
        BY <3>1, Zenon
    <2>5. dataFreed' \in BOOLEAN
      <3>1. UNCHANGED dataFreed \/ dataFreed' = TRUE
        BY <1>3, Zenon
      <3> QED
        BY <3>1, Zenon
    <2> QED
      BY <2>1, <2>2, <2>3, <2>4, <2>5
  <1>4. ASSUME NEW r \in Reader, ReaderStep(r)
        PROVE  LocalTypes'
    <2>1. UNCHANGED <<mainVars, got, nicVars, response>>
      BY <1>4 DEF ReaderStep, Submit, SeeResponse, WaitAtGate, ReadBlocks, Fifo!Enqueue, fifo
    <2>2. reader' \in [Reader -> {"none", "submit", "spin", "gate", "exit"}]
      BY <1>4 DEF ReaderStep, Submit, SeeResponse, WaitAtGate, ReadBlocks
    <2>3. enq' = enq \/ enq' = Append(enq, r)
      BY <1>4 DEF ReaderStep, Submit, SeeResponse, WaitAtGate, ReadBlocks, Fifo!Enqueue, fifo
    <2>4. enq' \in Seq(Reader)
      <3>1. Append(enq, r) \in Seq(Reader)
        OBVIOUS
      <3> QED
        BY <2>3, <3>1
    <2> QED
      BY <2>1, <2>2, <2>4 DEF mainVars, nicVars
  <1>5. CASE TakeRequest
    <2>1. /\ enq[Len(got) + 1] \in Reader
          /\ got' = Append(got, enq[Len(got) + 1])
          /\ serving' = enq[Len(got) + 1]
          /\ rnic' = "stamp"
          /\ UNCHANGED <<mainVars, reader, enq, done, stamped, response>>
      BY <1>5 DEF TakeRequest, Fifo!Dequeue
    <2>2. got' \in Seq(Reader)
      BY <2>1
    <2> QED
      BY <2>1, <2>2 DEF mainVars
  <1>6. CASE StampRequest \/ Respond \/ RnicExit
    <2>1. /\ UNCHANGED <<mainVars, reader, enq, got>>
          /\ serving' \in {serving, NoReq}
          /\ rnic' \in {"poll", "respond", "exit"}
      BY <1>6 DEF StampRequest, Respond, RnicExit, fifo
    <2>2. done' \in 0 .. N
      BY <1>6 DEF StampRequest, Respond, RnicExit, ServingInv
    <2>3. UNCHANGED stamped \/ stamped' = [stamped EXCEPT ![serving] = TRUE]
      BY <1>6 DEF StampRequest, Respond, RnicExit
    <2>4. UNCHANGED response \/ response' = [response EXCEPT ![serving] = TRUE]
      BY <1>6 DEF StampRequest, Respond, RnicExit
    <2>5. stamped' \in [Reader -> BOOLEAN] /\ response' \in [Reader -> BOOLEAN]
      BY <2>3, <2>4
    <2> QED
      BY <2>1, <2>2, <2>5 DEF mainVars
  <1>7. CASE SpuriousWakeup
    BY <1>7 DEF SpuriousWakeup, mainVars, nicVars, fifo
  <1> QED
    BY <1>1, <1>2, <1>3, <1>4, <1>5, <1>6, <1>7 DEF Next, MainStep, RnicStep

LEMMA SweepStep ==
  ASSUME SweepInv, GateSafe, [Next]_vars
  PROVE  SweepInv'
  <1>1. CASE Next
    BY <1>1, TypesStep, ThreadStep, RequestStep, ServingStep, MainStepInv, JoinStep, CountStep
    DEF SweepInv
  <1>2. CASE UNCHANGED vars
    BY <1>2 DEF vars, mainVars, gate, fifo, nicVars, SweepInv, LocalTypes, ThreadInv,
       RequestInv, ServingInv, MainInv, Quiet, JoinInv, CountInv, Exited
  <1> QED
    BY <1>1, <1>2

LEMMA SweepAlways == Spec => [](SweepInv /\ GateSafe /\ Gate!OpensForAllAtOnce)
  BY SweepInit, SweepStep, GateHolds, PTL DEF Spec

-----------------------------------------------------------------------------
\* The counters stay in their ranges, done and blocksRead among them: no request
\* is counted twice.
THEOREM SweepTypeCorrect == Spec => []TypeOK
  <1>1. SweepInv /\ GateSafe => TypeOK
    <2> SUFFICES ASSUME SweepInv, GateSafe
                 PROVE  TypeOK
      OBVIOUS
    <2>1. blocksRead \in 0 .. N * Blocks
      <3> DEFINE k == Cardinality(Exited)
      <3>1. k \in 0 .. N
        BY ExitedFinite
      <3>2. k * Blocks \in 0 .. N * Blocks
        BY <3>1
      <3> QED
        BY <3>2 DEF SweepInv, CountInv
    <2>2. Gate!GateTypeOK
      BY Zenon DEF GateSafe, Gate!GateTypeOK
    <2> QED
      BY <2>1, <2>2 DEF SweepInv, LocalTypes, TypeOK
  <1> QED
    BY SweepAlways, <1>1, PTL

\* What run_one_sweep frees, no thread can reach, whichever path led there.
THEOREM FreedDataStaysUnused == Spec => []FreedDataIsUnused
  <1>1. SweepInv => FreedDataIsUnused
    BY DEF SweepInv, MainInv, Quiet, FreedDataIsUnused
  <1> QED
    BY SweepAlways, <1>1, PTL

\* A request belongs to the RNIC thread from the dequeue to the response, and
\* its expire_time is written when the reader looks at it.
THEOREM RequestsHaveOneOwner == Spec => []RequestHasOneOwner
  <1>1. SweepInv => RequestHasOneOwner
    <2> SUFFICES ASSUME SweepInv
                 PROVE  RequestHasOneOwner
      OBVIOUS
    <2> USE DEF SweepInv, LocalTypes, RequestInv
    <2>1. ASSUME serving # NoReq
          PROVE  reader[serving] = "spin" /\ ~response[serving]
      <3>1. serving = enq[Len(got)] /\ Len(got) \in 1 .. Len(enq) /\ ~response[serving]
        BY <2>1 DEF ServingInv
      <3>2. reader[serving] \in {"spin", "gate", "exit"}
        BY <3>1
      <3>3. serving \in Reader
        BY <2>1
      <3> QED
        BY <3>1, <3>2, <3>3
    <2> QED
      BY <2>1 DEF RequestHasOneOwner
  <1> QED
    BY SweepAlways, <1>1, PTL

\* A reader past the gate means that the gate is open, so every created reader
\* came to it, which it did with its response.
THEOREM ReadsAlwaysStartTogether == Spec => []ReadsStartTogether
  <1>1. SweepInv /\ GateSafe /\ Gate!OpensForAllAtOnce => ReadsStartTogether
    BY DEF SweepInv, ThreadInv, RequestInv, GateSafe, Gate!GateInv,
       Gate!NobodyThroughClosedGate, Gate!OpensForAllAtOnce, ReadsStartTogether
  <1> QED
    BY SweepAlways, <1>1, PTL

\* The row that is printed counts every block of all N requests.
THEOREM ReportAlwaysComplete == Spec => []ReportIsComplete
  <1>1. SweepInv => ReportIsComplete
    <2> SUFFICES ASSUME SweepInv, main = "joinFail", ~failed
                 PROVE  blocksRead = N * Blocks /\ done = N
      BY DEF ReportIsComplete
    <2>1. Exited = 0 .. N - 1
      BY DEF SweepInv, MainInv, Quiet, ThreadInv, Exited
    <2>2. Cardinality(Exited) = N
      BY <2>1, FS_Interval
    <2> QED
      BY <2>2 DEF SweepInv, MainInv, ServingInv, CountInv
  <1> QED
    BY SweepAlways, <1>1, PTL

\* The joins at join_fail never meet a thread that the good path has joined.
THEOREM NobodyJoinedTwice == Spec => JoinsOnce
  <1>1. SweepInv =>
          /\ main \in {"join", "joinFail"} => joined \cap {r \in Reader : r < created} = {}
          /\ main \in {"joinRnic", "joinFailRnic"} => ~(Rnic \in joined /\ rnicStarted)
    BY DEF SweepInv, JoinInv
  <1> QED
    BY SweepAlways, <1>1, PTL DEF JoinsOnce
=============================================================================
