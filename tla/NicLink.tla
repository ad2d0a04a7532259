------------------------------- MODULE NicLink -------------------------------
(***************************************************************************)
(* The simulated link of the RDMA programs in custom-test: the readers     *)
(* stamp stime and send their requests, the RNIC thread computes           *)
(* expire_time from the link's ntime, stime and lag and answers, and       *)
(* somebody waits for expire_time, or nobody.  The programs differ:        *)
(*   "fin"    test2-rdma-fin.c: idle/window/lag law, the RNIC thread waits *)
(*   "rdma2"  test2-rdma2.c: the same with a fixed window and the RNIC's   *)
(*            own stime; the RNIC thread waits, the reader's wait is a     *)
(*            comment                                                      *)
(*   "rdma3"  test2-rdma3.c: back-to-back transfers, the reader waits      *)
(*   "fixed"  test2-rdma.c, test4.c: a constant is added, nobody waits     *)
(*                                                                         *)
(* Time is a natural number; a sweep starts after the clock's zero.  The   *)
(* queue is a FIFO (MpscQueue), the hand-over of requests is RdmaSweep's.  *)
(***************************************************************************)
EXTENDS Integers, Sequences

CONSTANTS
  Reader, None,         \* the readers, one request each; no reader
  Programs,             \* the programs considered
  Service,              \* delta_time_ns: the transfer time of a request
  Factor,               \* bwmb / NVME_DEFAULT_MAX_AZ_SIZE / 1000
  Millisecond,          \* rdma2's window
  Idle,                 \* the 1000 ns that fin adds
  Fixed,                \* 78.125 * nk
  MaxNow                \* bound of the clock, for model checking

ASSUME LinkAssumption ==
  /\ None \notin Reader /\ MaxNow \in Nat
  /\ {Service, Factor, Millisecond, Idle, Fixed} \subseteq Nat
  /\ Programs \subseteq {"fin", "rdma2", "rdma3", "fixed"}

VARIABLES
  program, now,
  ntime, n_stime, lag,          \* struct nic, and the global lag
  stime, expire_time,           \* struct rdma_req of each reader
  reader, queue, rnic, cur,
  transfers                     \* history: <<from, to>> on the link, in order of service

nic == <<ntime, n_stime, lag>>
request == <<stime, expire_time>>
threads == <<reader, queue, rnic, cur>>
vars == <<program, now, nic, request, threads, transfers>>

\* lag is a global that an earlier sweep may have left behind.
Init ==
  /\ program \in Programs
  /\ now = 1
  /\ ntime = 0 /\ n_stime = 0
  /\ lag \in {0, Service}
  /\ stime = [r \in Reader |-> 0] /\ expire_time = [r \in Reader |-> 0]
  /\ reader = [r \in Reader |-> "begin"]
  /\ queue = <<>>
  /\ rnic = "start" /\ cur = None
  /\ transfers = <<>>

Tick ==
  /\ now < MaxNow
  /\ now' = now + 1
  /\ UNCHANGED <<program, nic, request, threads, transfers>>

-----------------------------------------------------------------------------
(* rdma_reader_thread *)

\* t0 = now_ns(), stime and expire_time; another reader may overtake before the enqueue.
StampArrival(r) ==
  /\ reader[r] = "begin"
  /\ stime' = [stime EXCEPT ![r] = now]
  /\ expire_time' = [expire_time EXCEPT ![r] = now]
  /\ reader' = [reader EXCEPT ![r] = "send"]
  /\ UNCHANGED <<program, now, nic, queue, rnic, cur, transfers>>

Send(r) ==
  /\ reader[r] = "send"
  /\ queue' = Append(queue, r)
  /\ reader' = [reader EXCEPT ![r] = "spin"]
  /\ UNCHANGED <<program, now, nic, request, rnic, cur, transfers>>

\* The flag was seen; in rdma3 the reader then waits for expire_time.
Proceed(r) ==
  /\ reader[r] = "ready"
  /\ program = "rdma3" => now >= expire_time[r]
  /\ reader' = [reader EXCEPT ![r] = "gate"]
  /\ UNCHANGED <<program, now, nic, request, queue, rnic, cur, transfers>>

ReaderStep(r) == StampArrival(r) \/ Send(r) \/ Proceed(r)

-----------------------------------------------------------------------------
(* rnic_thread *)

StartRnic ==
  /\ rnic = "start"
  /\ rnic' = "poll"
  /\ ntime' = IF program = "rdma2" THEN now ELSE ntime
  /\ UNCHANGED <<program, now, n_stime, lag, request, reader, queue, cur, transfers>>

\* Request r at the head of the queue is taken and gets the expire_time e.
Stamp(r, e) ==
  /\ rnic = "poll" /\ queue # <<>> /\ r = Head(queue)
  /\ queue' = Tail(queue)
  /\ cur' = r /\ rnic' = "hold"
  /\ expire_time' = [expire_time EXCEPT ![r] = e]
  /\ transfers' = Append(transfers, [from |-> e - Service, to |-> e])
  /\ UNCHANGED <<program, now, reader>>

LinkIdle(at) == ntime < at
WindowOver == ntime < n_stime + Service
Lagging(at) == at < ntime /\ lag > 0

\* test2-rdma-fin.c: idle link; window used up; lag of an earlier request; no branch.
FinIdle(r) ==
  /\ LinkIdle(stime[r])
  /\ lag' = 0
  /\ n_stime' = stime[r] + Service
  /\ ntime' = stime[r] + Factor * Service
  /\ Stamp(r, expire_time[r] + 2 * Idle)

\* Mutant: the window is looked at before the link is known to be busy.
FinWindowFirst(r) ==
  /\ WindowOver
  /\ lag' = ntime - stime[r]
  /\ n_stime' = ntime + Service
  /\ ntime' = ntime + Factor * Service
  /\ Stamp(r, expire_time[r] + (ntime - stime[r]) + Idle)

FinWindow(r) ==
  /\ ~LinkIdle(stime[r]) /\ WindowOver
  /\ lag' = ntime - stime[r]
  /\ n_stime' = ntime + Service
  /\ ntime' = ntime + Factor * Service
  /\ Stamp(r, expire_time[r] + (ntime - stime[r]) + Idle)

FinWithin(r) ==
  /\ ~LinkIdle(stime[r]) /\ ~WindowOver
  /\ n_stime' = n_stime + Service
  /\ UNCHANGED <<ntime, lag>>
  /\ Stamp(r, expire_time[r] + (IF Lagging(stime[r]) THEN lag ELSE 0) + Idle)

Fin(r) == program = "fin" /\ UNCHANGED stime /\ (FinIdle(r) \/ FinWindow(r) \/ FinWithin(r))

\* test2-rdma2.c: stime and expire_time are the RNIC's clock; the window is fixed,
\* and n_stime advances twice when it is over.
Rdma2Idle(r) ==
  /\ LinkIdle(now)
  /\ lag' = 0
  /\ n_stime' = now + Service
  /\ ntime' = now + Millisecond
  /\ Stamp(r, now)

Rdma2Window(r) ==
  /\ ~LinkIdle(now) /\ WindowOver
  /\ lag' = ntime - now
  /\ n_stime' = ntime + 2 * Service
  /\ ntime' = ntime + Millisecond
  /\ Stamp(r, now + (ntime - now))

Rdma2Within(r) ==
  /\ ~LinkIdle(now) /\ ~WindowOver
  /\ n_stime' = n_stime + Service
  /\ UNCHANGED <<ntime, lag>>
  /\ Stamp(r, now + (IF Lagging(now) THEN lag ELSE 0))

Rdma2(r) ==
  /\ program = "rdma2"
  /\ stime' = [stime EXCEPT ![r] = now]
  /\ Rdma2Idle(r) \/ Rdma2Window(r) \/ Rdma2Within(r)

\* Mutant: the link's end is not moved up to the clock when the link was idle.
Rdma3NoIdle(r) ==
  LET from == IF ntime = 0 THEN now ELSE ntime
  IN /\ program = "rdma3"
     /\ lag' = 0 /\ n_stime' = from /\ ntime' = from + Service
     /\ UNCHANGED stime
     /\ Stamp(r, from + Service)

\* test2-rdma3.c: from the end of the last transfer, or from now if that is past.
Rdma3(r) ==
  LET last == IF ntime = 0 THEN now ELSE ntime
      from == IF now > last THEN now ELSE last
  IN /\ program = "rdma3"
     /\ lag' = from - last
     /\ n_stime' = from
     /\ ntime' = from + Service
     /\ UNCHANGED stime
     /\ Stamp(r, from + Service)

\* rdma_read of test2-rdma.c and test4.c: the law is switched off with if (false).
RdmaRead(r) ==
  /\ program = "fixed"
  /\ n_stime' = n_stime + Service
  /\ UNCHANGED <<ntime, lag, stime>>
  /\ Stamp(r, expire_time[r] + Fixed)

\* RNIC_SIMULATE_DELAY: the thread holds the completion back; then the flag.
Dispatch ==
  /\ rnic = "hold"
  /\ program \in {"fin", "rdma2"} => now >= expire_time[cur]
  /\ reader' = [reader EXCEPT ![cur] = "ready"]
  /\ rnic' = "poll" /\ cur' = None
  /\ UNCHANGED <<program, now, nic, request, queue, transfers>>

RnicStep ==
  StartRnic \/ Dispatch \/ \E r \in Reader : Fin(r) \/ Rdma2(r) \/ Rdma3(r) \/ RdmaRead(r)

Next == Tick \/ RnicStep \/ \E r \in Reader : ReaderStep(r)

Spec == Init /\ [][Next]_vars

-----------------------------------------------------------------------------
(* Properties *)

\* The state keeps its types; no lag is ever negative, so no wait is shortened.
TypeOK ==
  /\ program \in Programs
  /\ now \in Nat \ {0}
  /\ ntime \in Nat /\ n_stime \in Nat /\ lag \in Nat
  /\ stime \in [Reader -> Nat] /\ expire_time \in [Reader -> Nat]
  /\ reader \in [Reader -> {"begin", "send", "spin", "ready", "gate"}]
  /\ queue \in Seq(Reader)
  /\ rnic \in {"start", "poll", "hold"} /\ cur \in Reader \cup {None}
  /\ transfers \in Seq([from : Int, to : Nat])

\* Nothing expires before it was sent, whatever overtook it on the way.
ExpiresAfterArrival == \A r \in Reader : reader[r] # "begin" => expire_time[r] >= stime[r]

\* test2-rdma3.c implements the serial link its comments promise: each transfer begins
\* when it is asked for or when the one before it ends, and no two overlap.
Link == INSTANCE SerialLink

ImplementsSerialLink ==
  /\ program = "rdma3" => Link!InitLink
  /\ [][program = "rdma3" => Link!NextLink]_(Link!linkVars)
=============================================================================
