---------------------------- MODULE NicLinkProofs ----------------------------
(***************************************************************************)
(* For every set of readers, service time and clock: the four link laws    *)
(* keep natural numbers, nothing expires before it was sent, and the law   *)
(* of test2-rdma3.c implements SerialLink, so its transfers never overlap. *)
(*                                                                         *)
(* The strengthening LawInv says that a stamp is not of the future and     *)
(* that under rdma3's law ntime is the end of the last transfer, or 0 when *)
(* there was none: the code's test `ntime == 0` then means "the first".    *)
(***************************************************************************)
EXTENDS NicLink, SequenceTheorems, TLAPS

USE LinkAssumption

LawInv ==
  /\ \A r \in Reader : stime[r] <= now /\ stime[r] <= expire_time[r]
  /\ program = "rdma3" =>
       IF transfers = <<>> THEN ntime = 0
       ELSE ntime > 0 /\ transfers[Len(transfers)].to = ntime

IInv == TypeOK /\ LawInv

LEMMA InitInv == Init => IInv
  BY DEF Init, IInv, TypeOK, LawInv

LEMMA LastInSeq ==
  ASSUME NEW S, NEW s \in Seq(S), s # <<>>
  PROVE  s[Len(s)] \in S
  <1>1. Len(s) \in 1 .. Len(s)
    BY EmptySeq, LenProperties
  <1> QED
    BY <1>1, ElementOfSeq

LEMMA AppendFacts ==
  ASSUME NEW S, NEW s \in Seq(S), NEW x \in S
  PROVE  /\ Append(s, x) \in Seq(S) /\ Append(s, x) # <<>>
         /\ Len(Append(s, x)) = Len(s) + 1 /\ Len(s) \in Nat
         /\ DOMAIN Append(s, x) = 1 .. Len(s) + 1 /\ DOMAIN s = 1 .. Len(s)
         /\ \A k \in 1 .. Len(s) : Append(s, x)[k] = s[k] /\ s[k] \in S
         /\ Append(s, x)[Len(s) + 1] = x
  OBVIOUS

-----------------------------------------------------------------------------
(* Steps that put no transfer on the link *)

LEMMA TickInv == ASSUME IInv, Tick PROVE IInv'
  BY DEF IInv, TypeOK, LawInv, Tick, nic, request, threads

LEMMA ReaderInv ==
  ASSUME IInv, NEW r \in Reader, ReaderStep(r)
  PROVE  IInv'
  <1> USE DEF IInv, TypeOK, LawInv, nic, request
  <1>1. CASE StampArrival(r)
    BY <1>1 DEF StampArrival
  <1>2. CASE Send(r)
    BY <1>2 DEF Send
  <1>3. CASE Proceed(r)
    BY <1>3 DEF Proceed
  <1> QED
    BY <1>1, <1>2, <1>3 DEF ReaderStep

LEMMA StartRnicInv == ASSUME IInv, StartRnic PROVE IInv'
  BY DEF IInv, TypeOK, LawInv, StartRnic, request

LEMMA DispatchInv == ASSUME IInv, Dispatch PROVE IInv'
  BY DEF IInv, TypeOK, LawInv, Dispatch, nic, request

-----------------------------------------------------------------------------
(* Steps that put one on it *)

\* What every law has in common: the head of the queue gets its expire_time, which
\* is not before its stime.
LEMMA StampInv ==
  ASSUME IInv, NEW r \in Reader, NEW e \in Nat, Stamp(r, e),
         ntime' \in Nat, n_stime' \in Nat, lag' \in Nat,
         \/ stime' = stime /\ stime[r] <= e
         \/ stime' = [stime EXCEPT ![r] = now] /\ now <= e,
         program = "rdma3" => e > 0 /\ ntime' = e
  PROVE  IInv'
  <1> DEFINE T == [from : Int, to : Nat]
             x == [from |-> e - Service, to |-> e]
  <1>1. transfers \in Seq(T) /\ x \in T
    BY DEF IInv, TypeOK
  <1>2. transfers' = Append(transfers, x)
    BY DEF Stamp
  <1>3. /\ transfers' \in Seq(T) /\ transfers' # <<>>
        /\ transfers'[Len(transfers')] = x
    <2> HIDE DEF T, x
    <2> QED
      BY <1>1, <1>2, AppendFacts
  <1>4. queue' \in Seq(Reader) /\ rnic' = "hold" /\ cur' \in Reader
    BY DEF IInv, TypeOK, Stamp
  <1>5. /\ expire_time' = [expire_time EXCEPT ![r] = e]
        /\ UNCHANGED <<program, now, reader>>
    BY DEF Stamp
  <1>6. stime' \in [Reader -> Nat] /\ expire_time' \in [Reader -> Nat]
    BY <1>5 DEF IInv, TypeOK
  <1>7. TypeOK'
    BY <1>3, <1>4, <1>5, <1>6 DEF IInv, TypeOK
  <1>8. \A q \in Reader : stime'[q] <= now' /\ stime'[q] <= expire_time'[q]
    BY <1>5 DEF IInv, TypeOK, LawInv
  <1>9. program' = "rdma3" => ntime' > 0 /\ transfers'[Len(transfers')].to = ntime'
    BY <1>3, <1>5
  <1> QED
    BY <1>3, <1>7, <1>8, <1>9 DEF IInv, LawInv

LEMMA FinInv ==
  ASSUME IInv, NEW r \in Reader, Fin(r)
  PROVE  IInv'
  <1> USE DEF LinkIdle, WindowOver, Lagging
  <1>1. /\ ntime \in Nat /\ n_stime \in Nat /\ lag \in Nat /\ stime[r] \in Nat
        /\ expire_time[r] \in Nat /\ stime[r] <= expire_time[r]
        /\ program = "fin" /\ stime' = stime
    BY DEF IInv, TypeOK, LawInv, Fin
  <1>2. \E e \in Nat : Stamp(r, e) /\ e >= expire_time[r]
    <2>1. CASE FinIdle(r)
      BY <1>1, <2>1 DEF FinIdle
    <2>2. CASE FinWindow(r)
      <3>1. expire_time[r] + (ntime - stime[r]) + Idle \in Nat
        BY <1>1, <2>2 DEF FinWindow
      <3> QED
        BY <1>1, <2>2, <3>1 DEF FinWindow
    <2>3. CASE FinWithin(r)
      BY <1>1, <2>3 DEF FinWithin
    <2> QED
      BY <2>1, <2>2, <2>3 DEF Fin
  <1>3. ntime' \in Nat /\ n_stime' \in Nat /\ lag' \in Nat
    <2>1. Factor * Service \in Nat
      OBVIOUS
    <2> QED
      BY <1>1, <2>1 DEF Fin, FinIdle, FinWindow, FinWithin
  <1>4. PICK e \in Nat : Stamp(r, e) /\ e >= expire_time[r]
    BY <1>2
  <1> QED
    BY <1>1, <1>3, <1>4, StampInv

LEMMA Rdma2Inv ==
  ASSUME IInv, NEW r \in Reader, Rdma2(r)
  PROVE  IInv'
  <1> USE DEF LinkIdle, WindowOver, Lagging
  <1>1. /\ ntime \in Nat /\ n_stime \in Nat /\ lag \in Nat /\ now \in Nat
        /\ program = "rdma2" /\ stime' = [stime EXCEPT ![r] = now]
    BY DEF IInv, TypeOK, Rdma2
  <1>2. \E e \in Nat : Stamp(r, e) /\ e >= now
    <2>1. CASE Rdma2Idle(r)
      BY <1>1, <2>1 DEF Rdma2Idle
    <2>2. CASE Rdma2Window(r)
      <3>1. now + (ntime - now) \in Nat /\ now + (ntime - now) >= now
        BY <1>1, <2>2 DEF Rdma2Window
      <3> QED
        BY <2>2, <3>1 DEF Rdma2Window
    <2>3. CASE Rdma2Within(r)
      BY <1>1, <2>3 DEF Rdma2Within
    <2> QED
      BY <2>1, <2>2, <2>3 DEF Rdma2
  <1>3. ntime' \in Nat /\ n_stime' \in Nat /\ lag' \in Nat
    BY <1>1 DEF Rdma2, Rdma2Idle, Rdma2Window, Rdma2Within
  <1>4. PICK e \in Nat : Stamp(r, e) /\ e >= now
    BY <1>2
  <1> QED
    BY <1>1, <1>3, <1>4, StampInv

\* Under rdma3's law the transfer begins where SerialLink has it begin.
LEMMA Rdma3Carries ==
  ASSUME IInv, NEW r \in Reader, Rdma3(r)
  PROVE  /\ Link!Carry
         /\ ntime' = Link!Later(now, Link!FreeAt) + Service
         /\ Stamp(r, ntime')
  <1> DEFINE last == IF ntime = 0 THEN now ELSE ntime
             from == IF now > last THEN now ELSE last
  <1>1. program = "rdma3" /\ now \in Nat \ {0} /\ ntime \in Nat
    BY DEF IInv, TypeOK, Rdma3
  <1>2. from = Link!Later(now, Link!FreeAt) /\ from \in Nat
    BY <1>1 DEF IInv, TypeOK, LawInv, Link!Later, Link!FreeAt
  <1>3. ntime' = from + Service /\ Stamp(r, from + Service)
    BY DEF Rdma3
  <1>4. /\ transfers' = Append(transfers, [from |-> from, to |-> from + Service])
        /\ UNCHANGED now
    <2>1. (from + Service) - Service = from
      BY <1>2
    <2> QED
      BY <1>3, <2>1 DEF Stamp
  <1> QED
    BY <1>2, <1>3, <1>4 DEF Link!Carry

LEMMA Rdma3Inv ==
  ASSUME IInv, NEW r \in Reader, Rdma3(r)
  PROVE  IInv'
  <1>1. /\ program = "rdma3" /\ now \in Nat \ {0} /\ ntime \in Nat /\ stime' = stime
        /\ stime[r] \in Nat /\ stime[r] <= now
    BY DEF IInv, TypeOK, LawInv, Rdma3
  <1>2. /\ ntime' \in Nat /\ ntime' >= now /\ n_stime' \in Nat /\ lag' \in Nat
    BY <1>1 DEF Rdma3
  <1>3. Stamp(r, ntime')
    BY Rdma3Carries
  <1> QED
    BY <1>1, <1>2, <1>3, StampInv

LEMMA RdmaReadInv ==
  ASSUME IInv, NEW r \in Reader, RdmaRead(r)
  PROVE  IInv'
  <1>1. /\ ntime' \in Nat /\ n_stime' \in Nat /\ lag' \in Nat /\ stime' = stime
        /\ program = "fixed" /\ stime[r] \in Nat /\ stime[r] <= expire_time[r]
        /\ expire_time[r] \in Nat
    BY DEF IInv, TypeOK, LawInv, RdmaRead
  <1>2. PICK e \in Nat : Stamp(r, e) /\ e >= expire_time[r]
    BY <1>1 DEF RdmaRead
  <1> QED
    BY <1>1, <1>2, StampInv

LEMMA NextInv == IInv /\ [Next]_vars => IInv'
  <1> SUFFICES ASSUME IInv, [Next]_vars
               PROVE  IInv'
    OBVIOUS
  <1>1. CASE Tick
    BY <1>1, TickInv
  <1>2. CASE \E r \in Reader : ReaderStep(r)
    BY <1>2, ReaderInv
  <1>3. CASE RnicStep
    BY <1>3, StartRnicInv, DispatchInv, FinInv, Rdma2Inv, Rdma3Inv, RdmaReadInv DEF RnicStep
  <1>4. CASE UNCHANGED vars
    BY <1>4 DEF vars, nic, request, threads, IInv, TypeOK, LawInv
  <1> QED
    BY <1>1, <1>2, <1>3, <1>4 DEF Next

-----------------------------------------------------------------------------
\* The link's numbers stay natural: every subtraction of the laws is guarded.
THEOREM LinkTypeCorrect == Spec => []TypeOK
  <1>1. IInv => TypeOK
    BY DEF IInv
  <1> QED
    BY InitInv, NextInv, <1>1, PTL DEF Spec

\* Under every law a request expires no earlier than it was stamped.
THEOREM NothingExpiresEarly == Spec => []ExpiresAfterArrival
  <1>1. IInv => ExpiresAfterArrival
    BY DEF IInv, TypeOK, LawInv, ExpiresAfterArrival
  <1> QED
    BY InitInv, NextInv, <1>1, PTL DEF Spec

LEMMA StepIsSerial == IInv /\ [Next]_vars => [program = "rdma3" => Link!NextLink]_(Link!linkVars)
  <1> SUFFICES ASSUME IInv, [Next]_vars, program = "rdma3"
               PROVE  Link!NextLink \/ UNCHANGED Link!linkVars
    OBVIOUS
  <1> USE DEF Link!linkVars
  <1>1. CASE Tick
    BY <1>1 DEF Tick, Link!NextLink, Link!Pass, IInv, TypeOK
  <1>2. CASE \E r \in Reader : ReaderStep(r)
    BY <1>2 DEF ReaderStep, StampArrival, Send, Proceed
  <1>3. CASE RnicStep
    <2>1. CASE StartRnic \/ Dispatch
      BY <2>1 DEF StartRnic, Dispatch
    <2>2. CASE \E r \in Reader : Rdma3(r)
      BY <2>2, Rdma3Carries DEF Link!NextLink
    <2> QED
      BY <1>3, <2>1, <2>2 DEF RnicStep, Fin, Rdma2, RdmaRead
  <1>4. CASE UNCHANGED vars
    BY <1>4 DEF vars
  <1> QED
    BY <1>1, <1>2, <1>3, <1>4 DEF Next

\* Every step of test2-rdma3.c's threads is a transfer on the serial link, the
\* passing of time, or nothing to it.
THEOREM LinkIsSerial == Spec => ImplementsSerialLink
  <1>1. Init => (program = "rdma3" => Link!InitLink)
    BY DEF Init, Link!InitLink
  <1> QED
    BY InitInv, NextInv, StepIsSerial, <1>1, PTL DEF Spec, ImplementsSerialLink

-----------------------------------------------------------------------------
(* What the serial link promises *)

LinkInv ==
  /\ now \in Nat
  /\ transfers \in Seq([from : Nat, to : Nat])
  /\ \A k \in DOMAIN transfers : transfers[k].to <= Link!FreeAt
  /\ Link!OneAtATime

LEMMA CarryInv == ASSUME LinkInv, Link!Carry PROVE LinkInv'
  <1> DEFINE T == [from : Nat, to : Nat]
             from == Link!Later(now, Link!FreeAt)
             x == [from |-> from, to |-> from + Service]
             n == Len(transfers)
  <1>1. transfers \in Seq(T) /\ now \in Nat
    BY DEF LinkInv
  <1>2. Link!FreeAt \in Nat
    <2>1. CASE transfers = <<>>
      BY <2>1 DEF Link!FreeAt
    <2>2. CASE transfers # <<>>
      <3>1. transfers[n] \in T
        <4> HIDE DEF T
        <4> QED
          BY <1>1, <2>2, LastInSeq
      <3> QED
        BY <2>2, <3>1 DEF Link!FreeAt
    <2> QED
      BY <2>1, <2>2
  <1>3. from \in Nat /\ Link!FreeAt <= from
    BY <1>1, <1>2 DEF Link!Later
  <1>4. x \in T /\ x.from = from /\ x.to = from + Service /\ from <= from + Service
    BY <1>3
  <1>5. transfers' = Append(transfers, x) /\ UNCHANGED now
    BY DEF Link!Carry
  <1> HIDE DEF T, x
  <1>6. /\ transfers' \in Seq(T) /\ transfers' # <<>> /\ n \in Nat
        /\ DOMAIN transfers' = 1 .. n + 1 /\ Len(transfers') = n + 1
        /\ \A k \in 1 .. n : transfers'[k] = transfers[k] /\ transfers[k] \in T
        /\ transfers'[n + 1] = x
        /\ DOMAIN transfers = 1 .. n
    BY <1>1, <1>4, <1>5, AppendFacts
  <1>7. Link!FreeAt' = from + Service
    BY <1>4, <1>6 DEF Link!FreeAt
  <1>8. ASSUME NEW k \in 1 .. n
        PROVE  transfers[k].to \in Nat /\ transfers[k].to <= from
    <2>1. transfers[k] \in T
      BY <1>6
    <2>2. transfers[k].to \in Nat
      BY <2>1 DEF T
    <2>3. k \in DOMAIN transfers
      BY <1>6
    <2>4. transfers[k].to <= Link!FreeAt
      BY <2>3 DEF LinkInv
    <2> QED
      BY <1>2, <1>3, <2>2, <2>4
  <1> HIDE DEF from, n
  <1>9. \A k \in DOMAIN transfers' : transfers'[k].to <= Link!FreeAt'
    <2> SUFFICES ASSUME NEW k \in 1 .. n + 1
                 PROVE  transfers'[k].to <= from + Service
      BY <1>6, <1>7
    <2>1. CASE k = n + 1
      BY <1>3, <1>4, <1>6, <2>1
    <2>2. CASE k \in 1 .. n
      BY <1>3, <1>6, <1>8, <2>2
    <2> QED
      BY <1>6, <2>1, <2>2
  <1>10. Link!OneAtATime'
    <2> SUFFICES ASSUME NEW i \in 1 .. n + 1, NEW j \in 1 .. n + 1, i < j
                 PROVE  transfers'[i].to <= transfers'[j].from
      BY <1>6 DEF Link!OneAtATime
    <2>1. i \in 1 .. n
      BY <1>6
    <2>2. CASE j = n + 1
      BY <1>4, <1>6, <1>8, <2>1, <2>2
    <2>3. CASE j \in 1 .. n
      BY <1>6, <2>1, <2>3 DEF LinkInv, Link!OneAtATime
    <2> QED
      BY <1>6, <2>2, <2>3
  <1> QED
    BY <1>1, <1>5, <1>6, <1>9, <1>10 DEF LinkInv, T

LEMMA LinkStepInv == LinkInv /\ [Link!NextLink]_(Link!linkVars) => LinkInv'
  <1> SUFFICES ASSUME LinkInv, [Link!NextLink]_(Link!linkVars)
               PROVE  LinkInv'
    OBVIOUS
  <1>1. CASE Link!Carry
    BY <1>1, CarryInv
  <1>2. CASE Link!Pass \/ UNCHANGED Link!linkVars
    BY <1>2 DEF LinkInv, Link!Pass, Link!linkVars, Link!OneAtATime, Link!FreeAt
  <1> QED
    BY <1>1, <1>2 DEF Link!NextLink

LEMMA LinkInitInv == Link!InitLink => LinkInv
  BY DEF Link!InitLink, LinkInv, Link!OneAtATime

\* The serial link carries one transfer at a time.
THEOREM SerialLinkCarriesOne == Link!LinkSpec => []Link!OneAtATime
  <1>1. LinkInv => Link!OneAtATime
    BY DEF LinkInv
  <1> QED
    BY LinkInitInv, LinkStepInv, <1>1, PTL DEF Link!LinkSpec

\* So the transfers of test2-rdma3.c, whoever asks for them and when, never overlap.
THEOREM Rdma3CarriesOneAtATime == Spec => [](program = "rdma3" => Link!OneAtATime)
  <1> DEFINE Carried == program = "rdma3" => LinkInv
  <1>1. Init => Carried
    BY LinkInitInv DEF Init, Link!InitLink
  <1>2. Carried /\ IInv /\ [Next]_vars => Carried'
    <2>1. [Next]_vars => program' = program
      BY DEF Next, vars, Tick, RnicStep, StartRnic, Dispatch, Fin, FinIdle, FinWindow,
         FinWithin, Rdma2, Rdma2Idle, Rdma2Window, Rdma2Within, Rdma3, RdmaRead, Stamp,
         ReaderStep, StampArrival, Send, Proceed
    <2> QED
      BY <2>1, StepIsSerial, LinkStepInv
  <1>3. Carried => (program = "rdma3" => Link!OneAtATime)
    BY DEF LinkInv
  <1> QED
    BY <1>1, <1>2, <1>3, InitInv, NextInv, PTL DEF Spec
=============================================================================
