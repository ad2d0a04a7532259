----------------------------- MODULE MainProofs -----------------------------
(***************************************************************************)
(* What microbench's main promises, whatever the machine and the options.  *)
(*                                                                         *)
(* BenchLifecycle, for any number of CPUs and any values of their          *)
(* registers: every return of main and every exit of the handler leaves    *)
(* the registers as before (if they agreed and no wrmsr was spoiled), a    *)
(* return after the tests has released everything, and no test runs on a   *)
(* machine not set as asked.  (A process that dies of free() does neither.)*)
(* Two invariants, one for the resources and one for the registers; the    *)
(* second says how far the wrmsr in progress has come.                     *)
(*                                                                         *)
(* FirstTouch, for every page size, size of the data and number of         *)
(* threads: firstTouchData writes inside the data, and any PageSize bytes  *)
(* of it in a row hold a written one.                                      *)
(*                                                                         *)
(* Microbench, for any number of runs and any command lines: the tests fit *)
(* the memory, --pre-touch is honest, and a row stands under its header.   *)
(* RunInv says of each run what it asked for and has (SizeInv), how it     *)
(* names its file (NameInv) and what is in it (LineInv), which needs what  *)
(* the files of all runs are (FilesInv, EnvInv): a run is disturbed only   *)
(* by one that opened the same path, and a path tells the directory.  The  *)
(* workers' CPUs have an invariant of their own (PinInv): cpu_list has     *)
(* each CPU of the nodes asked for once, so dealing the workers round it   *)
(* spreads them (DealtEvenly).                                             *)
(***************************************************************************)
EXTENDS BenchLifecycle, Microbench, DataLemmas

-----------------------------------------------------------------------------
(* Resources and registers (BenchLifecycle) *)

\* What is held at each place of main.
HeldInv ==
  /\ main \in {"prefetcher", "set", "setting", "allocate"} =>
       memory = "none" /\ ~device /\ file = "none"
  /\ main = "output" => memory = kind /\ file = "none" /\ (kind # "devdax" => ~device)
  /\ main = "release" => file = "closed"
  /\ ReturnReleases
  /\ main = "restore" =>
       /\ ~device /\ file # "open"
       /\ memory \in Kind => kind # "devdax" /\ file = "none"

Quiet == disturbed = {} /\ SameOnAllCpus

\* The wrmsr of p has come as far as it says, and has not failed.
Written(p) ==
  /\ child[p].state \in {"running", "ok"}
  /\ child[p].state = "ok" => child[p].next = Cpus
  /\ \A c \in Cpu : c < child[p].next => msr[c] = child[p].value

\* Before a handler runs: only main's wrmsr may be writing.
MainAlone ==
  /\ child["handler"].state = "idle"
  /\ child["main"].state = "running" => main \in {"setting", "restoring"}
  /\ main = "setting" => child["main"].state \in {"running", "ok"}
  /\ main = "restoring" => child["main"].value = saved /\ Written("main")
  /\ main = "returned" => msr = boot

\* The handler's wrmsr is the only one.
HandlerAlone ==
  /\ main # "returned" /\ saved # NoSetting
  /\ child["main"].state # "running"
  /\ child["handler"].value = saved
  /\ Written("handler")

RegisterInv ==
  /\ saved \in {NoSetting, boot[0]}
  /\ main = "prefetcher" => saved = NoSetting
  /\ saved = NoSetting => msr = boot /\ \A p \in {"main", "handler"} : child[p].state = "idle"
  /\ main = "set" => option # NoSetting
  /\ main \in {"set", "setting", "restoring"} => saved # NoSetting
  /\ \A p \in {"main", "handler"} : child[p].state # "idle" => child[p].value # NoSetting
  /\ Quiet =>
       /\ handler = "none" => MainAlone
       /\ handler = "restoring" => HandlerAlone
       /\ handler = "exited" => msr = boot /\ ~Writing

LifeInv == MainTypeOK /\ HeldInv /\ RegisterInv

\* Boot values are not the mark of an unset value; 0 is a CPU.
LEMMA Constants == NoSetting \notin Value /\ 0 \in Cpu /\ Cpus \in Nat \ {0}
  BY LifecycleAssumption DEF Value, Setting, NoSetting, Cpu

\* A wrmsr that is through has written every CPU.
LEMMA WroteAll ==
  ASSUME MainTypeOK, SameOnAllCpus, saved = boot[0],
         NEW p \in {"main", "handler"},
         Written(p), child[p].state = "ok", child[p].value = saved
  PROVE  msr = boot
  <1>1. \A c \in Cpu : msr[c] = boot[c]
    <2> SUFFICES ASSUME NEW c \in Cpu
                 PROVE  msr[c] = boot[c]
      OBVIOUS
    <2>1. c < child[p].next
      BY Constants DEF Written, Cpu
    <2>2. msr[c] = boot[0]
      BY <2>1 DEF Written
    <2>3. boot[c] = boot[0]
      BY Constants DEF SameOnAllCpus
    <2> QED
      BY <2>2, <2>3
  <1> QED
    BY <1>1 DEF MainTypeOK

-----------------------------------------------------------------------------
(* Types *)

LEMMA InitType == InitMain => MainTypeOK
  <1> SUFFICES ASSUME InitMain
               PROVE  MainTypeOK
    OBVIOUS
  <1> USE DEF InitMain
  <1>1. child \in [{"main", "handler"} ->
          [state : {"idle", "running", "ok", "failed"}, value : Value \cup {NoSetting},
           next : 0 .. Cpus]]
    BY Constants DEF Idle
  <1>2. msr \in [Cpu -> Value]
    BY DEF Value
  <1> QED
    BY <1>1, <1>2 DEF MainTypeOK

LEMMA TypeStep == LifeInv /\ [NextMain]_mainVars => MainTypeOK'
  <1> SUFFICES ASSUME LifeInv, [NextMain]_mainVars
               PROVE  MainTypeOK'
    OBVIOUS
  <1> USE DEF LifeInv, MainTypeOK, registers, resources
  <1>1. CASE SavePrefetcher
    <2>1. msr[0] \in BootValues
      BY <1>1, Constants DEF SavePrefetcher, RegisterInv
    <2> QED
      BY <1>1, <2>1 DEF SavePrefetcher
  <1>2. CASE RdmsrFails \/ PrefetcherSet \/ SkipPrefetcher \/ NoMemory \/ Restored
    BY <1>2 DEF RdmsrFails, PrefetcherSet, SkipPrefetcher, NoMemory, Restored
  <1>3. CASE SetPrefetcher
    <2>1. WrmsrOf(option) \in
            [state : {"idle", "running", "ok", "failed"}, value : Value \cup {NoSetting},
             next : 0 .. Cpus]
      BY Constants DEF WrmsrOf, Value
    <2> QED
      BY <1>3, <2>1 DEF SetPrefetcher
  <1>4. CASE TakeMemory
    BY <1>4 DEF TakeMemory
  <1>5. CASE NoResults \/ Release
    BY <1>5 DEF NoResults, DropMemory, Release
  <1>6. CASE OpenResults \/ RunTests
    BY <1>6 DEF OpenResults, RunTests
  <1>7. WrmsrOf(saved) \in
          [state : {"idle", "running", "ok", "failed"}, value : Value \cup {NoSetting},
           next : 0 .. Cpus]
    BY Constants DEF WrmsrOf, Value
  <1>8. CASE Restore
    BY <1>7, <1>8 DEF Restore
  <1>9. CASE Signal
    BY <1>7, <1>9 DEF Signal
  <1>10. CASE HandlerExits
    BY <1>10 DEF HandlerExits
  <1>11. ASSUME NEW p \in {"main", "handler"}, WriteCpu(p)
         PROVE  MainTypeOK'
    <2>1. child[p].next \in Cpu /\ child[p].next + 1 \in 0 .. Cpus
      BY <1>11, Constants DEF WriteCpu, Cpu
    <2>2. child[p].value \in Value
      BY <1>11, <2>1 DEF WriteCpu, RegisterInv
    <2> QED
      BY <1>11, <2>1, <2>2 DEF WriteCpu
  <1>12. ASSUME NEW p \in {"main", "handler"}, WrmsrDone(p) \/ WrmsrFails(p)
         PROVE  MainTypeOK'
    <2>1. PICK state \in {"ok", "failed"} : child' = [child EXCEPT ![p].state = state]
      BY <1>12 DEF WrmsrDone, WrmsrFails
    <2>2. disturbed' \subseteq {"failed", "overlap"} /\ UNCHANGED <<option, kind, main, registers, handler, resources>>
      BY <1>12 DEF WrmsrDone, WrmsrFails
    <2> QED
      BY <2>1, <2>2
  <1>13. CASE InterruptChildren
    BY <1>13 DEF InterruptChildren
  <1>14. CASE UNCHANGED mainVars
    BY <1>14 DEF mainVars
  <1> QED
    BY <1>1, <1>2, <1>3, <1>4, <1>5, <1>6, <1>8, <1>9, <1>10, <1>11, <1>12, <1>13, <1>14
    DEF NextMain, MainStep

-----------------------------------------------------------------------------
(* Resources *)

LEMMA HeldStep == LifeInv /\ [NextMain]_mainVars => HeldInv'
  <1> SUFFICES ASSUME LifeInv, [NextMain]_mainVars
               PROVE  HeldInv'
    OBVIOUS
  <1>1. MainTypeOK /\ HeldInv
    BY DEF LifeInv
  <1> USE DEF HeldInv, ReturnReleases, registers, resources
  <1>2. CASE UNCHANGED <<kind, main, memory, device, file>>
    BY <1>1, <1>2
  <1>3. CASE SavePrefetcher \/ RdmsrFails \/ SetPrefetcher \/ PrefetcherSet \/ SkipPrefetcher
    BY <1>1, <1>3
    DEF SavePrefetcher, RdmsrFails, SetPrefetcher, PrefetcherSet, SkipPrefetcher, Kind
  <1>4. CASE NoMemory
    BY <1>1, <1>4 DEF NoMemory, Kind
  <1>12. CASE TakeMemory
    <2>1. main' = "output" /\ memory' = kind /\ UNCHANGED <<kind, file>> /\ file = "none"
      BY <1>1, <1>12 DEF TakeMemory
    <2>2. kind # "devdax" => ~device'
      BY <1>12 DEF TakeMemory
    <2> QED
      BY <2>1, <2>2
  <1>5. CASE NoResults
    <2>1. main = "output" /\ memory = kind /\ file = "none" /\ UNCHANGED <<kind, file>>
      BY <1>1, <1>5 DEF NoResults
    <2>2. CASE kind = "devdax"
      BY <1>5, <2>1, <2>2 DEF NoResults, DropMemory, Kind
    <2>3. CASE kind # "devdax"
      BY <1>1, <1>5, <2>1, <2>3 DEF NoResults, DropMemory, MainTypeOK
    <2> QED
      BY <2>2, <2>3
  <1>6. CASE OpenResults \/ RunTests
    BY <1>1, <1>6 DEF OpenResults, RunTests
  <1>7. CASE Release
    BY <1>1, <1>7 DEF Release, Kind
  <1>8. CASE Restore \/ Restored
    BY <1>1, <1>8 DEF Restore, Restored
  <1>9. ASSUME NEW p \in {"main", "handler"}, WriteCpu(p) \/ WrmsrDone(p) \/ WrmsrFails(p)
        PROVE  HeldInv'
    BY <1>2, <1>9 DEF WriteCpu, WrmsrDone, WrmsrFails
  <1>10. CASE Signal \/ HandlerExits \/ InterruptChildren
    BY <1>2, <1>10 DEF Signal, HandlerExits, InterruptChildren
  <1>11. CASE UNCHANGED mainVars
    BY <1>2, <1>11 DEF mainVars
  <1> QED
    BY <1>3, <1>4, <1>5, <1>6, <1>7, <1>8, <1>9, <1>10, <1>11, <1>12 DEF NextMain, MainStep

-----------------------------------------------------------------------------
(* Registers *)

\* A step that writes no register, starts no wrmsr and lets none fail.
LEMMA MainMoves ==
  ASSUME LifeInv, handler = "none",
         UNCHANGED <<registers, child, handler, disturbed>>,
         main' \in {"allocate", "output", "tests", "release", "restore", "returned", "killed"},
         Quiet => child["main"].state # "running",
         Quiet /\ main' = "returned" => msr = boot
  PROVE  RegisterInv'
  <1> USE DEF registers
  <1>1. Quiet' = Quiet /\ (Quiet => MainAlone)
    BY DEF LifeInv, RegisterInv, Quiet, SameOnAllCpus
  <1>2. Quiet => MainAlone'
    BY <1>1 DEF MainAlone, Quiet
  <1> QED
    BY <1>1, <1>2 DEF LifeInv, RegisterInv

\* A wrmsr that writes, or comes to its end, has come as far as it then says; the
\* other one stays as it is.
LEMMA WroteOn ==
  ASSUME MainTypeOK, NEW p \in {"main", "handler"}, WriteCpu(p) \/ WrmsrDone(p)
  PROVE  /\ Written(p) => Written(p)'
         /\ child'[p].value = child[p].value
         /\ child'[p].state \in {"running", "ok"} /\ child[p].state = "running"
         /\ \A q \in {"main", "handler"} \ {p} : child'[q] = child[q]
  <1> USE DEF MainTypeOK
  <1>1. CASE WriteCpu(p)
    <2>1. /\ child' = [child EXCEPT ![p].next = @ + 1] /\ child[p].state = "running"
          /\ msr' = [msr EXCEPT ![child[p].next] = child[p].value]
          /\ child[p].next \in Cpu
      BY <1>1, Constants DEF WriteCpu, Cpu
    <2>2. /\ child'[p].state = "running" /\ child'[p].value = child[p].value
          /\ child'[p].next = child[p].next + 1
          /\ \A q \in {"main", "handler"} \ {p} : child'[q] = child[q]
      BY <2>1
    <2>3. ASSUME Written(p), NEW c \in Cpu, c < child'[p].next
          PROVE  msr'[c] = child'[p].value
      <3>1. CASE c = child[p].next
        BY <2>1, <2>2, <3>1
      <3>2. CASE c < child[p].next
        <4>1. msr'[c] = msr[c]
          BY <2>1, <3>2 DEF Cpu
        <4> QED
          BY <2>2, <2>3, <3>2, <4>1 DEF Written
      <3> QED
        BY <2>1, <2>2, <2>3, <3>1, <3>2 DEF Cpu
    <2> QED
      BY <2>1, <2>2, <2>3 DEF Written
  <1>2. CASE WrmsrDone(p)
    <2>1. /\ child'[p].state = "ok" /\ child'[p].value = child[p].value
          /\ child'[p].next = Cpus /\ child[p].next = Cpus /\ child[p].state = "running"
          /\ msr' = msr
          /\ \A q \in {"main", "handler"} \ {p} : child'[q] = child[q]
      BY <1>2 DEF WrmsrDone, registers
    <2> QED
      BY <2>1 DEF Written
  <1> QED
    BY <1>1, <1>2

LEMMA WrmsrMoves ==
  ASSUME LifeInv, NEW p \in {"main", "handler"}, WriteCpu(p) \/ WrmsrDone(p)
  PROVE  RegisterInv'
  <1>1. MainTypeOK /\ RegisterInv
    BY DEF LifeInv
  <1>2. /\ Written(p) => Written(p)'
        /\ child'[p].value = child[p].value
        /\ child'[p].state \in {"running", "ok"} /\ child[p].state = "running"
        /\ \A q \in {"main", "handler"} \ {p} : child'[q] = child[q]
    BY <1>1, WroteOn
  <1>3. UNCHANGED <<option, main, boot, saved, handler, disturbed>>
    BY DEF WriteCpu, WrmsrDone, registers
  <1>4. saved # NoSetting /\ Quiet' = Quiet
    BY <1>1, <1>2, <1>3 DEF RegisterInv, Quiet, SameOnAllCpus
  <1>5. Quiet /\ handler = "none" => MainAlone'
    <2> SUFFICES ASSUME Quiet, handler = "none"
                 PROVE  MainAlone'
      OBVIOUS
    <2>1. MainAlone
      BY <1>1 DEF RegisterInv
    <2>2. p = "main" /\ main \in {"setting", "restoring"}
      BY <1>2, <2>1 DEF MainAlone
    <2>3. child'["handler"] = child["handler"]
      BY <1>2, <2>2
    <2> QED
      BY <1>2, <1>3, <2>1, <2>2, <2>3 DEF MainAlone
  <1>6. Quiet /\ handler = "restoring" => HandlerAlone'
    <2> SUFFICES ASSUME Quiet, handler = "restoring"
                 PROVE  HandlerAlone'
      OBVIOUS
    <2>1. HandlerAlone
      BY <1>1 DEF RegisterInv
    <2>2. p = "handler" /\ child'["main"] = child["main"]
      BY <1>2, <2>1 DEF HandlerAlone
    <2> QED
      BY <1>2, <1>3, <2>1, <2>2 DEF HandlerAlone
  <1>7. ~(Quiet /\ handler = "exited")
    BY <1>1, <1>2 DEF RegisterInv, Writing
  <1>8. \A q \in {"main", "handler"} : child'[q].state # "idle" => child'[q].value # NoSetting
    BY <1>1, <1>2 DEF RegisterInv
  <1> QED
    BY <1>1, <1>3, <1>4, <1>5, <1>6, <1>7, <1>8 DEF RegisterInv

LEMMA RegisterStep == LifeInv /\ [NextMain]_mainVars => RegisterInv'
  <1> SUFFICES ASSUME LifeInv, [NextMain]_mainVars
               PROVE  RegisterInv'
    OBVIOUS
  <1>1. MainTypeOK /\ RegisterInv
    BY DEF LifeInv
  <1> USE DEF registers, resources
  <1>2. Quiet /\ handler = "none" => MainAlone
    BY <1>1 DEF RegisterInv
  <1>3. CASE SavePrefetcher
    <2>1. saved = NoSetting /\ msr = boot /\ \A p \in {"main", "handler"} : child[p].state = "idle"
      BY <1>1, <1>3 DEF SavePrefetcher, RegisterInv
    <2>2. saved' = boot[0] /\ saved' # NoSetting
      BY <1>1, <1>3, <2>1, Constants, LifecycleAssumption DEF SavePrefetcher, MainTypeOK
    <2>3. MainAlone'
      BY <1>3, <2>1, <2>2 DEF SavePrefetcher, MainAlone
    <2> QED
      BY <1>1, <1>3, <2>1, <2>2, <2>3 DEF SavePrefetcher, MainRuns, RegisterInv
  <1>4. CASE RdmsrFails \/ SkipPrefetcher
    <2>1. saved = NoSetting /\ msr = boot /\ child["main"].state = "idle"
      BY <1>1, <1>4 DEF RdmsrFails, SkipPrefetcher, RegisterInv
    <2> QED
      BY <1>4, <2>1, MainMoves DEF RdmsrFails, SkipPrefetcher, MainRuns
  <1>5. CASE SetPrefetcher
    <2>1. /\ option # NoSetting /\ handler = "none"
          /\ child' = [child EXCEPT !["main"] = WrmsrOf(option)]
      BY <1>1, <1>5 DEF SetPrefetcher, MainRuns, RegisterInv
    <2>2. /\ child'["main"].state = "running" /\ child'["main"].value # NoSetting
          /\ child'["handler"] = child["handler"]
      BY <1>1, <2>1 DEF MainTypeOK, WrmsrOf
    <2>3. Quiet => MainAlone'
      BY <1>2, <1>5, <2>1, <2>2 DEF SetPrefetcher, MainAlone
    <2> QED
      BY <1>1, <1>5, <2>1, <2>2, <2>3
      DEF SetPrefetcher, RegisterInv, Quiet, SameOnAllCpus
  <1>6. CASE PrefetcherSet
    <2>1. Quiet => child["main"].state = "ok"
      BY <1>2, <1>6 DEF PrefetcherSet, MainRuns, MainAlone
    <2> QED
      BY <1>6, <2>1, MainMoves DEF PrefetcherSet, MainRuns
  <1>7. CASE NoMemory \/ TakeMemory \/ NoResults \/ OpenResults \/ RunTests \/ Release
    <2>1. Quiet => child["main"].state # "running"
      BY <1>2, <1>7
      DEF NoMemory, TakeMemory, NoResults, OpenResults, RunTests, Release, MainRuns,
          MainAlone
    <2> QED
      BY <1>7, <2>1, MainMoves
      DEF NoMemory, TakeMemory, NoResults, DropMemory, OpenResults, RunTests, Release, MainRuns
  <1>8. CASE Restore
    <2>1. handler = "none" /\ (Quiet => MainAlone)
      BY <1>2, <1>8 DEF Restore, MainRuns
    <2>2. CASE saved = NoSetting
      <3>1. msr = boot /\ child["main"].state = "idle"
        BY <1>1, <2>2 DEF RegisterInv
      <3> QED
        BY <1>8, <2>1, <2>2, <3>1, MainMoves DEF Restore
    <2>3. CASE saved # NoSetting
      <3>1. /\ child'["main"] = WrmsrOf(saved)
            /\ child'["handler"] = child["handler"]
            /\ UNCHANGED <<registers, handler, disturbed>> /\ main' = "restoring"
        BY <1>1, <1>8, <2>3 DEF Restore, MainTypeOK
      <3>2. Written("main")'
        BY <3>1 DEF Written, WrmsrOf, Cpu
      <3>3. Quiet => MainAlone'
        BY <2>1, <3>1, <3>2 DEF MainAlone, WrmsrOf
      <3> QED
        BY <1>1, <2>1, <2>3, <3>1, <3>3 DEF RegisterInv, Quiet, SameOnAllCpus, WrmsrOf
    <2> QED
      BY <2>2, <2>3
  <1>9. CASE Restored
    <2>1. Quiet => msr = boot
      <3> SUFFICES ASSUME Quiet
                   PROVE  msr = boot
        OBVIOUS
      <3>1. Written("main") /\ child["main"].value = saved /\ saved = boot[0]
        BY <1>1, <1>2, <1>9 DEF Restored, MainRuns, MainAlone, RegisterInv
      <3>2. child["main"].state = "ok"
        BY <1>9, <3>1 DEF Restored, Written
      <3> QED
        BY <1>1, <3>1, <3>2, WroteAll DEF Quiet
    <2>2. child["main"].state # "running"
      BY <1>9 DEF Restored
    <2> QED
      BY <1>9, <2>1, <2>2, MainMoves DEF Restored, MainRuns
  <1>10. ASSUME NEW p \in {"main", "handler"}, WriteCpu(p) \/ WrmsrDone(p)
         PROVE  RegisterInv'
    BY <1>10, WrmsrMoves
  <1>12. ASSUME NEW p \in {"main", "handler"}, WrmsrFails(p)
         PROVE  RegisterInv'
    <2>1. ~Quiet' /\ child[p].state = "running"
      BY <1>12 DEF WrmsrFails, Quiet
    <2>2. \A q \in {"main", "handler"} : child'[q].value = child[q].value
      BY <1>1, <1>12 DEF WrmsrFails, MainTypeOK
    <2>3. \A q \in {"main", "handler"} : child'[q].state # "idle" => child[q].state # "idle"
      BY <1>1, <1>12, <2>1 DEF WrmsrFails, MainTypeOK
    <2> QED
      BY <1>1, <1>12, <2>1, <2>2, <2>3 DEF WrmsrFails, RegisterInv
  <1>13. CASE Signal
    <2>1. /\ handler = "none" /\ UNCHANGED <<option, main, registers>>
          /\ Quiet' = (Quiet /\ ~Writing)
      BY <1>13 DEF Signal, Quiet, SameOnAllCpus
    <2>2. CASE saved = NoSetting
      <3>1. handler' = "exited" /\ child' = child
        BY <1>13, <2>2 DEF Signal
      <3> QED
        BY <1>1, <2>1, <2>2, <3>1 DEF RegisterInv, Writing
    <2>3. CASE saved # NoSetting
      <3>1. /\ handler' = "restoring" /\ child'["handler"] = WrmsrOf(saved)
            /\ child'["main"] = child["main"]
        BY <1>1, <1>13, <2>3 DEF Signal, MainTypeOK
      <3>2. Written("handler")' /\ child'["handler"].value = saved
        BY <3>1 DEF Written, WrmsrOf, Cpu
      <3>3. Quiet' => child'["main"].state # "running"
        BY <2>1, <3>1 DEF Writing
      <3>4. main' # "returned" /\ saved' # NoSetting /\ saved' = saved
        BY <1>13, <2>3 DEF Signal
      <3>5. Quiet' => HandlerAlone'
        BY <3>2, <3>3, <3>4 DEF HandlerAlone
      <3> QED
        BY <1>1, <2>1, <2>3, <3>1, <3>5 DEF RegisterInv, WrmsrOf
    <2> QED
      BY <2>2, <2>3
  <1>14. CASE HandlerExits
    <2>1. /\ handler = "restoring" /\ handler' = "exited"
          /\ child["handler"].state \in {"ok", "failed"}
          /\ UNCHANGED <<option, main, registers, child, disturbed>>
          /\ Quiet' = Quiet
      BY <1>14 DEF HandlerExits, Quiet, SameOnAllCpus
    <2>2. Quiet => msr = boot /\ ~Writing
      <3> SUFFICES ASSUME Quiet
                   PROVE  msr = boot /\ ~Writing
        OBVIOUS
      <3>1. HandlerAlone /\ saved = boot[0]
        BY <1>1, <2>1 DEF RegisterInv, HandlerAlone
      <3>2. child["handler"].state = "ok"
        BY <2>1, <3>1 DEF HandlerAlone, Written
      <3>3. msr = boot
        BY <1>1, <3>1, <3>2, WroteAll DEF HandlerAlone, Quiet
      <3> QED
        BY <3>1, <3>2, <3>3 DEF HandlerAlone, Writing
    <2> QED
      BY <1>1, <2>1, <2>2 DEF RegisterInv, Writing
  <1>15. CASE InterruptChildren
    <2>1. ~Quiet'
      BY <1>15 DEF InterruptChildren, Quiet
    <2>2. /\ saved # NoSetting
          /\ \A q \in {"main", "handler"} :
               /\ child'[q].value = child[q].value
               /\ child'[q].state # "idle" => child[q].state # "idle"
      BY <1>1, <1>15 DEF InterruptChildren, Writing, MainTypeOK, RegisterInv
    <2> QED
      BY <1>1, <1>15, <2>1, <2>2 DEF InterruptChildren, RegisterInv
  <1>16. CASE UNCHANGED mainVars
    BY <1>1, <1>16
    DEF mainVars, RegisterInv, Quiet, SameOnAllCpus, MainAlone, HandlerAlone, Written, Writing
  <1> QED
    BY <1>3, <1>4, <1>5, <1>6, <1>7, <1>8, <1>9, <1>10, <1>12, <1>13, <1>14, <1>15, <1>16
    DEF NextMain, MainStep

-----------------------------------------------------------------------------
(* The theorems *)

LEMMA InitLife == InitMain => LifeInv
  <1> SUFFICES ASSUME InitMain
               PROVE  LifeInv
    OBVIOUS
  <1>1. MainTypeOK
    BY InitType
  <1>2. HeldInv
    BY DEF InitMain, HeldInv, ReturnReleases
  <1>3. \A p \in {"main", "handler"} : child[p].state = "idle"
    BY DEF InitMain, Idle
  <1>4. MainAlone
    BY <1>3 DEF InitMain, MainAlone
  <1>5. RegisterInv
    BY <1>3, <1>4 DEF InitMain, RegisterInv
  <1> QED
    BY <1>1, <1>2, <1>5 DEF LifeInv

THEOREM LifecycleInvariant == SpecMain => []LifeInv
  <1>1. LifeInv /\ [NextMain]_mainVars => LifeInv'
    BY TypeStep, HeldStep, RegisterStep DEF LifeInv
  <1> QED
    BY InitLife, <1>1, PTL DEF SpecMain

\* Every variable keeps its type; only a boot value is ever saved.
THEOREM LifecycleTypeCorrect == SpecMain => []MainTypeOK
  <1>1. LifeInv => MainTypeOK
    BY DEF LifeInv
  <1> QED
    BY LifecycleInvariant, <1>1, PTL

\* A return that ran the tests has released the memory and closed device and file; one
\* before the tests has too, but for memory that was not the device's when there was no
\* result file: free() was given that, and it is still there.
THEOREM ReturnAlwaysReleases == SpecMain => []ReturnReleases
  <1>1. LifeInv => ReturnReleases
    BY DEF LifeInv, HeldInv
  <1> QED
    BY LifecycleInvariant, <1>1, PTL

\* When main has returned or the handler has exited, the register of every CPU is what
\* it was, if no wrmsr failed or met a signal and the CPUs agreed.
THEOREM RegistersAlwaysComeBack == SpecMain => []RegistersComeBack
  <1>1. LifeInv => RegistersComeBack
    <2> SUFFICES ASSUME LifeInv, Over, disturbed = {}, SameOnAllCpus
                 PROVE  msr = boot
      BY DEF RegistersComeBack
    <2>1. Quiet /\ RegisterInv /\ handler \in {"none", "restoring", "exited"}
      BY DEF LifeInv, Quiet, MainTypeOK
    <2> QED
      BY <2>1 DEF RegisterInv, MainAlone, HandlerAlone, Over
  <1> QED
    BY LifecycleInvariant, <1>1, PTL

-----------------------------------------------------------------------------
(* What --prefetch asked for *)

\* While no handler runs, main's wrmsr of the asked value has come as far as it says,
\* and once main goes on to the tests it is through and nothing writes any more.
AskedInv ==
  handler = "none" /\ option # NoSetting =>
    /\ child["handler"].state = "idle"
    /\ main = "setting" =>
         /\ child["main"].value = option
         /\ child["main"].state = "ok" => child["main"].next = Cpus
         /\ \A c \in Cpu : c < child["main"].next => msr[c] = option
    /\ main \in {"allocate", "output", "tests"} =>
         /\ child["main"].state = "ok"
         /\ \A c \in Cpu : msr[c] = option

LEMMA AskedStep == LifeInv /\ AskedInv /\ [NextMain]_mainVars => AskedInv'
  <1> SUFFICES ASSUME LifeInv, AskedInv, [NextMain]_mainVars, handler' = "none", option' # NoSetting
               PROVE  AskedInv'
    BY DEF AskedInv
  <1>1. /\ MainTypeOK /\ handler = "none" /\ option # NoSetting
        /\ child["handler"].state = "idle"
    BY DEF LifeInv, AskedInv, NextMain, MainStep, SavePrefetcher, RdmsrFails, SetPrefetcher,
       PrefetcherSet, SkipPrefetcher, NoMemory, TakeMemory, NoResults, OpenResults,
       RunTests, Release, Restore, Restored, WriteCpu, WrmsrDone, WrmsrFails, Signal,
       HandlerExits, InterruptChildren, mainVars
  <1> USE DEF registers, resources
  <1>2. CASE SavePrefetcher \/ RdmsrFails \/ SkipPrefetcher \/ Restored
    BY <1>1, <1>2 DEF SavePrefetcher, RdmsrFails, SkipPrefetcher, Restored, AskedInv
  <1>3. CASE SetPrefetcher
    <2>1. /\ child'["main"] = WrmsrOf(option) /\ child'["handler"] = child["handler"]
          /\ main' = "setting"
      BY <1>1, <1>3 DEF SetPrefetcher, MainTypeOK
    <2> QED
      BY <1>1, <1>3, <2>1 DEF SetPrefetcher, WrmsrOf, AskedInv, Cpu
  <1>4. CASE PrefetcherSet
    <2>1. main' = "allocate" => \A c \in Cpu : msr[c] = option
      BY <1>1, <1>4, Constants DEF PrefetcherSet, AskedInv, Cpu
    <2> QED
      BY <1>1, <1>4, <2>1 DEF PrefetcherSet, AskedInv
  <1>5. CASE NoMemory \/ TakeMemory \/ NoResults \/ OpenResults \/ RunTests \/ Release
    BY <1>1, <1>5
    DEF NoMemory, TakeMemory, NoResults, DropMemory, OpenResults, RunTests, Release, AskedInv
  <1>6. CASE Restore
    <2>1. child'["handler"] = child["handler"]
      BY <1>6 DEF Restore, LifeInv, MainTypeOK
    <2> QED
      BY <1>1, <1>6, <2>1 DEF Restore, AskedInv
  <1>7. ASSUME NEW p \in {"main", "handler"}, WriteCpu(p)
        PROVE  AskedInv'
    <2>1. /\ p = "main" /\ child["main"].state = "running" /\ child["main"].next \in Cpu
          /\ main \notin {"allocate", "output", "tests"}
      BY <1>1, <1>7, Constants DEF WriteCpu, AskedInv, MainTypeOK, Cpu
    <2>2. /\ msr' = [msr EXCEPT ![child["main"].next] = child["main"].value]
          /\ child' = [child EXCEPT !["main"].next = @ + 1] /\ UNCHANGED <<option, main>>
      BY <1>7, <2>1 DEF WriteCpu
    <2>3. /\ child'["main"].state = "running" /\ child'["main"].value = child["main"].value
          /\ child'["main"].next = child["main"].next + 1
          /\ child'["handler"] = child["handler"]
      BY <2>1, <2>2 DEF LifeInv, MainTypeOK
    <2>4. \A c \in Cpu : main = "setting" /\ c < child'["main"].next => msr'[c] = option
      BY <1>1, <2>1, <2>2, <2>3 DEF AskedInv, MainTypeOK, Cpu
    <2> QED
      BY <1>1, <2>1, <2>2, <2>3, <2>4 DEF AskedInv
  <1>8. ASSUME NEW p \in {"main", "handler"}, WrmsrDone(p) \/ WrmsrFails(p)
        PROVE  AskedInv'
    <2>1. /\ p = "main" /\ child["main"].state = "running"
          /\ main \notin {"allocate", "output", "tests"}
      BY <1>1, <1>8 DEF WrmsrDone, WrmsrFails, AskedInv
    <2>2. PICK state : child' = [child EXCEPT ![p].state = state]
                       /\ (state = "ok" => child[p].next = Cpus)
      BY <1>8 DEF WrmsrDone, WrmsrFails
    <2>3. /\ child'["main"].state = state /\ child'["main"].value = child["main"].value
          /\ child'["main"].next = child["main"].next
          /\ child'["handler"] = child["handler"]
      BY <2>1, <2>2 DEF LifeInv, MainTypeOK
    <2>4. UNCHANGED <<option, main, msr, handler>>
      BY <1>8 DEF WrmsrDone, WrmsrFails
    <2> QED
      BY <1>1, <2>1, <2>2, <2>3, <2>4 DEF AskedInv
  <1>9. CASE Signal \/ HandlerExits
    BY <1>1, <1>9 DEF Signal, HandlerExits
  <1>10. CASE InterruptChildren
    <2>1. /\ child["main"].state = "running" /\ main \notin {"allocate", "output", "tests"}
          /\ UNCHANGED <<option, main, msr>>
      BY <1>1, <1>10 DEF InterruptChildren, Writing, AskedInv
    <2>2. /\ child'["handler"] = child["handler"]
          /\ child'["main"] = [child["main"] EXCEPT !.state = "failed"]
      BY <1>1, <1>10, <2>1 DEF InterruptChildren, MainTypeOK
    <2>3. /\ child'["main"].state = "failed" /\ child'["main"].value = child["main"].value
          /\ child'["main"].next = child["main"].next
      BY <2>2 DEF LifeInv, MainTypeOK
    <2> QED
      BY <1>1, <2>1, <2>2, <2>3 DEF AskedInv
  <1>11. CASE UNCHANGED mainVars
    BY <1>1, <1>11 DEF mainVars, AskedInv
  <1> QED
    BY <1>2, <1>3, <1>4, <1>5, <1>6, <1>7, <1>8, <1>9, <1>10, <1>11 DEF NextMain, MainStep

\* No test starts before every CPU has the prefetcher setting that was asked for, and
\* nothing but the signal handler changes it while the tests run.
THEOREM TestsAlwaysAsAsked == SpecMain => []TestsRunAsAsked
  <1>1. InitMain => AskedInv
    BY DEF InitMain, Idle, AskedInv
  <1>2. AskedInv => TestsRunAsAsked
    BY DEF AskedInv, TestsRunAsAsked
  <1> QED
    BY LifecycleInvariant, AskedStep, <1>1, <1>2, PTL DEF SpecMain

-----------------------------------------------------------------------------
(* The bytes of firstTouchData (FirstTouch) *)

\* The end of one share is not after the beginning of a later one.
LEMMA SharesInOrder ==
  ASSUME NEW i \in Nat, NEW k \in Nat, NEW d \in Nat, i < k
  PROVE  i * d + d <= k * d
  <1>1. PICK r \in Nat : k = i + 1 + r
    <2>1. k - (i + 1) \in Nat
      OBVIOUS
    <2> QED
      BY <2>1
  <1>2. k * d = i * d + d + r * d
    BY <1>1
  <1>3. r * d \in Nat
    OBVIOUS
  <1> QED
    BY <1>2, <1>3

\* The shares of all threads lie in the data.
LEMMA SharesFit ==
  ASSUME NEW n \in Nat \ {0}, NEW s \in Nat
  PROVE  /\ s \div n \in Nat
         /\ n * (s \div n) <= s
         /\ s - n * (s \div n) < n
  <1>1. s \div n \in Nat
    OBVIOUS
  <1>2. s % n \in 0 .. n - 1
    OBVIOUS
  <1>3. s = n * (s \div n) + (s % n)
    OBVIOUS
  <1>4. n * (s \div n) \in Nat
    BY <1>1
  <1> QED
    BY <1>1, <1>2, <1>3, <1>4

\* What is known of the shares, for the arithmetic that follows.
LEMMA Shares ==
  ASSUME NEW size \in Nat, NEW n \in Nat \ {0}, NEW t \in 0 .. n - 1
  PROVE  /\ Share(size, n) \in Nat
         /\ base(size, n, t) \in Nat /\ per_thread(size, n, t) \in Nat
         /\ base(size, n, t) + per_thread(size, n, t) <= size
  <1> DEFINE s == Share(size, n)
  <1>1. s \in Nat /\ n * s <= size
    BY SharesFit DEF Share
  <1> HIDE DEF s
  <1>2. t * s + s <= n * s
    BY <1>1, SharesInOrder
  <1>3. t * s \in Nat /\ n * s \in Nat
    BY <1>1
  <1>4. /\ base(size, n, t) = t * s
        /\ per_thread(size, n, t) = IF t = n - 1 THEN size - t * s ELSE s
    BY DEF base, per_thread, s
  <1> QED
    BY <1>1, <1>2, <1>3, <1>4 DEF s

\* Every byte of the data is in the share of a thread.
LEMMA SomeThreadsShare ==
  ASSUME NEW size \in Nat, NEW n \in Nat \ {0}, NEW x \in 0 .. size - 1
  PROVE  \E t \in 0 .. n - 1 :
           base(size, n, t) <= x /\ x < base(size, n, t) + per_thread(size, n, t)
  <1> DEFINE s == Share(size, n)
             last == n - 1
  <1>1. s \in Nat /\ last \in 0 .. n - 1 /\ last * s \in Nat
    <2>1. s \in Nat
      BY SharesFit DEF Share
    <2> HIDE DEF s
    <2> QED
      BY <2>1
  <1>2. CASE last * s <= x
    <2>1. base(size, n, last) = last * s /\ per_thread(size, n, last) = size - last * s
      BY DEF base, per_thread
    <2> HIDE DEF s, last
    <2> QED
      BY <1>1, <1>2, <2>1
  <1>3. CASE x < last * s
    <2> DEFINE q == x \div s
    <2>1. s # 0
      BY <1>1, <1>3
    <2> HIDE DEF s
    <2>2. q \in Nat /\ q * s <= x /\ x < q * s + s
      <3>1. q \in Nat
        BY <1>1, <2>1
      <3>2. x % s \in 0 .. s - 1
        BY <1>1, <2>1
      <3>3. x = s * q + (x % s)
        BY <1>1, <2>1
      <3>4. q * s = s * q /\ s * q \in Nat
        BY <1>1, <3>1
      <3> HIDE DEF q
      <3> QED
        BY <1>1, <3>1, <3>2, <3>3, <3>4
    <2> HIDE DEF q
    <2>3. q < last
      <3> SUFFICES ASSUME q >= last PROVE FALSE
        BY <1>1, <2>2
      <3>1. CASE q = last
        <4> HIDE DEF last
        <4> QED
          BY <3>1, <2>2, <1>1, <1>3
      <3>2. CASE last < q
        <4>1. last * s + s <= q * s
          BY <3>2, <1>1, <2>2, SharesInOrder
        <4>2. q * s \in Nat
          BY <1>1, <2>2
        <4> HIDE DEF last
        <4> QED
          BY <1>1, <1>3, <4>1, <4>2, <2>2
      <3> QED
        BY <3>1, <3>2, <1>1, <2>2
    <2>4. q \in 0 .. n - 1 /\ q # n - 1
      BY <1>1, <2>2, <2>3
    <2>5. base(size, n, q) = q * s /\ per_thread(size, n, q) = s
      BY <2>4 DEF base, per_thread, s
    <2> QED
      BY <2>2, <2>4, <2>5
  <1> QED
    BY <1>1, <1>2, <1>3

\* The last written byte before a place of a share, or at it, is less than a page away.
LEMMA LastPageBefore ==
  ASSUME NEW a \in Nat
  PROVE  /\ a \div PageSize \in 0 .. a
         /\ (a \div PageSize) * PageSize <= a
         /\ a < (a \div PageSize) * PageSize + PageSize
  <1> DEFINE k == a \div PageSize
  <1>1. k \in Nat
    BY PageAssumption
  <1>2. a % PageSize \in 0 .. PageSize - 1
    BY PageAssumption
  <1>3. a = PageSize * k + (a % PageSize)
    BY PageAssumption
  <1> HIDE DEF k
  <1>4. k * PageSize = PageSize * k /\ PageSize * k \in Nat
    BY <1>1, PageAssumption
  <1>5. k <= k * PageSize
    <2>1. PICK r \in Nat : PageSize = r + 1
      <3>1. PageSize - 1 \in Nat /\ PageSize = (PageSize - 1) + 1
        BY PageAssumption
      <3> QED
        BY <3>1
    <2>2. k * (r + 1) = k * r + k
      BY <1>1
    <2>3. k * r \in Nat
      BY <1>1
    <2> QED
      BY <1>1, <2>1, <2>2, <2>3
  <1> QED
    BY <1>1, <1>2, <1>3, <1>4, <1>5, PageAssumption DEF k

\* Pre-faulting writes into the data only, whose other bytes may be another's.
THEOREM TouchesDataOnly ==
  ASSUME NEW size \in Nat, NEW n \in Nat \ {0}
  PROVE  Touched(size, n) \subseteq 0 .. size - 1
  <1> SUFFICES ASSUME NEW t \in 0 .. n - 1, NEW byte \in TouchedBy(size, n, t)
               PROVE  byte \in 0 .. size - 1
    BY DEF Touched
  <1>1. PICK k \in 0 .. per_thread(size, n, t) :
          k * PageSize < per_thread(size, n, t) /\ byte = base(size, n, t) + k * PageSize
    BY DEF TouchedBy
  <1>2. /\ base(size, n, t) \in Nat /\ per_thread(size, n, t) \in Nat
        /\ base(size, n, t) + per_thread(size, n, t) <= size
    BY Shares
  <1>3. k * PageSize \in Nat
    BY <1>1, <1>2, PageAssumption
  <1> QED
    BY <1>1, <1>2, <1>3

\* "so the whole region is faulted" (line 58): any PageSize bytes of the data in a row
\* hold a written one, so every page that is all data does, wherever the shares begin
\* and end.
THEOREM WholeRegionIsFaulted ==
  ASSUME NEW size \in Nat, NEW n \in Nat \ {0}, NEW from \in 0 .. size - PageSize
  PROVE  \E byte \in Touched(size, n) : from <= byte /\ byte < from + PageSize
  <1> DEFINE x == from + PageSize - 1
  <1>1. x \in 0 .. size - 1
    BY PageAssumption
  <1>2. PICK t \in 0 .. n - 1 :
          base(size, n, t) <= x /\ x < base(size, n, t) + per_thread(size, n, t)
    BY <1>1, SomeThreadsShare
  <1>3. base(size, n, t) \in Nat /\ per_thread(size, n, t) \in Nat
    BY Shares
  <1> DEFINE a == x - base(size, n, t)
             k == a \div PageSize
             byte == base(size, n, t) + k * PageSize
  <1>4. a \in Nat /\ a < per_thread(size, n, t)
    BY <1>1, <1>2, <1>3
  <1>5. k \in 0 .. a /\ k * PageSize <= a /\ a < k * PageSize + PageSize
    <2> HIDE DEF a
    <2> QED
      BY <1>4, LastPageBefore
  <1>6. k * PageSize \in Nat
    <2> HIDE DEF a, k
    <2> QED
      BY <1>4, <1>5, PageAssumption
  <1>7. byte \in Touched(size, n)
    <2>1. k \in 0 .. per_thread(size, n, t) /\ k * PageSize < per_thread(size, n, t)
      <3> HIDE DEF a, k
      <3> QED
        BY <1>3, <1>4, <1>5, <1>6
    <2> HIDE DEF k
    <2>2. byte \in TouchedBy(size, n, t)
      BY <2>1 DEF TouchedBy
    <2> QED
      BY <2>2 DEF Touched
  <1>8. from <= byte /\ byte < from + PageSize
    <2> HIDE DEF k
    <2> QED
      BY <1>2, <1>3, <1>5, <1>6, PageAssumption
  <1> QED
    BY <1>7, <1>8

-----------------------------------------------------------------------------
(* Memory and result files (Microbench) *)

-----------------------------------------------------------------------------
(* Columns *)

\* What Columns builds up, test by test.
Picked(g, s, S, n) ==
  g = [k \in 0 .. n |-> IF k = 0 THEN <<>>
                        ELSE IF s[k] \in S THEN Append(g[k - 1], s[k]) ELSE g[k - 1]]

LEMMA PickedExists == ASSUME NEW n \in Nat, NEW s, NEW S PROVE \E g : Picked(g, s, S, n)
  <1> DEFINE Next1(prev, k) == IF s[k] \in S THEN Append(prev, s[k]) ELSE prev
             Picks(g, m) == g = [k \in 0 .. m |-> IF k = 0 THEN <<>> ELSE Next1(g[k - 1], k)]
             N == {m \in Nat : \E g : Picks(g, m)}
  <1> HIDE DEF Next1
  <1>1. 0 \in N
    <2>1. Picks([k \in 0 .. 0 |-> <<>>], 0)
      OBVIOUS
    <2> HIDE DEF Picks
    <2> QED
      BY <2>1
  <1>2. ASSUME NEW m \in N PROVE m + 1 \in N
    <2>1. m \in Nat /\ \E g : Picks(g, m)
      <3> HIDE DEF Picks
      <3> QED
        OBVIOUS
    <2>2. PICK g : Picks(g, m)
      BY <2>1
    <2> DEFINE h == [k \in 0 .. m + 1 |-> IF k = m + 1 THEN Next1(g[m], m + 1) ELSE g[k]]
    <2>3. ASSUME NEW k \in 0 .. m + 1
          PROVE  h[k] = IF k = 0 THEN <<>> ELSE Next1(h[k - 1], k)
      <3>1. CASE k = m + 1
        <4>1. k # 0 /\ k - 1 = m /\ m \in 0 .. m + 1 /\ m # m + 1
          BY <2>1, <3>1
        <4>2. h[k] = Next1(g[m], m + 1) /\ h[k - 1] = g[m]
          BY <3>1, <4>1
        <4> QED
          BY <3>1, <4>1, <4>2
      <3>2. CASE k # m + 1
        <4>1. k \in 0 .. m /\ (k # 0 => k - 1 \in 0 .. m + 1 /\ k - 1 # m + 1)
          BY <2>1, <3>2
        <4>2. h[k] = g[k] /\ (k # 0 => h[k - 1] = g[k - 1])
          BY <3>2, <4>1
        <4>3. g[k] = IF k = 0 THEN <<>> ELSE Next1(g[k - 1], k)
          BY <2>2, <4>1
        <4> HIDE DEF h
        <4> QED
          BY <4>2, <4>3
      <3> QED
        BY <3>1, <3>2
    <2>4. Picks(h, m + 1)
      BY <2>3
    <2> HIDE DEF h, Picks
    <2>5. m + 1 \in Nat
      BY <2>1
    <2> QED
      BY <2>4, <2>5
  <1>3. N = Nat
    <2> HIDE DEF N
    <2>1. N \in SUBSET Nat
      BY DEF N
    <2> QED
      BY <1>1, <1>2, <2>1, EveryNumber
  <1>4. \E g : Picks(g, n)
    <2> HIDE DEF Picks
    <2> QED
      BY <1>3
  <1> QED
    BY <1>4 DEF Next1, Picked

LEMMA ColumnsAre ==
  ASSUME NEW T, NEW order \in Seq(T), NEW c
  PROVE  Columns(order, c) \in Seq(T) /\ Range(Columns(order, c)) = Range(order) \cap runs(c)
  <1> DEFINE n == Len(order)
             cols == CHOOSE g : g = [k \in 0 .. n |-> IF k = 0 THEN <<>>
                       ELSE IF order[k] \in runs(c) THEN Append(g[k - 1], order[k]) ELSE g[k - 1]]
  <1>1. n \in Nat /\ order \in [1 .. n -> T]
    BY LenProperties
  <1>2. cols = [k \in 0 .. n |-> IF k = 0 THEN <<>>
                  ELSE IF order[k] \in runs(c) THEN Append(cols[k - 1], order[k]) ELSE cols[k - 1]]
    <2>1. \E g : Picked(g, order, runs(c), n)
      BY <1>1, PickedExists
    <2> QED
      BY <2>1 DEF Picked
  <1>3. Columns(order, c) = cols[n]
    BY DEF Columns
  <1> HIDE DEF cols, n
  <1> DEFINE Good(k) == /\ cols[k] \in Seq(T)
                        /\ Range(cols[k]) = {order[j] : j \in 1 .. k} \cap runs(c)
             N == {k \in Nat : k <= n => Good(k)}
  <1>4. 0 \in N
    <2>1. cols[0] = <<>>
      BY <1>1, <1>2
    <2>2. Range(<<>>) = {} /\ <<>> \in Seq(T)
      BY DEF Range
    <2>3. Good(0)
      BY <2>1, <2>2
    <2> HIDE DEF Good
    <2> QED
      BY <2>3
  <1>5. ASSUME NEW k \in N PROVE k + 1 \in N
    <2> SUFFICES ASSUME k + 1 <= n PROVE Good(k + 1)
      OBVIOUS
    <2>1. k \in Nat /\ k + 1 \in 0 .. n /\ (k + 1) - 1 = k /\ k + 1 # 0 /\ k + 1 \in 1 .. n
      BY <1>1
    <2>2. Good(k)
      BY <1>1, <2>1
    <2>3. cols[k + 1] = IF order[k + 1] \in runs(c) THEN Append(cols[k], order[k + 1]) ELSE cols[k]
      BY <1>2, <2>1
    <2>4. {order[j] : j \in 1 .. k + 1} = {order[j] : j \in 1 .. k} \cup {order[k + 1]}
      BY <2>1
    <2>5. order[k + 1] \in T
      BY <1>1, <2>1
    <2>6. CASE order[k + 1] \in runs(c)
      <3>1. cols[k + 1] = Append(cols[k], order[k + 1]) /\ cols[k + 1] \in Seq(T)
        BY <2>2, <2>3, <2>5, <2>6, AppendProperties
      <3>2. Range(cols[k + 1]) = Range(cols[k]) \cup {order[k + 1]}
        <4> DEFINE a == cols[k]
                   e == order[k + 1]
        <4>1. a \in Seq(T) /\ e \in T
          BY <2>2, <2>5
        <4> HIDE DEF a, e
        <4>2. /\ DOMAIN Append(a, e) = 1 .. Len(a) + 1 /\ Len(a) \in Nat /\ DOMAIN a = 1 .. Len(a)
              /\ \A i \in 1 .. Len(a) : Append(a, e)[i] = a[i]
              /\ Append(a, e)[Len(a) + 1] = e
          BY <4>1, AppendProperties, LenProperties
        <4>3. Range(Append(a, e)) = Range(a) \cup {e}
          BY <4>2 DEF Range
        <4> QED
          BY <3>1, <4>3 DEF a, e
      <3> QED
        BY <2>2, <2>4, <2>6, <3>1, <3>2
    <2>7. CASE order[k + 1] \notin runs(c)
      BY <2>2, <2>3, <2>4, <2>7
    <2> QED
      BY <2>6, <2>7
  <1>6. N = Nat
    <2> HIDE DEF N
    <2>1. N \in SUBSET Nat
      BY DEF N
    <2> QED
      BY <1>4, <1>5, <2>1, EveryNumber
  <1>7. Good(n)
    <2> HIDE DEF Good
    <2> QED
      BY <1>1, <1>6
  <1>8. {order[j] : j \in 1 .. n} = Range(order)
    BY <1>1 DEF Range
  <1> QED
    BY <1>3, <1>7, <1>8

\* The columns of a valid command line are its tests.
LEMMA ColumnsOfTests ==
  ASSUME NEW c, ModesOk(c.mode)
  PROVE  /\ Columns(Tests, c) \in Seq(Test)
         /\ Range(Columns(Tests, c)) = runs(c)
  <1>1. Tests \in Seq(Test)
    <2>1. DOMAIN Tests = 1 .. 8 /\ Tests = [i \in 1 .. 8 |-> Tests[i]]
      BY DEF Tests
    <2>2. Tests \in [1 .. 8 -> Test]
      BY <2>1 DEF Test, Range
    <2> HIDE DEF Tests, Test
    <2>3. 8 \in Nat
      OBVIOUS
    <2> QED
      BY <2>2, <2>3, SeqDef
  <1>2. {"seq_read", "seq_write", "random_read", "random_write", "stride_read",
         "stride_write", "zipfian_read", "pointer_chase"} \subseteq Range(Tests)
    <2>1. /\ Tests[1] = "seq_read" /\ Tests[2] = "seq_write" /\ Tests[3] = "random_read"
          /\ Tests[4] = "random_write" /\ Tests[5] = "stride_read" /\ Tests[6] = "stride_write"
          /\ Tests[7] = "zipfian_read" /\ Tests[8] = "pointer_chase"
      BY DEF Tests
    <2>2. DOMAIN Tests = 1 .. 8
      BY DEF Tests
    <2> QED
      BY <2>1, <2>2 DEF Range
  <1>3. runs(c) \subseteq Range(Tests)
    <2> SUFFICES ASSUME NEW m \in Range(modes(c.mode))
                 PROVE  Expanded(m) \subseteq Range(Tests)
      BY DEF runs
    <2>1. m \in ModeToken
      BY DEF ModesOk
    <2> QED
      BY <1>2, <2>1 DEF ModeToken, Expanded, Test
  <1>4. /\ Columns(Tests, c) \in Seq(Test)
        /\ Range(Columns(Tests, c)) = Range(Tests) \cap runs(c)
    BY <1>1, ColumnsAre
  <1> QED
    BY <1>3, <1>4

-----------------------------------------------------------------------------
(* Frames *)

\* What the proofs need of the types: who has a value at all.
ShapeInv ==
  /\ command \in Commands
  /\ pc = [p \in Run |-> pc[p]]
  /\ result_dir = [p \in Run |-> result_dir[p]]
  /\ output_file_path = [p \in Run |-> output_file_path[p]]
  /\ memory_size = [p \in Run |-> memory_size[p]]
  /\ there = [p \in Run |-> there[p]]
  /\ has_header = [p \in Run |-> has_header[p]]
  /\ stream = [p \in Run |-> [mode |-> stream[p].mode, buffer |-> stream[p].buffer]]
  /\ bandwidth = [p \in Run |-> [t \in Test |-> bandwidth[p][t]]]

\* All that run q has of its own.
own(q) == <<pc[q], result_dir[q], output_file_path[q], memory_size[q], there[q],
            has_header[q], stream[q], bandwidth[q]>>

LEMMA ShapeInit == Init => ShapeInv
  BY DEF Init, ShapeInv

\* A stream with one field changed.
LEMMA OneField ==
  ASSUME NEW S, NEW f, f = [q \in S |-> [mode |-> f[q].mode, buffer |-> f[q].buffer]],
         NEW p \in S, NEW x
  PROVE  /\ [f EXCEPT ![p].mode = x] = [f EXCEPT ![p] = [mode |-> x, buffer |-> f[p].buffer]]
         /\ [f EXCEPT ![p].buffer = x] = [f EXCEPT ![p] = [mode |-> f[p].mode, buffer |-> x]]
         /\ [f EXCEPT ![p].mode = x][p] = [mode |-> x, buffer |-> f[p].buffer]
         /\ [f EXCEPT ![p].buffer = x][p] = [mode |-> f[p].mode, buffer |-> x]
  <1>1. f[p] = [mode |-> f[p].mode, buffer |-> f[p].buffer] /\ p \in DOMAIN f
    OBVIOUS
  <1>2. [f[p] EXCEPT !.mode = x] = [mode |-> x, buffer |-> f[p].buffer]
    BY <1>1
  <1>3. [f[p] EXCEPT !.buffer = x] = [mode |-> f[p].mode, buffer |-> x]
    BY <1>1
  <1>4. \A v : [f EXCEPT ![p] = v][p] = v
    BY <1>1
  <1> QED
    BY <1>2, <1>3, <1>4

LEMMA ShapeStep ==
  ASSUME ShapeInv, NEW p \in Run, Step(p)
  PROVE  ShapeInv' /\ \A q \in Run \ {p} : UNCHANGED own(q)
  <1> USE DEF ShapeInv, own, At, options, setup, output
  <1>1. CASE ParseOptions(p) \/ Affinity(p) \/ Prefetch(p) \/ Membind(p) \/ AllocationFails(p)
             \/ SaveEnvironment(p) \/ OutputFails(p)
    <2>1. /\ \E next : pc' = [pc EXCEPT ![p] = next]
          /\ UNCHANGED <<command, result_dir, output_file_path, memory_size, there, has_header,
                         stream, bandwidth>>
      BY <1>1 DEF ParseOptions, Affinity, Prefetch, Membind, AllocationFails, SaveEnvironment,
         OutputFails
    <2> QED
      BY <2>1
  <1>2. CASE MakeResultDir(p) \/ NameOutputFile(p)
    BY <1>2 DEF MakeResultDir, NameOutputFile
  <1>3. CASE Allocate(p) \/ PreTouch(p) \/ Free(p)
    BY <1>3 DEF Allocate, PreTouch, Free
  <1>4. CASE CheckFile(p) \/ OpenOutput(p)
    <2>1. /\ \E next : pc' = [pc EXCEPT ![p] = next]
          /\ has_header' = has_header \/ \E h : has_header' = [has_header EXCEPT ![p] = h]
          /\ UNCHANGED <<command, result_dir, output_file_path, memory_size, there, bandwidth>>
      BY <1>4 DEF CheckFile, OpenOutput
    <2>2. \E x, y : stream' = [stream EXCEPT ![p] = [mode |-> x, buffer |-> y]]
      <3>1. stream = [q \in Run |-> [mode |-> stream[q].mode, buffer |-> stream[q].buffer]]
        OBVIOUS
      <3> QED
        BY <1>4, <3>1, OneField DEF CheckFile, OpenOutput
    <2>3. PICK x, y : stream' = [stream EXCEPT ![p] = [mode |-> x, buffer |-> y]]
      BY <2>2
    <2>4. /\ stream' = [q \in Run |-> [mode |-> stream'[q].mode, buffer |-> stream'[q].buffer]]
          /\ \A q \in Run \ {p} : stream'[q] = stream[q]
      BY <2>3
    <2>5. /\ pc' = [q \in Run |-> pc'[q]] /\ has_header' = [q \in Run |-> has_header'[q]]
          /\ \A q \in Run \ {p} : pc'[q] = pc[q] /\ has_header'[q] = has_header[q]
      BY <2>1
    <2> QED
      BY <2>1, <2>4, <2>5
  <1>6. CASE RunTest(p)
    BY <1>6 DEF RunTest
  <1>7. CASE WriteRow(p)
    BY <1>7 DEF WriteRow
  <1> QED
    BY <1>1, <1>2, <1>3, <1>4, <1>6, <1>7 DEF Step

-----------------------------------------------------------------------------
(* The memory and its pages *)

\* Every page of the memory gets a byte written.
LEMMA Faulted ==
  ASSUME NEW mib \in Nat, NEW n \in Nat \ {0}
  PROVE  PagesOf(mib) \subseteq {byte \div PageSize : byte \in Touched(BytesOf(mib), n)}
  <1> DEFINE pages == mib * PagesPerMib
             size == BytesOf(mib)
  <1>1. pages \in Nat /\ size = pages * PageSize /\ PageSize \in Nat \ {0}
    BY MicrobenchAssumption, PageAssumption DEF BytesOf
  <1>2. PagesOf(mib) = 0 .. pages - 1
    BY DEF PagesOf
  <1> HIDE DEF pages, size
  <1>3. size \in Nat
    BY <1>1
  <1> SUFFICES ASSUME NEW k \in 0 .. pages - 1
               PROVE  \E byte \in Touched(size, n) : byte \div PageSize = k
    BY <1>2 DEF size
  <1> DEFINE from == k * PageSize
  <1>4. from \in 0 .. size - PageSize /\ PageSize * k = from
    <2>1. pages - 1 - k \in Nat /\ k \in Nat
      BY <1>1
    <2>2. (pages - 1 - k) * PageSize \in Nat /\ k * PageSize \in Nat /\ PageSize * k = k * PageSize
      BY <1>1, <2>1
    <2>3. (pages - 1 - k) * PageSize = pages * PageSize - PageSize - k * PageSize
      BY <1>1, <2>1
    <2> QED
      BY <1>1, <1>3, <2>2, <2>3
  <1> HIDE DEF from
  <1>5. PICK byte \in Touched(size, n) : from <= byte /\ byte < from + PageSize
    BY <1>3, <1>4, WholeRegionIsFaulted
  <1>6. byte \in Int
    BY <1>3, <1>5, TouchesDataOnly
  <1> DEFINE r == byte - from
  <1>7. r \in 0 .. PageSize - 1 /\ byte = PageSize * k + r /\ k \in Int
    BY <1>1, <1>3, <1>4, <1>5, <1>6
  <1> HIDE DEF r
  <1>8. byte \div PageSize = k
    BY <1>1, <1>6, <1>7, QuotientOf
  <1> QED
    BY <1>5, <1>8

Placed == {"touch", "environment", "check", "open", "test"}

\* What run p asked for, has, and has touched.
SizeInv(p) ==
  /\ pc[p] \notin {"parse", "refused"} => Valid(command[p])
  /\ pc[p] \in Placed => memory_size[p] \in Total(p) /\ memory_size[p] >= 0
  /\ pc[p] \in Placed \ {"touch"} /\ command[p].pre_touch =>
       PagesOf(memory_size[p]) \subseteq there[p]

LEMMA Asked ==
  ASSUME ShapeInv, NEW p \in Run
  PROVE  /\ command[p].threads \in Int
         /\ MibAsked(p) \in Int
         /\ \A m \in Total(p) : m \in Int
  <1>1. command[p].threads \in Int /\ memory_per_thread_mib(command[p]) \in Int
    BY MicrobenchAssumption DEF ShapeInv, memory_per_thread_mib
  <1>2. MibAsked(p) \in Int
    BY <1>1 DEF MibAsked
  <1> DEFINE n == MibAsked(p)
  <1>3. 2 * (IntMax + 1) \in Nat \ {0} /\ IntMax \in Nat
    BY MicrobenchAssumption
  <1>4. Wrapped(n) \in Int
    <2> HIDE DEF n
    <2>1. n \in Int
      BY <1>2 DEF n
    <2> QED
      BY <1>3, <2>1 DEF Wrapped
  <1> QED
    BY <1>1, <1>2, <1>4 DEF Total

LEMMA SizeStep ==
  ASSUME ShapeInv, NEW p \in Run, SizeInv(p), Step(p)
  PROVE  SizeInv(p)'
  <1>1. Total(p)' = Total(p) /\ command' = command
    BY DEF Total, MibAsked, Step, ParseOptions, Affinity, Prefetch, Membind, MakeResultDir,
       NameOutputFile, AllocationFails, Allocate, PreTouch, SaveEnvironment, CheckFile,
       OpenOutput, OutputFails, RunTest, WriteRow, Free, options
  <1> USE DEF ShapeInv, SizeInv, Placed, At, options, setup, output
  <1>2. CASE ParseOptions(p) \/ Affinity(p) \/ Prefetch(p) \/ Membind(p) \/ AllocationFails(p)
             \/ OutputFails(p) \/ MakeResultDir(p) \/ NameOutputFile(p)
    <2>1. /\ pc'[p] \notin Placed
          /\ pc'[p] \notin {"parse", "refused"} => Valid(command[p])
      BY <1>2 DEF ParseOptions, Affinity, Prefetch, Membind, AllocationFails, OutputFails,
         MakeResultDir, NameOutputFile
    <2> QED
      BY <1>1, <2>1
  <1>3. CASE Allocate(p)
    <2>1. /\ pc[p] = "allocate" /\ pc'[p] = "touch"
          /\ memory_size'[p] \in Total(p) /\ memory_size'[p] >= 0
      BY <1>3 DEF Allocate
    <2> QED
      BY <1>1, <2>1
  <1>4. CASE PreTouch(p)
    <2>1. pc[p] = "touch" /\ pc'[p] = "environment" /\ UNCHANGED memory_size
      BY <1>4 DEF PreTouch
    <2>2. ASSUME command[p].pre_touch PROVE PagesOf(memory_size[p]) \subseteq there'[p]
      <3>1. memory_size[p] \in Nat /\ command[p].threads \in Nat \ {0}
        <4>1. memory_size[p] \in Int /\ memory_size[p] >= 0 /\ command[p].threads \in Int
          BY <2>1, Asked
        <4>2. command[p].threads > 0
          BY <2>1 DEF Valid
        <4> QED
          BY <4>1, <4>2
      <3>2. there'[p] = there[p] \cup {byte \div PageSize :
                          byte \in Touched(BytesOf(memory_size[p]), command[p].threads)}
        BY <1>4, <2>2 DEF PreTouch
      <3> QED
        BY <3>1, <3>2, Faulted
    <2> QED
      BY <1>1, <2>1, <2>2
  <1>5. CASE SaveEnvironment(p) \/ CheckFile(p) \/ OpenOutput(p)
    <2>1. /\ pc[p] \in Placed \ {"touch"} /\ pc'[p] \in Placed \ {"touch"}
          /\ UNCHANGED <<memory_size, there>>
      BY <1>5 DEF SaveEnvironment, CheckFile, OpenOutput
    <2> QED
      BY <1>1, <2>1
  <1>6. CASE RunTest(p)
    <2>1. pc[p] = "test" /\ UNCHANGED <<pc, memory_size>> /\ there[p] \subseteq there'[p]
      BY <1>6 DEF RunTest
    <2> QED
      BY <1>1, <2>1
  <1>7. CASE WriteRow(p) \/ Free(p)
    <2>1. pc[p] \in {"test", "free"} /\ pc'[p] \in {"free", "done"}
      BY <1>7 DEF WriteRow, Free
    <2> QED
      BY <1>1, <2>1
  <1> QED
    BY <1>2, <1>3, <1>4, <1>5, <1>6, <1>7 DEF Step

LEMMA SizeOther ==
  ASSUME NEW q \in Run, SizeInv(q), UNCHANGED <<command, own(q)>>
  PROVE  SizeInv(q)'
  <1>1. UNCHANGED <<pc[q], memory_size[q], there[q], Total(q)>>
    BY DEF own, Total, MibAsked
  <1> QED
    BY <1>1 DEF SizeInv

\* A size an int has wrapped to is negative, if the product is sensible.
LEMMA WrappedIsNegative ==
  ASSUME NEW n \in Int, IntMax < n, n < 2 * (IntMax + 1)
  PROVE  Wrapped(n) < 0
  <1> DEFINE m == 2 * (IntMax + 1)
             x == n + IntMax + 1
             r == x - m
  <1>1. IntMax \in Nat /\ m \in Nat \ {0} /\ x \in Int /\ r \in 0 .. m - 1 /\ x = m * 1 + r
        /\ r - (IntMax + 1) < 0
    <2>1. IntMax \in Nat
      BY MicrobenchAssumption
    <2> QED
      BY <2>1
  <1> HIDE DEF m, x, r
  <1>2. x % m = r
    BY <1>1, RemainderOf
  <1> QED
    BY <1>1, <1>2 DEF Wrapped, x, m

LEMMA HasWhatItAsked ==
  ASSUME ShapeInv, NEW p \in Run, SizeInv(p), Measuring(p), Sensible(p)
  PROVE  memory_size[p] = memory_to_use(p)
  <1> DEFINE n == MibAsked(p)
  <1>1. n \in Int /\ n < 2 * (IntMax + 1) /\ memory_to_use(p) = n
    BY Asked DEF Sensible, memory_to_use
  <1>2. memory_size[p] \in (IF n <= IntMax THEN {n} ELSE {n, Wrapped(n)}) /\ memory_size[p] >= 0
    BY DEF SizeInv, Measuring, Placed, Total
  <1> HIDE DEF n
  <1>3. CASE n <= IntMax
    BY <1>1, <1>2, <1>3
  <1>4. CASE ~(n <= IntMax)
    <2>1. IntMax < n /\ IntMax \in Nat
      BY <1>1, <1>4, MicrobenchAssumption
    <2>2. Wrapped(n) < 0
      BY <1>1, <2>1, WrappedIsNegative
    <2>3. Wrapped(n) \in Int
      <3>1. 2 * (IntMax + 1) \in Nat \ {0}
        BY <2>1
      <3> QED
        BY <1>1, <2>1, <3>1 DEF Wrapped
    <2> QED
      BY <1>1, <1>2, <1>4, <2>2, <2>3
  <1> QED
    BY <1>3, <1>4

-----------------------------------------------------------------------------
(* The files *)

Wrote == {"test", "free", "done"}
Named == {"allocate", "touch", "environment", "check", "open"} \cup Wrote
Saved == {"check", "open", "refused"} \cup Wrote

\* A path tells the directory.
NameInv(p) ==
  /\ pc[p] = "path" => \E x : result_dir[p] = <<x>>
  /\ pc[p] \in Named => \E x, s : result_dir[p] = <<x>> /\ output_file_path[p] = <<x, s>>

\* A file was opened by a run, an environment.json written by one.
FilesInv ==
  \A path \in DOMAIN files : \E q \in Run : pc[q] \in Wrote /\ output_file_path[q] = path

json(q) == [mode |-> command[q].mode,
            memory_type |-> IF command[q].devdax THEN "devdax" ELSE "numa"]

EnvInv ==
  \A dir \in DOMAIN environment :
    \E q \in Run : pc[q] \in Saved /\ result_dir[q] = dir /\ environment[dir] = json(q)

\* Another run has opened the file of p.
Shared(p) ==
  \E q \in Run \ {p} : pc[q] \in Wrote /\ output_file_path[q] = output_file_path[p]

Header(p) == HeaderOf(Columns(Tests, command[p]))

\* How the file of run p comes to be, if nobody shares it.
LineInv(p) ==
  ~Shared(p) =>
    /\ pc[p] = "open" => ~has_header[p] /\ stream[p].mode = "w"
    /\ pc[p] \in Wrote => output_file_path[p] \in DOMAIN files
    /\ pc[p] = "test" =>
         files[output_file_path[p]] = <<>> /\ stream[p] = [mode |-> "w", buffer |-> <<Header(p)>>]
    /\ pc[p] \in {"free", "done"} => files[output_file_path[p]] = <<Header(p), Row(p)>>

\* A list of one with one more.
LEMMA AppendTwo ==
  ASSUME NEW x, NEW y
  PROVE  Append(<<x>>, y) = <<x, y>>
  <1>1. <<x>> \in Seq({x, y}) /\ y \in {x, y}
    OBVIOUS
  <1>2. /\ Append(<<x>>, y) \in Seq({x, y}) /\ Len(Append(<<x>>, y)) = 2
        /\ Append(<<x>>, y)[1] = x /\ Append(<<x>>, y)[2] = y
    BY <1>1
  <1> DEFINE s == Append(<<x>>, y)
  <1> HIDE DEF s
  <1>3. s = [i \in 1 .. 2 |-> s[i]]
    BY <1>2 DEF s
  <1>4. <<x, y>> = [i \in 1 .. 2 |-> <<x, y>>[i]]
    OBVIOUS
  <1>5. \A i \in 1 .. 2 : s[i] = <<x, y>>[i]
    BY <1>2 DEF s
  <1> QED
    BY <1>3, <1>4, <1>5 DEF s

\* What a buffer of one line becomes when a second is put in it, and what fflush makes of
\* an empty file.
LEMMA BufferOfTwo ==
  ASSUME NEW r, NEW m, NEW x, NEW y, r = [mode |-> m, buffer |-> <<x>>]
  PROVE  [r EXCEPT !.buffer = Append(r.buffer, y)] = [mode |-> m, buffer |-> <<x, y>>]
  <1>1. r.buffer = <<x>>
    OBVIOUS
  <1>2. Append(r.buffer, y) = <<x, y>>
    BY <1>1, AppendTwo
  <1> QED
    BY <1>2

LEMMA FlushedTwo ==
  ASSUME NEW x, NEW y
  PROVE  Flushed(<<>>, [mode |-> "w", buffer |-> <<x, y>>]) = <<x, y>>
  <1>1. <<>> \in Seq({x, y}) /\ <<x, y>> \in Seq({x, y}) /\ Len(<<x, y>>) = 2
    OBVIOUS
  <1>2. SubSeq(<<>>, 2 + 1, 0) = <<>>
    BY SubSeqEmpty
  <1>3. <<x, y>> \o <<>> = <<x, y>>
    BY <1>1
  <1> DEFINE s == [mode |-> "w", buffer |-> <<x, y>>]
  <1>4. s.mode = "w" /\ s.buffer = <<x, y>>
    OBVIOUS
  <1>5. Len(<<>>) = 0
    OBVIOUS
  <1> HIDE DEF s
  <1>6. Flushed(<<>>, s) = <<x, y>> \o SubSeq(<<>>, 2 + 1, 0)
    BY <1>1, <1>4, <1>5 DEF Flushed
  <1> QED
    BY <1>2, <1>3, <1>6 DEF s

\* A run that has a name keeps it.
LEMMA NameStep ==
  ASSUME ShapeInv, NEW p \in Run, NameInv(p), Step(p)
  PROVE  /\ NameInv(p)'
         /\ pc[p] \in Named => UNCHANGED <<result_dir[p], output_file_path[p]>>
         /\ pc[p] \in Saved => UNCHANGED result_dir[p]
         /\ pc[p] \in Wrote => pc'[p] \in Wrote
         /\ pc[p] \in Saved => pc'[p] \in Saved
  <1> USE DEF ShapeInv, Wrote, Named, Saved, At, options, setup
  <1>1. CASE ParseOptions(p) \/ Affinity(p) \/ Prefetch(p) \/ Membind(p)
    <2>1. /\ pc[p] \in {"parse", "affinity", "prefetch", "membind"}
          /\ pc'[p] \in {"affinity", "prefetch", "membind", "dir", "refused"}
      BY <1>1 DEF ParseOptions, Affinity, Prefetch, Membind
    <2> QED
      BY <2>1 DEF NameInv
  <1>2. CASE MakeResultDir(p)
    <2>1. pc[p] = "dir" /\ pc'[p] = "path" /\ \E x : result_dir'[p] = <<x>>
      BY <1>2 DEF MakeResultDir
    <2> QED
      BY <2>1 DEF NameInv
  <1>3. CASE NameOutputFile(p)
    <2>1. /\ pc[p] = "path" /\ pc'[p] = "allocate" /\ UNCHANGED result_dir
          /\ output_file_path'[p] = Append(result_dir[p], second)
      BY <1>3 DEF NameOutputFile
    <2>2. PICK x : result_dir[p] = <<x>>
      BY <2>1 DEF NameInv
    <2>3. PICK s : s = second
      OBVIOUS
    <2>4. Append(<<x>>, s) = <<x, s>>
      BY AppendTwo
    <2>5. output_file_path'[p] = <<x, s>>
      BY <2>1, <2>2, <2>3, <2>4
    <2>6. NameInv(p)'
      <3>1. result_dir'[p] = <<x>> /\ output_file_path'[p] = <<x, s>>
        BY <2>1, <2>2, <2>5
      <3>2. \E y, t : result_dir'[p] = <<y>> /\ output_file_path'[p] = <<y, t>>
        BY <3>1
      <3>3. pc'[p] # "path"
        BY <2>1
      <3> QED
        BY <3>2, <3>3 DEF NameInv
    <2> QED
      BY <2>1, <2>6
  <1>4. CASE AllocationFails(p) \/ OutputFails(p)
    <2>1. pc[p] \in {"allocate", "open"} /\ pc'[p] = "refused"
          /\ UNCHANGED <<result_dir, output_file_path>>
      BY <1>4 DEF AllocationFails, OutputFails
    <2> QED
      BY <2>1 DEF NameInv
  <1>5. CASE Allocate(p) \/ PreTouch(p) \/ SaveEnvironment(p) \/ CheckFile(p) \/ OpenOutput(p)
             \/ RunTest(p) \/ WriteRow(p) \/ Free(p)
    <2>1. /\ pc[p] \in Named /\ pc'[p] \in Named
          /\ pc[p] \in Wrote => pc'[p] \in Wrote
          /\ pc[p] \in Saved => pc'[p] \in Saved
      BY <1>5 DEF Allocate, PreTouch, SaveEnvironment, CheckFile, OpenOutput, RunTest, WriteRow,
         Free
    <2>2. UNCHANGED <<result_dir, output_file_path>>
      BY <1>5 DEF Allocate, PreTouch, SaveEnvironment, CheckFile, OpenOutput, RunTest, WriteRow,
         Free, output
    <2> QED
      BY <2>1, <2>2 DEF NameInv
  <1> QED
    BY <1>1, <1>2, <1>3, <1>4, <1>5 DEF Step

\* What a step of run p does to the files.
LEMMA FilesStep ==
  ASSUME ShapeInv, NEW p \in Run, Step(p)
  PROVE  \/ files' = files
         \/ /\ OpenOutput(p) \/ WriteRow(p)
            /\ pc'[p] \in Wrote
            /\ \E content : files' = WithFile(files, output_file_path[p], content)
  <1> USE DEF ShapeInv, Wrote, At
  <1>1. CASE OpenOutput(p)
    BY <1>1 DEF OpenOutput
  <1>2. CASE WriteRow(p)
    BY <1>2 DEF WriteRow
  <1>3. CASE ~OpenOutput(p) /\ ~WriteRow(p)
    BY <1>3 DEF Step, output, ParseOptions, Affinity, Prefetch, Membind, MakeResultDir,
       NameOutputFile, AllocationFails, Allocate, PreTouch, SaveEnvironment, CheckFile,
       OutputFails, RunTest, Free
  <1> QED
    BY <1>1, <1>2, <1>3

\* A file that is there stays there.
LEMMA FilesStay ==
  ASSUME ShapeInv, NEW p \in Run, Step(p)
  PROVE  DOMAIN files \subseteq DOMAIN files'
  BY FilesStep DEF WithFile

LEMMA FilesInvStep ==
  ASSUME ShapeInv, FilesInv, NEW p \in Run, NameInv(p), Step(p)
  PROVE  FilesInv'
  <1>1. \A q \in Run : pc[q] \in Wrote =>
          pc'[q] \in Wrote /\ output_file_path'[q] = output_file_path[q]
    <2>1. pc[p] \in Wrote => pc'[p] \in Wrote /\ output_file_path'[p] = output_file_path[p]
      BY NameStep DEF Named
    <2>2. \A q \in Run \ {p} : pc'[q] = pc[q] /\ output_file_path'[q] = output_file_path[q]
      BY ShapeStep DEF own
    <2> QED
      BY <2>1, <2>2
  <1>2. CASE files' = files
    BY <1>1, <1>2 DEF FilesInv
  <1>3. CASE files' # files
    <2>1. PICK content : files' = WithFile(files, output_file_path[p], content)
      BY <1>3, FilesStep
    <2>2. pc'[p] \in Wrote
      BY <1>3, FilesStep
    <2>3. output_file_path'[p] = output_file_path[p]
      BY <1>3, FilesStep DEF OpenOutput, WriteRow, setup
    <2>4. DOMAIN files' = DOMAIN files \cup {output_file_path[p]}
      BY <2>1 DEF WithFile
    <2> QED
      BY <1>1, <2>2, <2>3, <2>4 DEF FilesInv
  <1> QED
    BY <1>2, <1>3

LEMMA EnvInvStep ==
  ASSUME ShapeInv, EnvInv, NEW p \in Run, NameInv(p), Step(p)
  PROVE  EnvInv'
  <1>1. command' = command
    BY DEF Step, ParseOptions, Affinity, Prefetch, Membind, MakeResultDir, NameOutputFile,
       AllocationFails, Allocate, PreTouch, SaveEnvironment, CheckFile, OpenOutput, OutputFails,
       RunTest, WriteRow, Free, options
  <1>2. \A q \in Run : json(q)' = json(q)
    BY <1>1 DEF json
  <1>3. \A q \in Run : pc[q] \in Saved => pc'[q] \in Saved /\ result_dir'[q] = result_dir[q]
    <2>1. pc[p] \in Saved => pc'[p] \in Saved /\ result_dir'[p] = result_dir[p]
      BY NameStep
    <2>2. \A q \in Run \ {p} : pc'[q] = pc[q] /\ result_dir'[q] = result_dir[q]
      BY ShapeStep DEF own
    <2> QED
      BY <2>1, <2>2
  <1>4. CASE environment' = environment
    <2> SUFFICES ASSUME NEW dir \in DOMAIN environment
                 PROVE  \E q \in Run : /\ pc'[q] \in Saved /\ result_dir'[q] = dir
                                       /\ environment[dir] = json(q)'
      BY <1>4 DEF EnvInv
    <2>1. PICK q \in Run : pc[q] \in Saved /\ result_dir[q] = dir /\ environment[dir] = json(q)
      BY DEF EnvInv
    <2> QED
      BY <1>2, <1>3, <2>1
  <1>5. CASE environment' # environment
    <2>1. SaveEnvironment(p)
      BY <1>5 DEF Step, output, ParseOptions, Affinity, Prefetch, Membind, MakeResultDir,
         NameOutputFile, AllocationFails, Allocate, PreTouch, CheckFile, OpenOutput, OutputFails,
         RunTest, WriteRow, Free
    <2>2. /\ environment' = WithFile(environment, result_dir[p], json(p))
          /\ pc'[p] = "check" /\ result_dir' = result_dir
      BY <1>5, <2>1 DEF SaveEnvironment, At, setup, ShapeInv, json
    <2> SUFFICES ASSUME NEW dir \in DOMAIN environment'
                 PROVE  \E q \in Run : /\ pc'[q] \in Saved /\ result_dir'[q] = dir
                                       /\ environment'[dir] = json(q)'
      BY DEF EnvInv
    <2>3. CASE dir = result_dir[p]
      <3>1. environment'[dir] = json(p)
        BY <2>2, <2>3 DEF WithFile
      <3> QED
        BY <1>2, <2>2, <2>3, <3>1 DEF Saved
    <2>4. CASE dir # result_dir[p]
      <3>1. dir \in DOMAIN environment /\ environment'[dir] = environment[dir]
        BY <2>2, <2>4 DEF WithFile
      <3>2. PICK q \in Run : pc[q] \in Saved /\ result_dir[q] = dir /\ environment[dir] = json(q)
        BY <3>1 DEF EnvInv
      <3> QED
        BY <1>2, <1>3, <3>1, <3>2
    <2> QED
      BY <2>3, <2>4
  <1> QED
    BY <1>4, <1>5

\* The stream of a run, one field of it changed.
LEMMA StreamMode ==
  ASSUME ShapeInv, NEW p \in Run, NEW m, stream' = [stream EXCEPT ![p].mode = m]
  PROVE  stream'[p] = [mode |-> m, buffer |-> stream[p].buffer]
  <1>1. stream = [q \in Run |-> [mode |-> stream[q].mode, buffer |-> stream[q].buffer]]
    BY DEF ShapeInv
  <1> QED
    BY <1>1, OneField

LEMMA StreamBuffer ==
  ASSUME ShapeInv, NEW p \in Run, NEW b, stream' = [stream EXCEPT ![p].buffer = b]
  PROVE  stream'[p] = [mode |-> stream[p].mode, buffer |-> b]
  <1>1. stream = [q \in Run |-> [mode |-> stream[q].mode, buffer |-> stream[q].buffer]]
    BY DEF ShapeInv
  <1> QED
    BY <1>1, OneField

\* Once another run has opened the file of p, it stays so.
LEMMA SharedStays ==
  ASSUME ShapeInv, \A q \in Run : NameInv(q), NEW p \in Run, NEW r \in Run, Step(r),
         pc[p] \in Named, Shared(p)
  PROVE  Shared(p)'
  <1>1. output_file_path'[p] = output_file_path[p]
    <2>1. CASE p = r
      BY <2>1, NameStep
    <2>2. CASE p # r
      BY <2>2, ShapeStep DEF own
    <2> QED
      BY <2>1, <2>2
  <1>2. PICK q \in Run \ {p} : pc[q] \in Wrote /\ output_file_path[q] = output_file_path[p]
    BY DEF Shared
  <1>3. pc'[q] \in Wrote /\ output_file_path'[q] = output_file_path[q]
    <2>1. CASE q = r
      BY <1>2, <2>1, NameStep DEF Named
    <2>2. CASE q # r
      BY <1>2, <2>2, ShapeStep DEF own
    <2> QED
      BY <2>1, <2>2
  <1> QED
    BY <1>1, <1>2, <1>3 DEF Shared

\* A step of another run.
LEMMA LineOther ==
  ASSUME ShapeInv, \A q \in Run : NameInv(q), NEW p \in Run, LineInv(p),
         NEW r \in Run \ {p}, Step(r)
  PROVE  LineInv(p)'
  <1>1. UNCHANGED own(p) /\ UNCHANGED command
    <2>1. command' = command
      BY DEF Step, ParseOptions, Affinity, Prefetch, Membind, MakeResultDir, NameOutputFile,
         AllocationFails, Allocate, PreTouch, SaveEnvironment, CheckFile, OpenOutput, OutputFails,
         RunTest, WriteRow, Free, options
    <2> QED
      BY <2>1, ShapeStep
  <1>2. UNCHANGED <<pc[p], has_header[p], stream[p], output_file_path[p], Header(p), Row(p)>>
    BY <1>1 DEF own, Header, Row
  <1> SUFFICES ASSUME ~Shared(p)', pc[p] \in {"open"} \cup Wrote
               PROVE  LineInv(p)'
    BY <1>2 DEF LineInv, Wrote
  <1>3. ~Shared(p)
    BY SharedStays DEF Named
  <1>4. CASE files' = files
    BY <1>2, <1>3, <1>4 DEF LineInv
  <1>5. CASE files' # files
    <2>1. PICK content : files' = WithFile(files, output_file_path[r], content)
      BY <1>5, FilesStep
    <2>2. pc'[r] \in Wrote /\ output_file_path'[r] = output_file_path[r]
      BY <1>5, FilesStep DEF OpenOutput, WriteRow, setup
    <2>3. output_file_path[r] # output_file_path[p]
      BY <1>2, <2>2 DEF Shared
    <2>4. pc[p] \in Wrote => /\ output_file_path[p] \in DOMAIN files'
                             /\ files'[output_file_path[p]] = files[output_file_path[p]]
      <3>1. pc[p] \in Wrote => output_file_path[p] \in DOMAIN files
        BY <1>3 DEF LineInv
      <3> QED
        BY <2>1, <2>3, <3>1 DEF WithFile
    <2> QED
      BY <1>2, <1>3, <2>4 DEF LineInv, Wrote
  <1> QED
    BY <1>4, <1>5

\* A step of the run itself.
LEMMA LineStep ==
  ASSUME ShapeInv, FilesInv, \A q \in Run : NameInv(q), NEW p \in Run, SizeInv(p), LineInv(p),
         Step(p)
  PROVE  LineInv(p)'
  <1> USE DEF ShapeInv, At
  <1>1. Header(p)' = Header(p)
    <2>1. command' = command
      BY DEF Step, ParseOptions, Affinity, Prefetch, Membind, MakeResultDir, NameOutputFile,
         AllocationFails, Allocate, PreTouch, SaveEnvironment, CheckFile, OpenOutput, OutputFails,
         RunTest, WriteRow, Free, options
    <2> QED
      BY <2>1 DEF Header
  <1> DEFINE path == output_file_path[p]
  <1>2. CASE ParseOptions(p) \/ Affinity(p) \/ Prefetch(p) \/ Membind(p) \/ MakeResultDir(p)
             \/ NameOutputFile(p) \/ AllocationFails(p) \/ Allocate(p) \/ PreTouch(p)
             \/ SaveEnvironment(p) \/ OutputFails(p)
    <2>1. pc'[p] \notin {"open"} \cup Wrote
      BY <1>2 DEF ParseOptions, Affinity, Prefetch, Membind, MakeResultDir, NameOutputFile,
         AllocationFails, Allocate, PreTouch, SaveEnvironment, OutputFails, Wrote
    <2> QED
      BY <2>1 DEF LineInv, Wrote
  <1>3. CASE CheckFile(p)
    <2>1. pc[p] = "check" /\ pc'[p] = "open" /\ UNCHANGED <<output_file_path, files>>
      BY <1>3 DEF CheckFile, setup
    <2>2. /\ has_header'[p] => Exists(path)
          /\ stream'[p].mode = (IF Exists(path) THEN "a" ELSE "w")
      <3>2. /\ has_header'[p] => Exists(path)
            /\ \E m : /\ m = (IF Exists(path) THEN "a" ELSE "w")
                      /\ stream' = [stream EXCEPT ![p].mode = m]
        BY <1>3 DEF CheckFile
      <3>3. PICK m : /\ m = (IF Exists(path) THEN "a" ELSE "w")
                     /\ stream' = [stream EXCEPT ![p].mode = m]
        BY <3>2
      <3>4. stream'[p] = [mode |-> m, buffer |-> stream[p].buffer]
        BY <3>3, StreamMode
      <3> QED
        BY <3>2, <3>3, <3>4
    <2>3. ASSUME ~Shared(p)' PROVE ~Exists(path)
      <3>1. ~Shared(p)
        BY <2>1, <2>3, SharedStays DEF Named
      <3> QED
        BY <2>1, <3>1 DEF Exists, FilesInv, Shared, Wrote
    <2> QED
      BY <2>1, <2>2, <2>3 DEF LineInv, Wrote
  <1>4. CASE OpenOutput(p)
    <2>1. /\ pc[p] = "open" /\ pc'[p] = "test" /\ UNCHANGED output_file_path
          /\ stream[p].mode = "w" => files' = WithFile(files, path, <<>>)
      BY <1>4 DEF OpenOutput, setup
    <2>2. ~has_header[p] => stream'[p] = [mode |-> stream[p].mode, buffer |-> <<Header(p)>>]
      <3>2. \E b : /\ b = (IF has_header[p] THEN <<>> ELSE <<Header(p)>>)
                   /\ stream' = [stream EXCEPT ![p].buffer = b]
        BY <1>4 DEF OpenOutput, Header
      <3>3. PICK b : /\ b = (IF has_header[p] THEN <<>> ELSE <<Header(p)>>)
                     /\ stream' = [stream EXCEPT ![p].buffer = b]
        BY <3>2
      <3>4. stream'[p] = [mode |-> stream[p].mode, buffer |-> b]
        BY <3>3, StreamBuffer
      <3> QED
        BY <3>3, <3>4
    <2> SUFFICES ASSUME ~Shared(p)' PROVE LineInv(p)'
      BY DEF LineInv
    <2>3. ~Shared(p)
      BY <2>1, SharedStays DEF Named
    <2>4. ~has_header[p] /\ stream[p].mode = "w"
      BY <2>1, <2>3 DEF LineInv
    <2>5. path \in DOMAIN files' /\ files'[path] = <<>>
      BY <2>1, <2>4 DEF WithFile
    <2> QED
      BY <1>1, <2>1, <2>2, <2>4, <2>5 DEF LineInv
  <1>5. CASE RunTest(p)
    <2>1. pc[p] = "test" /\ UNCHANGED <<pc, output_file_path, files, stream>>
      BY <1>5 DEF RunTest, setup, output
    <2>2. ~Shared(p)' => ~Shared(p)
      BY <2>1, SharedStays DEF Named, Wrote
    <2> QED
      BY <1>1, <2>1, <2>2 DEF LineInv
  <1>6. CASE WriteRow(p)
    <2> DEFINE s == [stream[p] EXCEPT !.buffer = Append(@, Row(p))]
    <2>1. /\ pc[p] = "test" /\ pc'[p] = "free" /\ UNCHANGED <<output_file_path, command, bandwidth>>
          /\ files' = WithFile(files, path, Flushed(files[path], s))
      BY <1>6 DEF WriteRow, setup, options
    <2>2. Row(p)' = Row(p)
      BY <2>1 DEF Row
    <2> SUFFICES ASSUME ~Shared(p)' PROVE LineInv(p)'
      BY DEF LineInv
    <2>3. ~Shared(p)
      BY <2>1, SharedStays DEF Named, Wrote
    <2>4. files[path] = <<>> /\ stream[p] = [mode |-> "w", buffer |-> <<Header(p)>>]
      BY <2>1, <2>3 DEF LineInv
    <2>5. s = [mode |-> "w", buffer |-> <<Header(p), Row(p)>>]
      BY <2>4, BufferOfTwo
    <2> HIDE DEF s
    <2>6. Flushed(<<>>, s) = <<Header(p), Row(p)>>
      BY <2>5, FlushedTwo
    <2>7. path \in DOMAIN files' /\ files'[path] = <<Header(p), Row(p)>>
      BY <2>1, <2>4, <2>6 DEF WithFile
    <2> QED
      BY <1>1, <2>1, <2>2, <2>7 DEF LineInv
  <1>7. CASE Free(p)
    <2>1. /\ pc[p] = "free" /\ pc'[p] = "done"
          /\ UNCHANGED <<output_file_path, files, stream, command, bandwidth>>
      BY <1>7 DEF Free, setup, output, options
    <2>2. ~Shared(p)' => ~Shared(p)
      BY <2>1, SharedStays DEF Named, Wrote
    <2>3. Row(p)' = Row(p)
      BY <2>1 DEF Row
    <2> QED
      BY <1>1, <2>1, <2>2, <2>3 DEF LineInv, Wrote
  <1> QED
    BY <1>2, <1>3, <1>4, <1>5, <1>6, <1>7 DEF Step

-----------------------------------------------------------------------------
(* The theorems *)

RunInv ==
  /\ ShapeInv /\ FilesInv /\ EnvInv
  /\ \A p \in Run : SizeInv(p) /\ NameInv(p) /\ LineInv(p)

LEMMA RunInvInit == Init => RunInv
  <1> SUFFICES ASSUME Init PROVE RunInv
    OBVIOUS
  <1>1. ShapeInv
    BY ShapeInit
  <1>2. DOMAIN files = {} /\ DOMAIN environment = {} /\ \A p \in Run : pc[p] = "parse"
    BY DEF Init
  <1> QED
    BY <1>1, <1>2
    DEF RunInv, FilesInv, EnvInv, SizeInv, Placed, NameInv, Named, LineInv, Wrote

LEMMA RunInvStep == RunInv /\ [Next]_vars => RunInv'
  <1> SUFFICES ASSUME RunInv, [Next]_vars PROVE RunInv'
    OBVIOUS
  <1>1. CASE Tick \/ UNCHANGED vars
    <2>1. UNCHANGED <<command, pc, result_dir, output_file_path, memory_size, there, has_header,
                      stream, files, environment, bandwidth>>
      BY <1>1 DEF Tick, vars, options, setup, output
    <2>2. ShapeInv' /\ FilesInv' /\ EnvInv'
      BY <2>1 DEF RunInv, ShapeInv, FilesInv, EnvInv, json
    <2>3. ASSUME NEW p \in Run PROVE SizeInv(p)' /\ NameInv(p)' /\ LineInv(p)'
      <3>1. UNCHANGED <<Total(p), Shared(p), Header(p), Row(p)>>
        BY <2>1 DEF Total, MibAsked, Shared, Header, Row
      <3> QED
        BY <2>1, <3>1 DEF RunInv, SizeInv, NameInv, LineInv
    <2> QED
      BY <2>2, <2>3 DEF RunInv
  <1>2. ASSUME NEW r \in Run, Step(r) PROVE RunInv'
    <2>1. /\ ShapeInv /\ FilesInv /\ EnvInv
          /\ \A p \in Run : SizeInv(p) /\ NameInv(p) /\ LineInv(p)
      BY DEF RunInv
    <2>2. ShapeInv' /\ command' = command /\ \A q \in Run \ {r} : UNCHANGED own(q)
      <3>1. command' = command
        BY <1>2 DEF Step, ParseOptions, Affinity, Prefetch, Membind, MakeResultDir,
           NameOutputFile, AllocationFails, Allocate, PreTouch, SaveEnvironment, CheckFile,
           OpenOutput, OutputFails, RunTest, WriteRow, Free, options
      <3> QED
        BY <1>2, <2>1, <3>1, ShapeStep
    <2>3. FilesInv' /\ EnvInv'
      BY <1>2, <2>1, FilesInvStep, EnvInvStep
    <2>4. SizeInv(r)' /\ NameInv(r)' /\ LineInv(r)'
      BY <1>2, <2>1, SizeStep, NameStep, LineStep
    <2>5. ASSUME NEW q \in Run \ {r} PROVE SizeInv(q)' /\ NameInv(q)' /\ LineInv(q)'
      <3>1. UNCHANGED <<command, own(q)>>
        BY <2>2
      <3>2. NameInv(q)'
        BY <2>1, <3>1 DEF NameInv, own
      <3>3. SizeInv(q)'
        BY <2>1, <3>1, SizeOther
      <3>4. LineInv(q)'
        <4>1. r \in Run \ {q}
          OBVIOUS
        <4> QED
          BY <1>2, <2>1, <4>1, LineOther
      <3> QED
        BY <3>2, <3>3, <3>4
    <2> QED
      BY <2>2, <2>3, <2>4, <2>5 DEF RunInv
  <1> QED
    BY <1>1, <1>2 DEF Next

LEMMA RunInvAlways == Spec => []RunInv
  BY RunInvInit, RunInvStep, PTL DEF Spec

\* No test leaves the memory that was allocated (lines 577 and 819): a total an int cannot
\* hold never reaches the tests.
THEOREM TestsAlwaysFit == Spec => []TestsFitTheMemory
  <1>1. RunInv => TestsFitTheMemory
    <2> SUFFICES ASSUME RunInv, NEW p \in Run, Measuring(p), Sensible(p)
                 PROVE  memory_to_use(p) <= memory_size[p]
      BY DEF TestsFitTheMemory
    <2>1. memory_size[p] = memory_to_use(p)
      BY HasWhatItAsked DEF RunInv
    <2>2. memory_to_use(p) \in Int
      BY Asked DEF RunInv, memory_to_use
    <2> QED
      BY <2>1, <2>2
  <1> QED
    BY <1>1, RunInvAlways, PTL

\* With --pre-touch every page a read test reads is there (firstTouchData, lines 36-58 and
\* 680-697), whatever the number of threads that touched it and the size of the memory.
THEOREM PreTouchAlwaysHonest == Spec => []PreTouchIsHonest
  <1>1. RunInv => PreTouchIsHonest
    <2> SUFFICES ASSUME RunInv, NEW p \in Run, command[p].pre_touch, Sensible(p), Measuring(p)
                 PROVE  PagesOf(memory_to_use(p)) \subseteq there[p]
      BY DEF PreTouchIsHonest, ReadsRealPages, NextTestReads
    <2>1. memory_size[p] = memory_to_use(p)
      BY HasWhatItAsked DEF RunInv
    <2> QED
      BY <2>1 DEF RunInv, SizeInv, Placed, Measuring
  <1> QED
    BY <1>1, RunInvAlways, PTL

\* The file of a run with a directory of its own has the header and the row, the value under
\* each column the one that column's test measured, and environment.json names those tests.
THEOREM RowsAlwaysMatch == Spec => []RowMatchesHeader
  <1>1. RunInv => RowMatchesHeader
    <2> SUFFICES ASSUME RunInv, NEW p \in Run, Finished(p), Alone(p)
                 PROVE  LET lines == files[output_file_path[p]]
                        IN /\ Len(lines) = 2 /\ Len(lines[2].values) = Len(lines[1].columns)
                           /\ \A k \in DOMAIN lines[2].values :
                                lines[2].values[k] = bandwidth[p][lines[1].columns[k]]
                           /\ result_dir[p] \in DOMAIN environment =>
                                Range(lines[1].columns) = UNION {Expanded(m) :
                                  m \in Range(modes(environment[result_dir[p]].mode))}
      BY DEF RowMatchesHeader
    <2> DEFINE columns == Columns(Tests, command[p])
               lines == files[output_file_path[p]]
    <2>1. ~Shared(p)
      <3> SUFFICES ASSUME NEW q \in Run \ {p}, pc[q] \in Wrote,
                          output_file_path[q] = output_file_path[p]
                   PROVE  FALSE
        BY DEF Shared
      <3>1. PICK x, s : result_dir[p] = <<x>> /\ output_file_path[p] = <<x, s>>
        BY DEF RunInv, NameInv, Named, Wrote, Finished
      <3>2. PICK y, t : result_dir[q] = <<y>> /\ output_file_path[q] = <<y, t>>
        BY DEF RunInv, NameInv, Named
      <3>3. x = y
        BY <3>1, <3>2
      <3> QED
        BY <3>1, <3>2, <3>3 DEF Alone
    <2>2. lines = <<Header(p), Row(p)>>
      BY <2>1 DEF RunInv, LineInv, Finished
    <2>3. columns \in Seq(Test) /\ Range(columns) = runs(command[p])
      <3>1. ModesOk(command[p].mode)
        BY DEF RunInv, SizeInv, Finished, Valid
      <3> QED
        BY <3>1, ColumnsOfTests
    <2>4. /\ lines[1].columns = columns
          /\ lines[2].values = [k \in DOMAIN columns |-> bandwidth[p][columns[k]]]
      BY <2>2 DEF Header, HeaderOf, Row
    <2>5. ASSUME result_dir[p] \in DOMAIN environment
          PROVE  runs(command[p]) = UNION {Expanded(m) :
                                    m \in Range(modes(environment[result_dir[p]].mode))}
      <3>1. PICK q \in Run : /\ result_dir[q] = result_dir[p]
                             /\ environment[result_dir[p]] = json(q)
        BY <2>5 DEF RunInv, EnvInv
      <3>2. q = p
        BY <3>1 DEF Alone
      <3> QED
        BY <3>1, <3>2 DEF json, runs
    <2>6. Len(lines) = 2
      BY <2>2
    <2> HIDE DEF columns, lines
    <2>7. /\ DOMAIN lines[2].values = DOMAIN columns /\ Len(lines[2].values) = Len(columns)
          /\ \A k \in DOMAIN lines[2].values : lines[2].values[k] = bandwidth[p][columns[k]]
      <3>1. DOMAIN columns = 1 .. Len(columns) /\ Len(columns) \in Nat
        BY <2>3
      <3>2. lines[2].values = [k \in 1 .. Len(columns) |-> bandwidth[p][columns[k]]]
        BY <2>4, <3>1
      <3> QED
        BY <3>1, <3>2
    <2> QED
      BY <2>3, <2>4, <2>5, <2>6, <2>7 DEF columns, lines
  <1> QED
    BY <1>1, RunInvAlways, PTL

-----------------------------------------------------------------------------
(* The CPUs of the workers *)

LEMMA AscendingLists ==
  ASSUME NEW S \in SUBSET Int, IsFiniteSet(S)
  PROVE  Lists(Ascending(S), S) /\ Len(Ascending(S)) = Cardinality(S)
  <1> DEFINE n == Cardinality(S)
             Upto(x) == {y \in S : y <= x}
             f == [x \in S |-> Rank(S, x)]
             a == Ascending(S)
  <1>1. n \in Nat
    BY FS_CardinalityType
  <1>2. ASSUME NEW x \in S PROVE IsFiniteSet(Upto(x)) /\ Rank(S, x) \in 1 .. n
    <2>1. Upto(x) \in SUBSET S /\ x \in Upto(x)
      OBVIOUS
    <2> HIDE DEF Upto
    <2>2. IsFiniteSet(Upto(x)) /\ Cardinality(Upto(x)) <= n
      <3>1. PICK T : T = Upto(x)
        OBVIOUS
      <3>2. T \in SUBSET S
        BY <2>1, <3>1
      <3> QED
        BY <3>1, <3>2, FS_Subset
    <2>3. Cardinality(Upto(x)) \in Nat /\ Cardinality(Upto(x)) # 0
      BY <2>1, <2>2, FS_CardinalityType, FS_EmptySet
    <2>4. Rank(S, x) = Cardinality(Upto(x))
      BY DEF Rank, Upto
    <2>5. PICK r : r = Cardinality(Upto(x))
      OBVIOUS
    <2>6. r \in Nat /\ r # 0 /\ r <= n
      BY <2>2, <2>3, <2>5
    <2> HIDE DEF n
    <2>7. r \in 1 .. n
      BY <1>1, <2>6
    <2> QED
      BY <2>2, <2>4, <2>5, <2>7
  <1>3. ASSUME NEW x \in S, NEW y \in S, x < y PROVE Rank(S, x) # Rank(S, y)
    <2>1. Upto(x) \in SUBSET Upto(y)
      <3>1. \A z \in S : z \in Int /\ x \in Int /\ y \in Int
        OBVIOUS
      <3>2. \A z \in S : z <= x => z <= y
        BY <1>3, <3>1
      <3> QED
        BY <3>2
    <2>2. y \in Upto(y) /\ y \notin Upto(x)
      BY <1>3
    <2>3. IsFiniteSet(Upto(y))
      BY <1>2
    <2>4. Rank(S, x) = Cardinality(Upto(x)) /\ Rank(S, y) = Cardinality(Upto(y))
      BY DEF Rank
    <2> HIDE DEF Upto
    <2>5. Cardinality(Upto(x)) # Cardinality(Upto(y))
      BY <2>1, <2>2, <2>3, FS_Subset
    <2> QED
      BY <2>4, <2>5
  <1>4. f \in Injection(S, 1 .. n)
    <2>1. f \in [S -> 1 .. n]
      BY <1>2
    <2>2. \A x, y \in S : f[x] = f[y] => x = y
      BY <1>3
    <2> HIDE DEF f, n
    <2>3. DOMAIN f = S
      BY <2>1
    <2> QED
      BY <2>1, <2>2, <2>3 DEF Injection, IsInjective
  <1>5. f \in Surjection(S, 1 .. n)
    <2>1. IsFiniteSet(1 .. n) /\ Cardinality(1 .. n) = Cardinality(S)
      <3> HIDE DEF n
      <3>1. IsFiniteSet(1 .. n) /\ Cardinality(1 .. n) = n
        BY <1>1, FS_Interval
      <3> QED
        BY <3>1 DEF n
    <2> HIDE DEF f, n
    <2> QED
      BY <1>4, <2>1, FS_Injection
  <1>6. \A k \in 1 .. n : \E x \in S : Rank(S, x) = k
    BY <1>5 DEF Surjection
  <1>7. a = [k \in 1 .. n |-> CHOOSE x \in S : Rank(S, x) = k]
    BY DEF Ascending
  <1>8. \A k \in 1 .. n : a[k] \in S /\ Rank(S, a[k]) = k
    BY <1>6, <1>7
  <1> HIDE DEF a, n
  <1>9. a \in Seq(S) /\ Len(a) = n
    <2>1. a \in [1 .. n -> S]
      BY <1>7, <1>8
    <2> QED
      BY <1>1, <2>1
  <1>10. \A x \in S : \E k \in 1 .. n : a[k] = x
    <2> SUFFICES ASSUME NEW x \in S
                 PROVE  a[Rank(S, x)] = x
      BY <1>2
    <2>1. Rank(S, x) \in 1 .. n
      BY <1>2
    <2>2. a[Rank(S, x)] \in S /\ Rank(S, a[Rank(S, x)]) = Rank(S, x)
      BY <1>8, <2>1
    <2> DEFINE y == a[Rank(S, x)]
    <2>3. y \in S /\ Rank(S, y) = Rank(S, x)
      BY <2>2
    <2> HIDE DEF y
    <2>4. y = x
      BY <1>3, <2>3
    <2> QED
      BY <2>4 DEF y
  <1>11. \A j, k \in 1 .. n : a[j] = a[k] => j = k
    BY <1>8
  <1>12. Lists(a, S)
    BY <1>9, <1>10, <1>11 DEF Lists
  <1> QED
    BY <1>9, <1>12 DEF a, n

\* The list of CPUs has those of the nodes asked for, each once.
LEMMA CpusListed ==
  ASSUME NEW nodes, NEW given \in Seq(Int), nodes = parseNumaNodes(given),
         validateNumaNodes(nodes)
  PROVE  Lists(getCpusFromNumaNodes(nodes), UNION {CpusOf[n] : n \in Range(given)})
  <1> DEFINE R == Range(given)
             len == Len(nodes)
  <1>1. nodes # <<>> /\ \A k \in DOMAIN nodes :
          nodes[k] <= MaxNode /\ CpusOf[nodes[k]] # {}
    BY DEF validateNumaNodes
  <1>2. nodes = Ascending(R) /\ \A k \in DOMAIN given : given[k] \in Nat
    BY <1>1 DEF parseNumaNodes
  <1>3. R \in SUBSET Nat /\ IsFiniteSet(R)
    <2>1. R \in SUBSET Nat
      BY <1>2 DEF Range
    <2>2. given \in Surjection(DOMAIN given, R)
      BY DEF Range, Surjection
    <2>3. IsFiniteSet(DOMAIN given)
      <3>1. DOMAIN given = 1 .. Len(given) /\ Len(given) \in Nat
        BY LenProperties
      <3> QED
        BY <3>1, FS_Interval
    <2> HIDE DEF R
    <2> QED
      BY <2>1, <2>2, <2>3, FS_Surjection
  <1> HIDE DEF R
  <1>4. Lists(nodes, R)
    <2>1. R \in SUBSET Int
      BY <1>3
    <2> QED
      BY <1>2, <1>3, <2>1, AscendingLists
  <1>5. /\ nodes \in Seq(R) /\ len \in Nat \ {0} /\ DOMAIN nodes = 1 .. len
        /\ \A k \in 1 .. len : nodes[k] \in R
        /\ \A x \in R : \E k \in 1 .. len : nodes[k] = x
        /\ \A j, k \in 1 .. len : nodes[j] = nodes[k] => j = k
    <2>1. nodes \in Seq(R)
      BY <1>4 DEF Lists
    <2>2. len \in Nat \ {0} /\ DOMAIN nodes = 1 .. len
      BY <1>1, <2>1, LenProperties, EmptySeq
    <2>3. \A k \in 1 .. len : nodes[k] \in R
      BY <2>1, ElementOfSeq
    <2> QED
      BY <1>4, <2>1, <2>2, <2>3 DEF Lists
  <1> DEFINE s == [k \in DOMAIN nodes |-> Ascending(CpusOf[nodes[k]])]
             S == [k \in 1 .. len |-> CpusOf[nodes[k]]]
  <1>6. \A k \in 1 .. len : nodes[k] \in DOMAIN CpusOf
    <2> SUFFICES ASSUME NEW k \in 1 .. len
                 PROVE  nodes[k] \in 0 .. MaxNode
      BY MicrobenchAssumption
    <2>1. nodes[k] \in Nat /\ nodes[k] <= MaxNode /\ MaxNode \in Nat
      BY <1>1, <1>3, <1>5, MicrobenchAssumption
    <2> QED
      BY <2>1
  <1> HIDE DEF len
  <1>7. DOMAIN s = 1 .. len /\ Len(s) = len
    <2>1. DOMAIN s = 1 .. len
      BY <1>5
    <2> HIDE DEF s
    <2>2. Len(s) = len
      BY <1>5, <2>1
    <2> QED
      BY <2>1, <2>2
  <1>8. \A k \in 1 .. len : Lists(s[k], S[k])
    <2> SUFFICES ASSUME NEW k \in 1 .. len
                 PROVE  Lists(Ascending(CpusOf[nodes[k]]), CpusOf[nodes[k]])
      BY <1>5
    <2>1. CpusOf[nodes[k]] \in SUBSET Int /\ IsFiniteSet(CpusOf[nodes[k]])
      BY <1>6, MicrobenchAssumption
    <2> QED
      BY <2>1, AscendingLists
  <1>9. \A j, k \in 1 .. len : j # k => S[j] \cap S[k] = {}
    BY <1>5, <1>6, MicrobenchAssumption
  <1>10. UNION {S[k] : k \in 1 .. len} = UNION {CpusOf[n] : n \in R}
    BY <1>5
  <1>11. getCpusFromNumaNodes(nodes) = FlattenSeq(s)
    BY DEF getCpusFromNumaNodes
  <1> HIDE DEF s, S
  <1>12. Lists(FlattenSeq(s), UNION {S[k] : k \in 1 .. len})
    BY <1>5, <1>7, <1>8, <1>9, FlattenLists
  <1> QED
    BY <1>10, <1>11, <1>12 DEF R

PinInv ==
  /\ command \in Commands
  /\ DOMAIN cpu_list = Run
  /\ \A p \in Run : cpu_list[p] # <<>> =>
       /\ command[p].affinity \in Seq(Int)
       /\ Lists(cpu_list[p], UNION {CpusOf[n] : n \in Range(command[p].affinity)})

LEMMA PinStep == PinInv /\ [Next]_vars => PinInv'
  <1> SUFFICES ASSUME PinInv, [Next]_vars
               PROVE  PinInv'
    OBVIOUS
  <1>1. command' = command
    BY DEF Next, Tick, Step, ParseOptions, Affinity, Prefetch, Membind, MakeResultDir,
       NameOutputFile, AllocationFails, Allocate, PreTouch, SaveEnvironment, CheckFile,
       OpenOutput, OutputFails, RunTest, WriteRow, Free, options, vars
  <1>2. CASE cpu_list' = cpu_list
    BY <1>1, <1>2 DEF PinInv
  <1>3. ASSUME NEW p \in Run, Affinity(p), cpu_list' # cpu_list
        PROVE  PinInv'
    <2> DEFINE given == command[p].affinity
               nodes == parseNumaNodes(given)
               cpus == getCpusFromNumaNodes(nodes)
    <2>1. given # Unset /\ validateNumaNodes(nodes)
          /\ cpu_list' = [cpu_list EXCEPT ![p] = cpus]
      BY <1>3 DEF Affinity
    <2>2. given \in Seq(Int)
      BY <2>1, MicrobenchAssumption DEF PinInv
    <2>3. Lists(cpus, UNION {CpusOf[n] : n \in Range(given)})
      <3>1. PICK gv \in Seq(Int) : gv = given
        BY <2>2
      <3>2. PICK ns : ns = parseNumaNodes(gv)
        OBVIOUS
      <3>3. Lists(getCpusFromNumaNodes(ns), UNION {CpusOf[n] : n \in Range(gv)})
        BY <2>1, <3>1, <3>2, CpusListed
      <3> QED
        BY <3>1, <3>2, <3>3
    <2>4. DOMAIN cpu_list' = Run /\ cpu_list'[p] = cpus
          /\ \A q \in Run \ {p} : cpu_list'[q] = cpu_list[q]
      BY <2>1 DEF PinInv
    <2> HIDE DEF cpus, nodes
    <2> QED
      BY <1>1, <2>2, <2>3, <2>4 DEF PinInv
  <1>4. cpu_list' = cpu_list \/ \E p \in Run : Affinity(p)
    BY DEF Next, Tick, Step, ParseOptions, Prefetch, Membind, MakeResultDir,
       NameOutputFile, AllocationFails, Allocate, PreTouch, SaveEnvironment, CheckFile,
       OpenOutput, OutputFails, RunTest, WriteRow, Free, setup, vars
  <1> QED
    BY <1>2, <1>3, <1>4

\* The workers are pinned to CPUs of the nodes asked for, and no CPU of those gets two
\* workers more than another, however the nodes are listed on the command line and
\* however many CPUs they have.
THEOREM WorkersAlwaysSpread == Spec => []WorkersSpread
  <1>1. Init => PinInv
    BY DEF Init, PinInv
  <1>2. PinInv /\ [Next]_vars => PinInv'
    BY PinStep
  <1>3. PinInv => WorkersSpread
    <2> SUFFICES ASSUME PinInv, NEW p \in Run, cpu_list[p] # <<>>
                 PROVE  LET asked == UNION {CpusOf[n] : n \in Range(command[p].affinity)}
                        IN /\ \A t \in 0 .. command[p].threads - 1 : CpuOf(p, t) \in asked
                           /\ \A c, d \in asked : WorkersOn(p, c) <= WorkersOn(p, d) + 1
      BY DEF WorkersSpread
    <2> DEFINE asked == UNION {CpusOf[n] : n \in Range(command[p].affinity)}
    <2>1. PICK list : list = cpu_list[p]
      OBVIOUS
    <2>2. PICK count : count = command[p].threads
      OBVIOUS
    <2>3. count \in Int
      BY <2>2, MicrobenchAssumption DEF PinInv
    <2>4. PICK A : A = asked
      OBVIOUS
    <2>5. Lists(list, A) /\ list # <<>>
      BY <2>1, <2>4 DEF PinInv
    <2> HIDE DEF asked
    <2>6. ASSUME NEW t \in 0 .. count - 1
          PROVE  CpuOf(p, t) \in A
      <3>1. list \in Seq(A) /\ Len(list) \in Nat \ {0}
        BY <2>5, LenProperties, EmptySeq DEF Lists
      <3>2. t \in Int
        BY <2>3
      <3>3. (t % Len(list)) \in 0 .. Len(list) - 1
        BY <3>1, <3>2, DivModIs
      <3>4. (t % Len(list)) + 1 \in 1 .. Len(list)
        BY <3>1, <3>3
      <3>5. list[(t % Len(list)) + 1] \in A
        BY <3>1, <3>4, ElementOfSeq
      <3> QED
        BY <2>1, <3>5 DEF CpuOf
    <2>7. ASSUME NEW c \in A, NEW d \in A
          PROVE  WorkersOn(p, c) <= WorkersOn(p, d) + 1
      <3> DEFINE On(x) == {t \in 0 .. count - 1 : list[(t % Len(list)) + 1] = x}
      <3>1. Cardinality(On(c)) <= Cardinality(On(d)) + 1
        <4>1. PICK C : C = On(c)
          OBVIOUS
        <4>2. PICK D : D = On(d)
          OBVIOUS
        <4>3. \A t : t \in C <=> t \in 0 .. count - 1 /\ list[(t % Len(list)) + 1] = c
          BY <4>1
        <4>4. \A t : t \in D <=> t \in 0 .. count - 1 /\ list[(t % Len(list)) + 1] = d
          BY <4>2
        <4>5. Cardinality(C) <= Cardinality(D) + 1
          BY <2>3, <2>5, <4>3, <4>4, DealtEvenly
        <4> QED
          BY <4>1, <4>2, <4>5
      <3>2. \A x : {t \in 0 .. command[p].threads - 1 : CpuOf(p, t) = x} = On(x)
        BY <2>1, <2>2 DEF CpuOf
      <3> QED
        BY <3>1, <3>2 DEF WorkersOn
    <2> QED
      BY <2>2, <2>4, <2>6, <2>7 DEF asked
  <1> QED
    BY <1>1, <1>2, <1>3, PTL DEF Spec
=============================================================================
