--------------------------- MODULE BenchLifecycle ---------------------------
(***************************************************************************)
(* What a run of microbench takes and gives back (src/main.cpp around the  *)
(* tests, src/hw_prefetcher.cpp): the prefetcher register of every CPU,    *)
(* the memory, the DevDAX device and the result file, along main's exits   *)
(* and through the signal handler.                                         *)
(*                                                                         *)
(* rdmsr and wrmsr are processes that system() and popen() start.  wrmsr   *)
(* -a writes the CPUs one after another and stops at the first it cannot   *)
(* write.  system() makes its caller ignore SIGINT while it waits, the     *)
(* child does not; a SIGTERM finds the handler installed at any time.      *)
(* Tests are one step here (BenchRun); a fault in one (SIGSEGV, SIGBUS)    *)
(* runs the handler on the worker's thread, with main waiting for it.      *)
(***************************************************************************)
EXTENDS Naturals

CONSTANTS
  Cpus,             \* CPUs are 0 .. Cpus - 1
  BootValues        \* what MSR 0x1A4 of a CPU may hold before the run

Cpu == 0 .. Cpus - 1
Setting == {"ON", "OFF"}            \* wrmsr values 0x0 and 0xf
Value == Setting \cup BootValues
NoSetting == "unset"                    \* no --prefetch; nothing saved

ASSUME LifecycleAssumption ==
  /\ Cpus \in Nat \ {0}
  /\ NoSetting \notin BootValues

Kind == {"devdax", "huge", "numa"}  \* --devdax, --membind with and without --hugepage

VARIABLES
  option, kind,     \* prefetch_option, the kind of memory asked for
  main,             \* where main is
  boot, msr,        \* the registers before the run (history), and now
  saved,            \* saved_prefetcher_state, NoSetting until prefetcher_state_saved
  child,            \* child[p]: the wrmsr that p started
  handler,          \* where the signal handler is
  memory, device, file,     \* data and its allocator, devdax_fd, output_file
  disturbed         \* history: "failed" if a wrmsr did or was killed, "overlap" if a signal
                    \* arrived during one

registers == <<boot, msr, saved>>
resources == <<memory, device, file>>
mainVars == <<option, kind, main, registers, child, handler, resources, disturbed>>

Idle == [state |-> "idle", value |-> NoSetting, next |-> 0]
WrmsrOf(value) == [state |-> "running", value |-> value, next |-> 0]

InitMain ==
  /\ option \in Setting \cup {NoSetting}
  /\ kind \in Kind
  /\ main = "prefetcher"
  /\ boot \in [Cpu -> BootValues]
  /\ msr = boot
  /\ saved = NoSetting
  /\ child = [p \in {"main", "handler"} |-> Idle]
  /\ handler = "none"
  /\ memory = "none"
  /\ device = FALSE
  /\ file = "none"
  /\ disturbed = {}

-----------------------------------------------------------------------------
(* wrmsr *)

WriteCpu(p) ==
  /\ child[p].state = "running"
  /\ child[p].next < Cpus
  /\ msr' = [msr EXCEPT ![child[p].next] = child[p].value]
  /\ child' = [child EXCEPT ![p].next = @ + 1]
  /\ UNCHANGED <<option, kind, main, boot, saved, handler, resources, disturbed>>

WrmsrDone(p) ==
  /\ child[p].state = "running"
  /\ child[p].next = Cpus
  /\ child' = [child EXCEPT ![p].state = "ok"]
  /\ UNCHANGED <<option, kind, main, registers, handler, resources, disturbed>>

\* No access to the register of the next CPU.
WrmsrFails(p) ==
  /\ child[p].state = "running"
  /\ child[p].next < Cpus
  /\ child' = [child EXCEPT ![p].state = "failed"]
  /\ disturbed' = disturbed \cup {"failed"}
  /\ UNCHANGED <<option, kind, main, registers, handler, resources>>

Writing == \E p \in {"main", "handler"} : child[p].state = "running"

-----------------------------------------------------------------------------
(* main *)

MainRuns == handler = "none"

\* save_prefetcher_state: rdmsr reads the register of CPU 0.
SavePrefetcher ==
  /\ MainRuns
  /\ main = "prefetcher"
  /\ option # NoSetting
  /\ saved' = msr[0]
  /\ main' = "set"
  /\ UNCHANGED <<option, kind, boot, msr, child, handler, resources, disturbed>>

RdmsrFails ==
  /\ MainRuns
  /\ main = "prefetcher"
  /\ option # NoSetting
  /\ main' = "returned"
  /\ UNCHANGED <<option, kind, registers, child, handler, resources, disturbed>>

SetPrefetcher ==
  /\ MainRuns
  /\ main = "set"
  /\ child' = [child EXCEPT !["main"] = WrmsrOf(option)]
  /\ main' = "setting"
  /\ UNCHANGED <<option, kind, registers, handler, resources, disturbed>>

\* Mutant: the result of set_prefetcher_state is not looked at.
PrefetcherSetUnchecked ==
  /\ MainRuns
  /\ main = "setting"
  /\ child["main"].state \in {"ok", "failed"}
  /\ main' = "allocate"
  /\ UNCHANGED <<option, kind, registers, child, handler, resources, disturbed>>

\* On failure main returns at once, and restores nothing.
PrefetcherSet ==
  /\ MainRuns
  /\ main = "setting"
  /\ child["main"].state \in {"ok", "failed"}
  /\ main' = IF child["main"].state = "ok" THEN "allocate" ELSE "returned"
  /\ UNCHANGED <<option, kind, registers, child, handler, resources, disturbed>>

SkipPrefetcher ==
  /\ MainRuns
  /\ main = "prefetcher"
  /\ option = NoSetting
  /\ main' = "allocate"
  /\ UNCHANGED <<option, kind, registers, child, handler, resources, disturbed>>

\* No NUMA support or no such node; devdax cannot be opened or mapped (then it is
\* closed again); no huge pages; no memory on the node.
NoMemory ==
  /\ MainRuns
  /\ main = "allocate"
  /\ main' = "restore"
  /\ UNCHANGED <<option, kind, registers, child, handler, resources, disturbed>>

TakeMemory ==
  /\ MainRuns
  /\ main = "allocate"
  /\ memory' = kind
  /\ device' = (kind = "devdax")
  /\ main' = "output"
  /\ UNCHANGED <<option, kind, registers, child, handler, file, disturbed>>

\* munmap and close of a device.  Any other memory came from mmap or numa_alloc_onnode
\* and goes to free() (line 699), which does not know it: the C library aborts, for which
\* there is no handler, or returns and has released nothing.  (If it faults, the handler
\* runs: Signal.)
DropMemory(next) ==
  IF kind = "devdax"
  THEN main' = next /\ memory' = "unmapped" /\ device' = FALSE
  ELSE main' \in {next, "killed"} /\ UNCHANGED <<memory, device>>

\* Mutant: the exit forgets the prefetcher.
NoResultsForgets ==
  /\ MainRuns
  /\ main = "output"
  /\ DropMemory("returned")
  /\ UNCHANGED <<option, kind, registers, child, handler, file, disturbed>>

\* The result file cannot be created.
NoResults ==
  /\ MainRuns
  /\ main = "output"
  /\ DropMemory("restore")
  /\ UNCHANGED <<option, kind, registers, child, handler, file, disturbed>>

OpenResults ==
  /\ MainRuns
  /\ main = "output"
  /\ file' = "open"
  /\ main' = "tests"
  /\ UNCHANGED <<option, kind, registers, child, handler, memory, device, disturbed>>

\* The tests, then the row of results, and the file is closed.
RunTests ==
  /\ MainRuns
  /\ main = "tests"
  /\ file' = "closed"
  /\ main' = "release"
  /\ UNCHANGED <<option, kind, registers, child, handler, memory, device, disturbed>>

\* Mutant: the device stays open.
ReleaseKeepsDevice ==
  /\ MainRuns
  /\ main = "release"
  /\ memory' = IF kind = "devdax" THEN "unmapped" ELSE "numa_freed"
  /\ main' = "restore"
  /\ UNCHANGED <<option, kind, registers, child, handler, device, file, disturbed>>

Release ==
  /\ MainRuns
  /\ main = "release"
  /\ memory' = IF kind = "devdax" THEN "unmapped" ELSE "numa_freed"
  /\ device' = FALSE
  /\ main' = "restore"
  /\ UNCHANGED <<option, kind, registers, child, handler, file, disturbed>>

\* restore_prefetcher_state: nothing to do unless a state was saved.
Restore ==
  /\ MainRuns
  /\ main = "restore"
  /\ IF saved = NoSetting
     THEN main' = "returned" /\ UNCHANGED child
     ELSE main' = "restoring" /\ child' = [child EXCEPT !["main"] = WrmsrOf(saved)]
  /\ UNCHANGED <<option, kind, registers, handler, resources, disturbed>>

\* What wrmsr returned is not looked at.
Restored ==
  /\ MainRuns
  /\ main = "restoring"
  /\ child["main"].state \in {"ok", "failed"}
  /\ main' = "returned"
  /\ UNCHANGED <<option, kind, registers, child, handler, resources, disturbed>>

MainStep ==
  \/ SavePrefetcher \/ RdmsrFails \/ SetPrefetcher \/ PrefetcherSet \/ SkipPrefetcher
  \/ NoMemory \/ TakeMemory \/ NoResults \/ OpenResults \/ RunTests \/ Release
  \/ Restore \/ Restored

-----------------------------------------------------------------------------
(* Signals *)

\* SIGTERM, a fault in a test, or a SIGINT while no system() waits: the handler
\* interrupts main for good and restores.
Signal ==
  /\ main \notin {"returned", "killed"}
  /\ handler = "none"
  /\ IF saved = NoSetting
     THEN handler' = "exited" /\ UNCHANGED child
     ELSE handler' = "restoring" /\ child' = [child EXCEPT !["handler"] = WrmsrOf(saved)]
  /\ disturbed' = IF Writing THEN disturbed \cup {"overlap"} ELSE disturbed
  /\ UNCHANGED <<option, kind, main, registers, resources>>

HandlerExits ==
  /\ handler = "restoring"
  /\ child["handler"].state \in {"ok", "failed"}
  /\ handler' = "exited"
  /\ UNCHANGED <<option, kind, main, registers, child, resources, disturbed>>

\* Ctrl+C while system() waits: the process ignores it, its children die.
InterruptChildren ==
  /\ Writing
  /\ child' = [p \in DOMAIN child |-> IF child[p].state = "running"
                                      THEN [child[p] EXCEPT !.state = "failed"]
                                      ELSE child[p]]
  /\ disturbed' = disturbed \cup {"failed"}
  /\ UNCHANGED <<option, kind, main, registers, handler, resources>>

-----------------------------------------------------------------------------

Over == main = "returned" \/ handler = "exited"

NextMain ==
  \/ MainStep
  \/ \E p \in {"main", "handler"} : WriteCpu(p) \/ WrmsrDone(p) \/ WrmsrFails(p)
  \/ Signal \/ HandlerExits \/ InterruptChildren

SpecMain == InitMain /\ [][NextMain]_mainVars

-----------------------------------------------------------------------------
(* Properties *)

\* Type invariant.
MainTypeOK ==
  /\ option \in Setting \cup {NoSetting}
  /\ kind \in Kind
  /\ main \in {"prefetcher", "set", "setting", "allocate", "output", "tests", "release",
               "restore", "restoring", "returned", "killed"}
  /\ boot \in [Cpu -> BootValues]
  /\ msr \in [Cpu -> Value]
  /\ saved \in BootValues \cup {NoSetting}
  /\ child \in [{"main", "handler"} ->
       [state : {"idle", "running", "ok", "failed"}, value : Value \cup {NoSetting},
        next : 0 .. Cpus]]
  /\ handler \in {"none", "restoring", "exited"}
  /\ memory \in Kind \cup {"none", "unmapped", "numa_freed"}
  /\ device \in BOOLEAN
  /\ file \in {"none", "open", "closed"}
  /\ disturbed \subseteq {"failed", "overlap"}

SameOnAllCpus == \A c, d \in Cpu : boot[c] = boot[d]

\* When main returns or the handler exits, every CPU has the register it had before, if
\* they agreed and no wrmsr failed, was killed or met a signal: no exit of main and no
\* failure of it forgets to restore.  (An abort in free(), "killed", restores nothing.)
RegistersComeBack ==
  (Over /\ disturbed = {} /\ SameOnAllCpus) => msr = boot

\* hw_prefetcher.h:17 "Signal handler for cleanup (restores prefetcher state)": once the
\* handler has exited and the last wrmsr is through, with no failure of any, the registers
\* are as they were, whenever the signal came.
HandlerRestores ==
  (handler = "exited" /\ ~Writing /\ "failed" \notin disturbed /\ SameOnAllCpus) => msr = boot

\* A test runs with the prefetchers of all CPUs as --prefetch asked.
TestsRunAsAsked ==
  (main = "tests" /\ handler = "none" /\ option # NoSetting) =>
    \A c \in Cpu : msr[c] = option

\* After the tests a return has released whatever was taken.  One before them has too,
\* except for memory that is not the device's when there is no result file (line 699).
ReturnReleases ==
  main \in {"restoring", "returned"} =>
    /\ ~device /\ file # "open"
    /\ memory \in Kind => kind # "devdax" /\ file = "none"

=============================================================================
