----------------------------- MODULE Integrate -----------------------------
(***************************************************************************)
(* Projects/Integral, and the same code in NetworkIntegration: Integrate() *)
(* divides an interval among n_threads threads, lets at least as many run  *)
(* as there are processors, each bound to one, and adds up the results of  *)
(* the first n_threads.  It frees what the threads read and write when it  *)
(* returns, whether they have ended or not.                                *)
(*                                                                         *)
(* One action is one call of the main thread that may fail or that other   *)
(* threads can tell, or one access of another thread to its thread_info.   *)
(* Lengths are counted in steps, values of the integral in half steps; the *)
(* interval of a thread is a whole number of steps.  C arrays are          *)
(* functions on indices from 0.                                            *)
(***************************************************************************)
EXTENDS Integers, Sequences, FiniteSets

CONSTANTS MaxThreads,  \* a bound of the argument n_threads
          Machines,    \* what get_nprocs(), the "core id" lines of /proc/cpuinfo and the
                       \* line size of the first data cache (0 if unknown) may be
          Widths,      \* the length of one thread's interval, negative for end < begin
          Begin,       \* where the interval begins
          Foo(_),      \* the function to be integrated
          Garbage      \* what is in memory that nobody has written to

ASSUME MaxThreadsAssumption == MaxThreads \in Nat
ASSUME MachinesAssumption ==
  \A m \in Machines :
    /\ m.n_cpus \in Nat \ {0} /\ m.core_ids \in Seq(Nat) /\ m.cache_line \in Nat
    /\ m.core_ids = <<>> \/ Len(m.core_ids) = m.n_cpus
    /\ \A p \in DOMAIN m.core_ids : m.core_ids[p] < Len(m.core_ids)
ASSUME IntegralAssumption == Widths \subseteq Int /\ Begin \in Int /\ Garbage \in Int

VARIABLES
  n_threads, width,              \* the arguments,
  core_ids, n_cpus, cache_line,  \* and the machine
  main,       \* the next step of the main thread
  error,      \* what Integrate() is to return
  failed,     \* the call that has failed
  at,         \* the thread it is creating or joining
  allocated,  \* what it has allocated and not yet freed
  cpuInfo,    \* what get_mycpu_info() has returned
  affinity,   \* affinity[i]: the processor thread i is bound to
  infosp,     \* infosp[i]: the interval of thread i, and its result
  thread,     \* thread[i]: its next step
  res         \* the sum of the results

arguments == <<n_threads, width, core_ids, n_cpus, cache_line>>
tables == <<cpuInfo, affinity, infosp>>
outcome == <<error, failed>>
vars == <<arguments, main, outcome, at, allocated, tables, thread, res>>

NThreadCreate == IF n_threads > n_cpus THEN n_threads ELSE n_cpus
Threads == 0 .. NThreadCreate - 1
End == Begin + n_threads * width
Least(a, b) == IF a < b THEN a ELSE b
Most(a, b) == IF a < b THEN b ELSE a
Between(a, b) == Least(a, b) .. Most(a, b)

(* Wherever the program may look at it, Foo has a value. *)
ASSUME FooAssumption ==
  \A w \in Widths : \A x \in Between(Begin, Begin + MaxThreads * w) : Foo(x) \in Int

-----------------------------------------------------------------------------
(* get_mycpu_info() groups the processors by core.  A core that comes for the   *)
(* first time is put in the next place, but sought at the place of its core_id, *)
(* so that a processor may have been put there already: its array is lost.      *)
EmptyInfo(ids) == [n_cpu |-> 0, cpus |-> [c \in 0 .. Len(ids) - 1 |-> <<>>], lost |-> FALSE]

FirstOfCore(ids, i) == \A j \in 0 .. i - 1 : ids[j + 1] # ids[i + 1]

(* Mistake: the core is not sought at all. *)
AddProcessor_New(info, ids, i) ==
  [info EXCEPT !.n_cpu = @ + 1, !.cpus[info.n_cpu] = <<i>>]

(* Mistake: processors are counted from 1. *)
AddProcessor_FromOne(info, ids, i) ==
  IF FirstOfCore(ids, i)
  THEN [info EXCEPT !.n_cpu = @ + 1, !.cpus[info.n_cpu] = <<i + 1>>]
  ELSE [info EXCEPT !.cpus[ids[i + 1]] = Append(@, i + 1)]

AddProcessor(info, ids, i) ==
  IF FirstOfCore(ids, i)
  THEN [n_cpu |-> info.n_cpu + 1, cpus |-> [info.cpus EXCEPT ![info.n_cpu] = <<i>>],
        lost |-> info.lost \/ info.cpus[info.n_cpu] # <<>>]
  ELSE [info EXCEPT !.cpus[ids[i + 1]] = Append(@, i)]

(* What it has after the first m processors, and in the end. *)
CpuInfoAfter(ids, m) ==
  LET after[n \in 0 .. Len(ids)] ==
        IF n = 0 THEN EmptyInfo(ids) ELSE AddProcessor(after[n - 1], ids, n - 1)
  IN  after[m]
CpuInfo(ids) == CpuInfoAfter(ids, Len(ids))

(* Not every array of processors is in one of the first n_cpu places, where they *)
(* are sought when they are to be freed.                                         *)
Astray(info) == info.lost \/ \E c \in DOMAIN info.cpus : c >= info.n_cpu /\ info.cpus[c] # <<>>

(* add_to_processors_array(): when the array is full, realloc() makes room for as *)
(* many again.  If it fails on the array of an older core, that array is lost.    *)
OldArray(i) == IF FirstOfCore(core_ids, i) THEN <<>>
               ELSE CpuInfoAfter(core_ids, i).cpus[core_ids[i + 1]]
Full(array) == Len(array) = 0 \/ \E k \in 0 .. Len(array) : Len(array) = 2 ^ k
Leftover(i) == IF Astray(CpuInfoAfter(core_ids, i)) \/ OldArray(i) # <<>> THEN {"processors"} ELSE {}

(* set_attrs() *)
Processor(i) ==
  LET cpu == cpuInfo.cpus[i % cpuInfo.n_cpu]
  IN  cpu[((i \div cpuInfo.n_cpu) % Len(cpu)) + 1]

(* fill_thread_info() *)
Info(b, e) == [begin |-> b, end |-> e, res |-> Garbage]
(* Mistake: the first of the threads that do not count is counted. *)
ThreadInfo_Off(i) ==
  IF i < n_threads - 1 THEN Info(Begin + i * width, Begin + (i + 1) * width)
  ELSE Info(Begin, Begin + width)
ThreadInfo(i) ==
  IF i < n_threads
  THEN Info(Begin + i * width, IF i = n_threads - 1 THEN End ELSE Begin + (i + 1) * width)
  ELSE Info(Begin, Begin + width)

(* term[1] + ... + term[n] *)
Sum(term, n) ==
  LET sum[k \in 0 .. n] == IF k = 0 THEN 0 ELSE sum[k - 1] + term[k]
  IN  sum[n]

(* CalcIntegral(): f1 and f2 lag one step behind x from the second step on. *)
CalcIntegral(begin, end) ==
  LET lo == Least(begin, end)
      n == Most(begin, end) - lo
  IN  Sum([k \in 1 .. n |-> CASE k = 1 -> Foo(lo) + Foo(lo + 1)
                               [] k = 2 -> Foo(lo + 1) + Foo(lo + 1)
                               [] OTHER -> Foo(lo + k - 2) + Foo(lo + k - 1)], n)

-----------------------------------------------------------------------------
Init ==
  /\ n_threads \in -1 .. MaxThreads /\ width \in Widths
  /\ \E m \in Machines :
       core_ids = m.core_ids /\ n_cpus = m.n_cpus /\ cache_line = m.cache_line
  /\ main = "arguments" /\ error = "E_SUCCESS" /\ failed = "none" /\ at = 0
  /\ allocated = {}
  /\ cpuInfo = <<>> /\ affinity = <<>> /\ infosp = <<>>
  /\ thread = [i \in Threads |-> "none"]
  /\ res = 0

(* The process has not ended. *)
Running == main \notin {"printed", "failed", "crashed"}

Succeeds(next) == main' = next /\ UNCHANGED outcome
Fails(call, e, next) == main' = next /\ error' = e /\ failed' = call
Crashes == main' = "crashed" /\ UNCHANGED outcome

(* n_threads is an int, but only 0 is refused. *)
CheckArguments ==
  /\ main = "arguments"
  /\ IF n_threads = 0 THEN Fails("none", "E_BADARGS", "returned") ELSE Succeeds("cpus")
  /\ UNCHANGED <<arguments, at, allocated, tables, thread, res>>

(* fread() is given what popen() returns.  Without memory for the cores the pipe is *)
(* left open; without memory for a processor all is freed that is in its place.     *)
GetCpuInfo ==
  /\ main = "cpus"
  /\ \/ /\ cpuInfo' = CpuInfo(core_ids) /\ allocated' = {"cpus", "processors"}
        /\ Succeeds("threads")
     \/ /\ Fails("popen", error, "crashed")
        /\ UNCHANGED <<cpuInfo, allocated>>
     \/ /\ Fails("calloc", "E_MEMLACK", "returned")
        /\ allocated' = {"pipe"} /\ UNCHANGED cpuInfo
     \/ \E i \in 0 .. Len(core_ids) - 1 :
          /\ Full(OldArray(i))
          /\ Fails("realloc", "E_MEMLACK", "returned")
          /\ allocated' = Leftover(i) /\ UNCHANGED cpuInfo
  /\ UNCHANGED <<arguments, at, affinity, infosp, thread, res>>

AllocateThreads ==
  /\ main = "threads"
  /\ \/ Succeeds("infosp") /\ allocated' = allocated \cup {"threads"}
     \/ Fails("malloc", "E_MEMLACK", "exit_threads") /\ UNCHANGED allocated
  /\ UNCHANGED <<arguments, at, tables, thread, res>>

(* build_cache_aligned_thread_info() divides by the line size; fill_thread_info(), *)
(* to which a negative n_threads comes as a size_t, goes through all of the memory. *)
AllocateInfos ==
  /\ main = "infosp"
  /\ \/ /\ cache_line = 0 \/ n_threads < 0
        /\ Crashes /\ UNCHANGED <<infosp, allocated>>
     \/ /\ cache_line > 0 /\ n_threads > 0
        /\ infosp' = [i \in Threads |-> ThreadInfo(i)]
        /\ allocated' = allocated \cup {"infosp"}
        /\ Succeeds("attrs")
     \/ /\ cache_line > 0
        /\ Fails("malloc", "E_MEMLACK", "exit_infosp") /\ UNCHANGED <<infosp, allocated>>
  /\ UNCHANGED <<arguments, at, cpuInfo, affinity, thread, res>>

(* malloc() and pthread_attr_init(); the failure of the latter leaves attrs behind. *)
(* Mistake: infosp is left behind, too. *)
AllocateAttrs_Leak ==
  /\ main = "attrs"
  /\ \/ Succeeds("affinity") /\ allocated' = allocated \cup {"attrs"}
     \/ Fails("malloc", "E_MEMLACK", "exit_infosp") /\ UNCHANGED allocated
     \/ /\ Fails("pthread_attr_init", "E_THREAD", "exit_infosp")
        /\ allocated' = allocated \cup {"attrs"}
  /\ UNCHANGED <<arguments, at, tables, thread, res>>

AllocateAttrs ==
  /\ main = "attrs"
  /\ \/ Succeeds("affinity") /\ allocated' = allocated \cup {"attrs"}
     \/ Fails("malloc", "E_MEMLACK", "exit_attrs") /\ UNCHANGED allocated
     \/ /\ Fails("pthread_attr_init", "E_THREAD", "exit_attrs")
        /\ allocated' = allocated \cup {"attrs"}
  /\ UNCHANGED <<arguments, at, tables, thread, res>>

(* Without "core id" lines set_attrs() divides by zero. *)
SetAttrs ==
  /\ main = "affinity"
  /\ \/ cpuInfo.n_cpu = 0 /\ Crashes /\ UNCHANGED affinity
     \/ /\ cpuInfo.n_cpu > 0
        /\ affinity' = [i \in Threads |-> Processor(i)]
        /\ Succeeds("create")
     \/ /\ cpuInfo.n_cpu > 0
        /\ Fails("pthread_attr_setaffinity_np", "E_THREAD", "exit_all") /\ UNCHANGED affinity
  /\ UNCHANGED <<arguments, at, allocated, cpuInfo, infosp, thread, res>>

Create ==
  /\ main = "create" /\ at \in Threads
  /\ \/ /\ thread' = [thread EXCEPT ![at] = "read"] /\ at' = at + 1
        /\ Succeeds("create")
     \/ Fails("pthread_create", "E_THREAD", "exit_all") /\ UNCHANGED <<thread, at>>
  /\ UNCHANGED <<arguments, allocated, tables, res>>

AllCreated ==
  /\ main = "create" /\ at \notin Threads
  /\ main' = "join" /\ at' = 0
  /\ UNCHANGED <<arguments, outcome, allocated, tables, thread, res>>

Join ==
  /\ main = "join" /\ at < n_threads
  /\ thread[at] = "done"
  /\ res' = res + infosp[at].res
  /\ at' = at + 1
  /\ UNCHANGED <<arguments, main, outcome, allocated, tables, thread>>

(* Mistake: the last thread is not waited for. *)
AllJoined_Early ==
  /\ main = "join" /\ at = n_threads - 1
  /\ main' = "exit_all"
  /\ UNCHANGED <<arguments, outcome, at, allocated, tables, thread, res>>

AllJoined ==
  /\ main = "join" /\ at = n_threads
  /\ main' = "exit_all"
  /\ UNCHANGED <<arguments, outcome, at, allocated, tables, thread, res>>

(* The labels exit_all, exit_attrs, exit_infosp and exit_threads, each of which *)
(* goes on to the next.  What is not allocated cannot be freed; an array of     *)
(* processors is sought in the first n_cpu places only.                         *)
Free(what, next) ==
  /\ IF what \subseteq allocated
     THEN allocated' = allocated \ what /\ main' = next
     ELSE main' = "crashed" /\ UNCHANGED allocated
  /\ UNCHANGED <<arguments, outcome, at, tables, thread, res>>

Found == IF Astray(cpuInfo) THEN {} ELSE {"processors"}

Exit == \/ main = "exit_all" /\ Free({"attrs"}, "exit_attrs")
        \/ main = "exit_attrs" /\ Free({"infosp"}, "exit_infosp")
        \/ main = "exit_infosp" /\ Free({"threads"}, "exit_threads")
        \/ main = "exit_threads" /\ Free({"cpus"} \cup Found, "returned")

(* main() prints the result or an error, and the process ends. *)
PrintResult ==
  /\ main = "returned"
  /\ main' = IF error = "E_SUCCESS" THEN "printed" ELSE "failed"
  /\ UNCHANGED <<arguments, outcome, at, allocated, tables, thread, res>>

-----------------------------------------------------------------------------
(* start_routine().  Nobody knows what the freed memory is used for: the thread *)
(* may work with whatever it finds there, or crash, and what it writes there may *)
(* crash the process.                                                           *)
UsesFreed ==
  /\ "infosp" \notin allocated
  /\ \/ UNCHANGED main
     \/ main' = "crashed"

ThreadReads(i) ==
  /\ Running /\ thread[i] = "read"
  /\ \/ "infosp" \in allocated /\ UNCHANGED main
     \/ UsesFreed
  /\ thread' = [thread EXCEPT ![i] = "write"]
  /\ UNCHANGED <<arguments, outcome, at, allocated, tables, res>>

ThreadWrites(i) ==
  /\ Running /\ thread[i] = "write"
  /\ \/ /\ "infosp" \in allocated
        /\ infosp' = [infosp EXCEPT ![i].res = CalcIntegral(infosp[i].begin, infosp[i].end)]
        /\ UNCHANGED main
     \/ UsesFreed /\ UNCHANGED infosp
  /\ thread' = [thread EXCEPT ![i] = "done"]
  /\ UNCHANGED <<arguments, outcome, at, allocated, cpuInfo, affinity, res>>

Terminated == ~Running /\ UNCHANGED vars

Main == \/ CheckArguments \/ GetCpuInfo \/ AllocateThreads \/ AllocateInfos \/ AllocateAttrs
        \/ SetAttrs \/ Create \/ AllCreated \/ Join \/ AllJoined \/ Exit \/ PrintResult

Next == Main \/ (\E i \in Threads : ThreadReads(i) \/ ThreadWrites(i)) \/ Terminated

Spec == Init /\ [][Next]_vars
-----------------------------------------------------------------------------
(* Every variable has its type; an array has an element for each thread. *)
TypeOK ==
  /\ n_threads \in -1 .. MaxThreads /\ width \in Widths
  /\ main \in {"arguments", "cpus", "threads", "infosp", "attrs", "affinity", "create", "join",
               "exit_all", "exit_attrs", "exit_infosp", "exit_threads", "returned",
               "printed", "failed", "crashed"}
  /\ error \in {"E_SUCCESS", "E_BADARGS", "E_MEMLACK", "E_THREAD"}
  /\ at \in 0 .. NThreadCreate
  /\ allocated \subseteq {"cpus", "processors", "pipe", "threads", "infosp", "attrs"}
  /\ affinity = <<>> \/ affinity \in [Threads -> 0 .. n_cpus - 1]
  /\ infosp = <<>> \/ infosp \in [Threads -> [begin : Int, end : Int, res : Int]]
  /\ thread \in [Threads -> {"none", "read", "write", "done"}]
  /\ res \in Int

(* What the program prints is the integral without its sign, as CalcIntegral() *)
(* means it: the area below Foo over the whole interval, in whichever direction. *)
(* Where Foo is monotone the difference is at most the change of Foo over the   *)
(* whole interval times a step (in half steps, twice the change), however many  *)
(* threads it was divided among and whichever ends first: no part is missing,   *)
(* counted twice, or read before it has been written.                           *)
Trapezoids ==
  LET lo == Least(Begin, End)
      n == Most(Begin, End) - lo
  IN  Sum([k \in 1 .. n |-> Foo(lo + k - 1) + Foo(lo + k)], n)

ResultIsIntegral ==
  main = "printed" =>
    LET tolerance == 2 * Most(Foo(Begin) - Foo(End), Foo(End) - Foo(Begin))
    IN  res - Trapezoids \in -tolerance .. tolerance

(* If every processor has a thread that is waited for, and every thread can be *)
(* created, no thread touches the memory that calc.c:154 has freed, nothing is *)
(* freed that is not there, and the program gets through.  It may crash only   *)
(* for an argument below 0, without "core id" lines, where the size of a cache *)
(* line is unknown, when popen() fails, with fewer threads than processors, or *)
(* when pthread_create() has failed after some threads had been created.       *)
CrashHasACause ==
  main = "crashed" =>
    \/ n_threads < 0 \/ core_ids = <<>> \/ cache_line = 0
    \/ failed = "popen"
    \/ n_threads < n_cpus
    \/ failed = "pthread_create" /\ \E i \in Threads : thread[i] # "none"

(* No core comes before those with lower numbers. *)
Numbered ==
  \A p \in DOMAIN core_ids :
    core_ids[p] <= Cardinality({core_ids[q] : q \in 1 .. p - 1})

(* Wherever it gives up, Integrate() frees what it has allocated, but for the    *)
(* attributes when pthread_attr_init() has failed (calc.c:104), the pipe when    *)
(* there was no memory for the cores (pthread_manager.c:65), and processors when *)
(* there was no memory for one or the numbers of the cores are not in order.     *)
NothingLeaks ==
  main \in {"returned", "printed", "failed"} =>
    /\ allocated \subseteq {"attrs", "pipe", "processors"}
    /\ "attrs" \in allocated => failed = "pthread_attr_init"
    /\ "pipe" \in allocated => failed = "calloc"
    /\ "processors" \in allocated => failed = "realloc" \/ ~Numbered

(* If the cores are numbered in the order of their processors, the threads are *)
(* spread evenly over the cores, and over the processors of each.              *)
Spread ==
  affinity # <<>> /\ Numbered =>
    LET core(p) == core_ids[p + 1]
        processors == 0 .. n_cpus - 1
        onProcessor(p) == Cardinality({i \in Threads : affinity[i] = p})
        onCore(p) == Cardinality({i \in Threads : core(affinity[i]) = core(p)})
    IN  \A p, q \in processors : /\ onCore(p) - onCore(q) \in -1 .. 1
                                 /\ core(p) = core(q) => onProcessor(p) - onProcessor(q) \in -1 .. 1
=============================================================================
